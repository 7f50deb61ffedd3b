---------------------------- MODULE VecDotProofs ----------------------------
(***************************************************************************)
(* Proofs about VecDot, for every kernel, every call and every size of     *)
(* linear memory: the checks of the prologue keep every access in bounds,  *)
(* a call that traps had to and has written nothing, and a call that       *)
(* returns has added every block of its rows once.                         *)
(*                                                                         *)
(* The argument: what is left of a row always ends inside memory.  The     *)
(* prologue establishes it for the whole row, every pass moves the pointer *)
(* by exactly the blocks it takes off the count, and a pass that runs has  *)
(* the blocks it reads left.  What is in the accumulators ends where the   *)
(* pointers are.                                                           *)
(***************************************************************************)
EXTENDS VecDot, TLAPS

Indices == /\ k \in Kernels /\ call \in Calls
           /\ left \in Nat /\ x \in Nat /\ y \in Nat /\ combo \in Lanes

(* The rest of the rows, and the results, end inside memory.               *)
RestFits == /\ x + left * k.xb <= Size
            /\ y + left * k.yb <= Size

TileRestFits == /\ x + call.bx + left * k.xb <= Size
                /\ y + call.by + left * k.yb <= Size

Four == k.arch = "amd64" /\ call.nrc = 2

FourFit == /\ call.s + 8 <= Size
           /\ call.s + 4 * call.bs + 8 <= Size
           /\ call.x + call.bx + nb * k.xb <= Size
           /\ call.y + call.by + nb * k.yb <= Size

Running == pc \in {"loop", "reduce", "combo"}

SafeInv ==
    /\ Indices
    /\ pc = "loop" => RestFits /\ (k.loop = 1 => left >= 1)
    /\ pc = "combo" => Four
    /\ Running /\ Four => FourFit
    /\ Running /\ ~Four => call.s + 4 <= Size
    /\ pc = "tile" => TileRestFits /\ left >= 1
    /\ pc \in {"tile", "tilestore"} => call.s + 4 * call.bs + 8 <= Size
    /\ InBounds
    /\ pc \in {"prologue", "trap"} => stored = {}

-----------------------------------------------------------------------------
(* The members of a kernel and of a call are natural numbers.              *)
LEMMA Members ==
    ASSUME k \in Kernels, call \in Calls
    PROVE  /\ k.arch \in {"arm64", "amd64"}
           /\ k.loop \in {1, 2}
           /\ k.tile \in {"none", "tile", "four"}
           /\ k.per \in Nat \ {0} /\ k.xb \in Nat /\ k.yb \in Nat
           /\ call.n \in Nat /\ call.s \in Nat /\ call.bs \in Nat
           /\ call.x \in Nat /\ call.bx \in Nat /\ call.y \in Nat /\ call.by \in Nat
           /\ call.nrc \in {1, 2}
<1>1. k \in [arch : {"arm64", "amd64"}, loop : 1 .. 2, tile : {"none", "tile", "four"},
             per : Nat \ {0}, xb : Nat, yb : Nat]
  BY KernelsAssumption
<1>2. call \in [n : Nat, s : Nat, bs : Nat, x : Nat, bx : Nat, y : Nat, by : Nat, nrc : 1 .. 2]
  BY CallsAssumption
<1> QED
  BY <1>1, <1>2

(* Dividing a natural number by a positive one leaves a natural number.    *)
LEMMA Quotient ==
    ASSUME NEW n \in Nat, NEW d \in Nat \ {0}
    PROVE  n \div d \in Nat
  BY SMT

LEMMA BlocksNat ==
    ASSUME k \in Kernels, call \in Calls
    PROVE  nb \in Nat
  BY Members, Quotient DEF nb

(* One block, or two, off a span of a blocks of b bytes.                   *)
LEMMA OneOff ==
    ASSUME NEW a \in Nat, NEW b \in Nat, a >= 1
    PROVE  /\ (a - 1) * b = a * b - b
           /\ a * b \in Nat /\ b <= a * b
  BY SMT

LEMMA TwoOff ==
    ASSUME NEW a \in Nat, NEW b \in Nat, a >= 2
    PROVE  /\ (a - 2) * b = a * b - 2 * b
           /\ a * b \in Nat /\ 2 * b <= a * b
  BY SMT

LEMMA ProductNat ==
    ASSUME NEW a \in Nat, NEW b \in Nat
    PROVE  a * b \in Nat
  BY SMT

LEMMA RowColumn ==
    ASSUME NEW l \in Lanes
    PROVE  row(l) \in {0, 1} /\ column(l) \in {0, 1}
  BY DEF Lanes, row, column

(* The stride of a row or column, taken or not.                            *)
LEMMA Stride ==
    ASSUME NEW r \in {0, 1}, NEW b \in Nat
    PROVE  r * b \in Nat /\ r * b <= b /\ b * r \in Nat /\ b * r <= b
  BY SMT

-----------------------------------------------------------------------------
LEMMA InitSafe == Init => SafeInv
<1> SUFFICES ASSUME Init PROVE SafeInv
  OBVIOUS
<1>1. Indices
  BY DEF Init, Indices, Lanes
<1>2. pc = "prologue" /\ touched = {} /\ stored = {}
  BY DEF Init
<1> QED
  BY <1>1, <1>2 DEF SafeInv, Running, InBounds

(* A trap keeps what it found, except for the accesses.                    *)
LEMMA TrapSafe ==
    ASSUME SafeInv, pc = "prologue", Trap
    PROVE  SafeInv'
<1>1. Indices'
  BY DEF SafeInv, Indices, Trap
<1>2. pc' = "trap" /\ touched' = {} /\ stored' = {}
  BY DEF SafeInv, Trap
<1> QED
  BY <1>1, <1>2 DEF SafeInv, Running, InBounds

(* What Start leaves: the whole rows to go, from the pointers of the call. *)
LEMMA Started ==
    ASSUME SafeInv, NEW where, Start(where)
    PROVE  /\ Indices' /\ touched' = {} /\ InBounds'
           /\ k' = k /\ call' = call /\ nb' = nb
           /\ left' = nb /\ x' = call.x /\ y' = call.y /\ pc' = where
           /\ stored' = stored
<1>1. k \in Kernels /\ call \in Calls
  BY DEF SafeInv, Indices
<1>2. /\ k' = k /\ call' = call /\ left' = nb /\ x' = call.x /\ y' = call.y
      /\ pc' = where /\ touched' = {} /\ combo' = combo /\ stored' = stored
  BY DEF Start
<1>3. nb \in Nat /\ call.x \in Nat /\ call.y \in Nat
  BY <1>1, BlocksNat, Members
<1>4. Indices'
  BY <1>2, <1>3 DEF SafeInv, Indices
<1>5. nb' = nb
  BY <1>2 DEF nb
<1> QED
  BY <1>2, <1>4, <1>5 DEF InBounds

LEMMA OneRowSafe ==
    ASSUME SafeInv, pc = "prologue", OneRow, ~Four
    PROVE  SafeInv'
<1>1. CASE ~OneRowFits
  BY <1>1, TrapSafe DEF OneRow
<1>2. CASE OneRowFits
  <2> DEFINE where == IF nb = 0 THEN "reduce" ELSE "loop"
  <2>1. Start(where)
    BY <1>2 DEF OneRow
  <2>2. /\ Indices' /\ InBounds' /\ k' = k /\ call' = call /\ nb' = nb
        /\ left' = nb /\ x' = call.x /\ y' = call.y /\ pc' = where
    BY <2>1, Started
  <2>3. ~Four'
    BY <2>2 DEF Four
  <2>4. call'.s + 4 <= Size
    BY <1>2, <2>2 DEF OneRowFits, Fits
  <2>5. nb \in Nat
    BY BlocksNat DEF SafeInv, Indices
  <2>6. pc' = "loop" => RestFits' /\ left' >= 1
    BY <1>2, <2>2, <2>5 DEF OneRowFits, Fits, RestFits
  <2>7. pc' \in {"reduce", "loop"}
    BY <2>2
  <2> QED
    BY <2>2, <2>3, <2>4, <2>6, <2>7 DEF SafeInv, Running
<1> QED
  BY <1>1, <1>2

LEMMA Prologue2Safe ==
    ASSUME SafeInv, vecDotPrologue2
    PROVE  SafeInv'
<1>1. pc = "prologue" /\ k.arch = "arm64"
  BY DEF vecDotPrologue2
<1>2. ~Four
  BY <1>1 DEF Four
<1>3. CASE call.nrc # 2
  BY <1>1, <1>2, <1>3, OneRowSafe DEF vecDotPrologue2
<1>4. CASE call.nrc = 2
  <2> DEFINE fits == /\ Fits(call.s + 4 * call.bs + 8)
                     /\ Fits(call.x + call.bx + nb * k.xb)
                     /\ Fits(call.y + call.by + nb * k.yb)
             where == IF nb = 0 THEN "tilestore" ELSE "tile"
  <2>1. CASE ~fits
    <3>1. Trap
      BY <1>4, <2>1 DEF vecDotPrologue2
    <3> QED
      BY <1>1, <3>1, TrapSafe
  <2>2. CASE fits
    <3>1. Start(where)
      BY <1>4, <2>2 DEF vecDotPrologue2
    <3>2. /\ Indices' /\ InBounds' /\ k' = k /\ call' = call /\ nb' = nb
          /\ left' = nb /\ x' = call.x /\ y' = call.y /\ pc' = where
      BY <3>1, Started
    <3>3. nb \in Nat
      BY BlocksNat DEF SafeInv, Indices
    <3>4. pc' \in {"tile", "tilestore"}
      BY <3>2
    <3>5. call'.s + 4 * call'.bs + 8 <= Size
      BY <2>2, <3>2 DEF Fits
    <3>6. pc' = "tile" => TileRestFits' /\ left' >= 1
      BY <2>2, <3>2, <3>3 DEF Fits, TileRestFits
    <3> QED
      BY <3>2, <3>4, <3>5, <3>6 DEF SafeInv, Running
  <2> QED
    BY <2>1, <2>2
<1> QED
  BY <1>3, <1>4

LEMMA X64TileSafe ==
    ASSUME SafeInv, x64TilePrologue
    PROVE  SafeInv'
<1>1. pc = "prologue" /\ Four
  BY DEF x64TilePrologue, Four
<1> DEFINE fits == /\ Fits(call.s + 8)
                   /\ Fits(call.s + 4 * call.bs + 8)
                   /\ Fits(call.x + call.bx + nb * k.xb)
                   /\ Fits(call.y + call.by + nb * k.yb)
<1>2. CASE ~fits
  <2>1. Trap
    BY <1>2 DEF x64TilePrologue
  <2> QED
    BY <1>1, <2>1, TrapSafe
<1>3. CASE fits
  <2>1. Start("combo")
    BY <1>3 DEF x64TilePrologue
  <2>2. /\ Indices' /\ InBounds' /\ k' = k /\ call' = call /\ nb' = nb /\ pc' = "combo"
    BY <2>1, Started
  <2>3. Four'
    BY <1>1, <2>2 DEF Four
  <2>4. FourFit'
    BY <1>3, <2>2 DEF Fits, FourFit
  <2> QED
    BY <2>2, <2>3, <2>4 DEF SafeInv, Running
<1> QED
  BY <1>2, <1>3

-----------------------------------------------------------------------------
(* One block off the count and over for both pointers.                     *)
LEMMA OneStep ==
    ASSUME SafeInv, RestFits, left >= 1
    PROVE  /\ \A t \in {XBlock(x), YBlock(y)} : 0 <= t.from /\ t.to <= Size
           /\ x + k.xb \in Nat /\ y + k.yb \in Nat /\ left - 1 \in Nat
           /\ (x + k.xb) + (left - 1) * k.xb <= Size
           /\ (y + k.yb) + (left - 1) * k.yb <= Size
<1>1. k \in Kernels /\ call \in Calls /\ left \in Nat /\ x \in Nat /\ y \in Nat
  BY DEF SafeInv, Indices
<1>2. k.xb \in Nat /\ k.yb \in Nat /\ Size \in Nat
  BY <1>1, Members, SizeAssumption
<1>3. /\ (left - 1) * k.xb = left * k.xb - k.xb
      /\ left * k.xb \in Nat /\ k.xb <= left * k.xb
  BY <1>1, <1>2, OneOff
<1>4. /\ (left - 1) * k.yb = left * k.yb - k.yb
      /\ left * k.yb \in Nat /\ k.yb <= left * k.yb
  BY <1>1, <1>2, OneOff
<1>5. x + k.xb <= Size /\ y + k.yb <= Size
  BY <1>1, <1>2, <1>3, <1>4 DEF RestFits
<1>6. \A t \in {XBlock(x), YBlock(y)} : 0 <= t.from /\ t.to <= Size
  BY <1>1, <1>2, <1>5 DEF XBlock, YBlock
<1> QED
  BY <1>1, <1>2, <1>3, <1>4, <1>6 DEF RestFits

LEMMA LoopOneSafe ==
    ASSUME SafeInv, LoopOneBlock
    PROVE  SafeInv'
<1>1. pc = "loop" /\ RestFits /\ left >= 1
  BY DEF SafeInv, LoopOneBlock
<1>2. /\ \A t \in {XBlock(x), YBlock(y)} : 0 <= t.from /\ t.to <= Size
      /\ x + k.xb \in Nat /\ y + k.yb \in Nat /\ left - 1 \in Nat
      /\ (x + k.xb) + (left - 1) * k.xb <= Size
      /\ (y + k.yb) + (left - 1) * k.yb <= Size
  BY <1>1, OneStep
<1>3. /\ k' = k /\ call' = call /\ combo' = combo /\ x' = x + k.xb /\ y' = y + k.yb
      /\ left' = left - 1 /\ pc' = (IF left' = 0 THEN "reduce" ELSE "loop")
      /\ touched' = {XBlock(x), YBlock(y)}
  BY DEF LoopOneBlock
<1>4. Indices'
  BY <1>2, <1>3 DEF SafeInv, Indices
<1>5. RestFits'
  BY <1>2, <1>3 DEF RestFits
<1>6. InBounds'
  BY <1>2, <1>3 DEF InBounds
<1>7. pc' = "loop" => left' >= 1
  <2>1. left' \in Nat
    BY <1>2, <1>3
  <2>2. left' = 0 => pc' = "reduce"
    BY <1>3
  <2> QED
    BY <2>1, <2>2
<1>8. pc' \in {"reduce", "loop"} /\ Running
  BY <1>1, <1>3 DEF Running
<1>9. Four' = Four /\ FourFit' = FourFit
  BY <1>3 DEF Four, FourFit, nb
<1> QED
  BY <1>3, <1>4, <1>5, <1>6, <1>7, <1>8, <1>9 DEF SafeInv, Running

LEMMA LoopTwoSafe ==
    ASSUME SafeInv, LoopTwoBlocks
    PROVE  SafeInv'
<1>1. pc = "loop" /\ RestFits /\ left >= 2
  BY DEF SafeInv, LoopTwoBlocks
<1>2. k \in Kernels /\ call \in Calls /\ left \in Nat /\ x \in Nat /\ y \in Nat
  BY DEF SafeInv, Indices
<1>3. k.xb \in Nat /\ k.yb \in Nat /\ Size \in Nat
  BY <1>2, Members, SizeAssumption
<1>4. /\ (left - 2) * k.xb = left * k.xb - 2 * k.xb
      /\ left * k.xb \in Nat /\ 2 * k.xb <= left * k.xb
  BY <1>1, <1>2, <1>3, TwoOff
<1>5. /\ (left - 2) * k.yb = left * k.yb - 2 * k.yb
      /\ left * k.yb \in Nat /\ 2 * k.yb <= left * k.yb
  BY <1>1, <1>2, <1>3, TwoOff
<1>6. /\ k' = k /\ call' = call /\ combo' = combo /\ pc' = pc
      /\ x' = x + 2 * k.xb /\ y' = y + 2 * k.yb /\ left' = left - 2
      /\ touched' = {XBlock(x), YBlock(y), XBlock(x + k.xb), YBlock(y + k.yb)}
  BY DEF LoopTwoBlocks
<1>7. x + 2 * k.xb <= Size /\ y + 2 * k.yb <= Size
  BY <1>1, <1>2, <1>3, <1>4, <1>5 DEF RestFits
<1>8. InBounds'
  BY <1>2, <1>3, <1>6, <1>7 DEF InBounds, XBlock, YBlock
<1>9. RestFits'
  <2>1. (x + 2 * k.xb) + (left - 2) * k.xb <= Size
    BY <1>1, <1>2, <1>3, <1>4 DEF RestFits
  <2>2. (y + 2 * k.yb) + (left - 2) * k.yb <= Size
    BY <1>1, <1>2, <1>3, <1>5 DEF RestFits
  <2> QED
    BY <1>6, <2>1, <2>2 DEF RestFits
<1>10. Indices'
  BY <1>1, <1>2, <1>3, <1>6 DEF SafeInv, Indices
<1>11. k'.loop # 1 /\ Four' = Four /\ FourFit' = FourFit
  BY <1>6 DEF LoopTwoBlocks, Four, FourFit, nb
<1> QED
  BY <1>1, <1>6, <1>8, <1>9, <1>10, <1>11 DEF SafeInv, Running

LEMMA LoopTailSafe ==
    ASSUME SafeInv, LoopTail
    PROVE  SafeInv'
<1>1. pc = "loop" /\ RestFits
  BY DEF SafeInv, LoopTail
<1>2. /\ k' = k /\ call' = call /\ left' = left /\ x' = x /\ y' = y /\ combo' = combo
      /\ pc' = "reduce"
  BY DEF LoopTail
<1>3. InBounds'
  <2>1. CASE left = 0
    BY <2>1 DEF LoopTail, InBounds
  <2>2. CASE left # 0
    <3>1. left >= 1
      BY <2>2 DEF SafeInv, Indices
    <3>2. touched' = {XBlock(x), YBlock(y)}
      BY <2>2 DEF LoopTail
    <3> QED
      BY <1>1, <3>1, <3>2, OneStep DEF InBounds
  <2> QED
    BY <2>1, <2>2
<1>4. Indices' /\ Four' = Four /\ FourFit' = FourFit /\ Running
  BY <1>1, <1>2 DEF SafeInv, Indices, Four, FourFit, nb, Running
<1> QED
  BY <1>2, <1>3, <1>4 DEF SafeInv, Running

-----------------------------------------------------------------------------
(* The output of one of the four dots lies in one of the two checked pairs *)
(* of floats.                                                              *)
LEMMA OutputFits ==
    ASSUME SafeInv, Running
    PROVE  0 <= Output /\ Output + 4 <= Size
<1>1. k \in Kernels /\ call \in Calls /\ combo \in Lanes
  BY DEF SafeInv, Indices
<1>2. call.s \in Nat /\ call.bs \in Nat /\ Size \in Nat
  BY <1>1, Members, SizeAssumption
<1>3. CASE ~Four
  <2>1. call.s + 4 <= Size
    BY <1>3 DEF SafeInv
  <2>2. Output = call.s
    BY <1>3 DEF Output, Four
  <2> QED
    BY <1>2, <2>1, <2>2
<1>4. CASE Four
  <2>1. FourFit
    BY <1>4 DEF SafeInv
  <2>2. row(combo) \in {0, 1} /\ column(combo) \in {0, 1}
    BY <1>1, RowColumn
  <2>3. Output = call.s + 4 * row(combo) + 4 * call.bs * column(combo)
    BY <1>4 DEF Output, Four
  <2>4. CASE column(combo) = 0
    <3>1. 4 * call.bs * column(combo) = 0
      BY <1>2, <2>4
    <3>2. Output = call.s + 4 * row(combo)
      BY <1>2, <2>2, <2>3, <3>1
    <3> QED
      BY <1>2, <2>1, <2>2, <3>2 DEF FourFit
  <2>5. CASE column(combo) = 1
    <3>1. 4 * call.bs * column(combo) = 4 * call.bs
      BY <1>2, <2>5
    <3>2. Output = call.s + 4 * row(combo) + 4 * call.bs
      BY <1>2, <2>2, <2>3, <3>1
    <3> QED
      BY <1>2, <2>1, <2>2, <3>2 DEF FourFit
  <2> QED
    BY <2>2, <2>4, <2>5
<1> QED
  BY <1>3, <1>4

LEMMA ReduceSafe ==
    ASSUME SafeInv, reduceStore
    PROVE  SafeInv'
<1>1. pc = "reduce" /\ Running
  BY DEF reduceStore, Running
<1>2. /\ k' = k /\ call' = call /\ left' = left /\ x' = x /\ y' = y
      /\ touched' = {Range4(Output)}
  BY DEF reduceStore
<1>3. InBounds'
  <2>1. 0 <= Output /\ Output + 4 <= Size
    BY <1>1, OutputFits
  <2> QED
    BY <1>2, <2>1 DEF InBounds, Range4
<1>4. Indices'
  <2>1. combo \in Lanes
    BY DEF SafeInv, Indices
  <2>2. combo' \in Lanes
    BY <2>1 DEF reduceStore, Lanes
  <2> QED
    BY <1>2, <2>2 DEF SafeInv, Indices
<1>5. pc' = "done" \/ (pc' = "combo" /\ Four)
  BY DEF reduceStore, Four
<1>6. Four' = Four /\ FourFit' = FourFit
  BY <1>2 DEF Four, FourFit, nb
<1>7. Four => FourFit
  BY <1>1 DEF SafeInv
<1> QED
  BY <1>3, <1>4, <1>5, <1>6, <1>7 DEF SafeInv, Running

LEMMA ComboSafe ==
    ASSUME SafeInv, x64ComboPointers
    PROVE  SafeInv'
<1>1. pc = "combo" /\ Four /\ FourFit
  BY DEF SafeInv, x64ComboPointers, Running
<1>2. k \in Kernels /\ call \in Calls /\ combo \in Lanes
  BY DEF SafeInv, Indices
<1>3. /\ k.xb \in Nat /\ k.yb \in Nat /\ Size \in Nat /\ nb \in Nat
      /\ call.x \in Nat /\ call.y \in Nat /\ call.bx \in Nat /\ call.by \in Nat
  BY <1>2, Members, SizeAssumption, BlocksNat
<1>4. row(combo) \in {0, 1} /\ column(combo) \in {0, 1}
  BY <1>2, RowColumn
<1>5. row(combo) * call.bx \in Nat /\ row(combo) * call.bx <= call.bx
  BY <1>3, <1>4, Stride
<1>6. column(combo) * call.by \in Nat /\ column(combo) * call.by <= call.by
  BY <1>3, <1>4, Stride
<1>7. nb * k.xb \in Nat /\ nb * k.yb \in Nat
  BY <1>3, ProductNat
<1>8. /\ k' = k /\ call' = call /\ combo' = combo /\ left' = nb
      /\ x' = call.x + row(combo) * call.bx /\ y' = call.y + column(combo) * call.by
      /\ pc' = (IF nb = 0 THEN "reduce" ELSE "loop") /\ touched' = {}
  BY DEF x64ComboPointers
<1>9. Indices'
  BY <1>2, <1>3, <1>5, <1>6, <1>8 DEF Indices
<1>10. RestFits'
  <2>1. (call.x + row(combo) * call.bx) + nb * k.xb <= Size
    BY <1>1, <1>3, <1>5, <1>7 DEF FourFit
  <2>2. (call.y + column(combo) * call.by) + nb * k.yb <= Size
    BY <1>1, <1>3, <1>6, <1>7 DEF FourFit
  <2> QED
    BY <1>8, <2>1, <2>2 DEF RestFits
<1>11. pc' \in {"reduce", "loop"} /\ (pc' = "loop" => left' >= 1)
  BY <1>3, <1>8
<1>12. Four' /\ FourFit' /\ InBounds'
  BY <1>1, <1>8 DEF Four, FourFit, nb, InBounds
<1> QED
  BY <1>9, <1>10, <1>11, <1>12 DEF SafeInv, Running

-----------------------------------------------------------------------------
LEMMA TileSafe ==
    ASSUME SafeInv, TileBlock
    PROVE  SafeInv'
<1>1. TileRestFits /\ left >= 1 /\ call.s + 4 * call.bs + 8 <= Size
  BY DEF SafeInv, TileBlock
<1>2. k \in Kernels /\ call \in Calls /\ left \in Nat /\ x \in Nat /\ y \in Nat
  BY DEF SafeInv, Indices
<1>3. /\ k.xb \in Nat /\ k.yb \in Nat /\ Size \in Nat
      /\ call.bx \in Nat /\ call.by \in Nat
  BY <1>2, Members, SizeAssumption
<1>4. /\ (left - 1) * k.xb = left * k.xb - k.xb
      /\ left * k.xb \in Nat /\ k.xb <= left * k.xb
  BY <1>1, <1>2, <1>3, OneOff
<1>5. /\ (left - 1) * k.yb = left * k.yb - k.yb
      /\ left * k.yb \in Nat /\ k.yb <= left * k.yb
  BY <1>1, <1>2, <1>3, OneOff
<1>6. /\ k' = k /\ call' = call /\ combo' = combo /\ x' = x + k.xb /\ y' = y + k.yb
      /\ left' = left - 1 /\ pc' = (IF left' = 0 THEN "tilestore" ELSE "tile")
      /\ touched' = {XBlock(x), XBlock(x + call.bx), YBlock(y), YBlock(y + call.by)}
  BY DEF TileBlock
<1>7. x + call.bx + k.xb <= Size /\ y + call.by + k.yb <= Size
  BY <1>1, <1>2, <1>3, <1>4, <1>5 DEF TileRestFits
<1>8. InBounds'
  BY <1>2, <1>3, <1>6, <1>7 DEF InBounds, XBlock, YBlock
<1>9. TileRestFits'
  <2>1. (x + k.xb) + call.bx + (left - 1) * k.xb <= Size
    BY <1>1, <1>2, <1>3, <1>4 DEF TileRestFits
  <2>2. (y + k.yb) + call.by + (left - 1) * k.yb <= Size
    BY <1>1, <1>2, <1>3, <1>5 DEF TileRestFits
  <2> QED
    BY <1>6, <2>1, <2>2 DEF TileRestFits
<1>10. Indices'
  BY <1>1, <1>2, <1>3, <1>6 DEF SafeInv, Indices
<1>11. pc' \in {"tile", "tilestore"} /\ (pc' = "tile" => left' >= 1)
  BY <1>1, <1>2, <1>6
<1> QED
  BY <1>1, <1>6, <1>8, <1>9, <1>10, <1>11 DEF SafeInv, Running

LEMMA StoreTileSafe ==
    ASSUME SafeInv, storeTileRet
    PROVE  SafeInv'
<1>1. call.s + 4 * call.bs + 8 <= Size
  BY DEF SafeInv, storeTileRet
<1>2. call.s \in Nat /\ call.bs \in Nat /\ Size \in Nat
  BY Members, SizeAssumption DEF SafeInv, Indices
<1>3. /\ touched' = {Range8(call.s), Range8(call.s + 4 * call.bs)} /\ pc' = "done"
      /\ UNCHANGED <<k, call, left, x, y, combo>>
  BY DEF storeTileRet
<1>4. InBounds'
  BY <1>1, <1>2, <1>3 DEF InBounds, Range8
<1>5. Indices'
  BY <1>3 DEF SafeInv, Indices
<1> QED
  BY <1>3, <1>4, <1>5 DEF SafeInv, Running

-----------------------------------------------------------------------------
LEMMA NextSafe == SafeInv /\ [Next]_vars => SafeInv'
<1> SUFFICES ASSUME SafeInv, [Next]_vars PROVE SafeInv'
  OBVIOUS
<1>1. CASE vecDotPrologue
  BY <1>1, OneRowSafe DEF vecDotPrologue, Four
<1>2. CASE x64VecDotPrologue
  BY <1>2, OneRowSafe DEF x64VecDotPrologue, Four
<1>3. CASE vecDotPrologue2
  BY <1>3, Prologue2Safe
<1>4. CASE x64TilePrologue
  BY <1>4, X64TileSafe
<1>5. CASE LoopOneBlock
  BY <1>5, LoopOneSafe
<1>6. CASE LoopTwoBlocks
  BY <1>6, LoopTwoSafe
<1>7. CASE LoopTail
  BY <1>7, LoopTailSafe
<1>8. CASE reduceStore
  BY <1>8, ReduceSafe
<1>9. CASE x64ComboPointers
  BY <1>9, ComboSafe
<1>10. CASE TileBlock
  BY <1>10, TileSafe
<1>11. CASE storeTileRet
  BY <1>11, StoreTileSafe
<1>12. CASE UNCHANGED vars
  BY <1>12 DEF vars, SafeInv, Indices, RestFits, TileRestFits, Four, FourFit, nb,
               Running, InBounds
<1> QED
  BY <1>1, <1>2, <1>3, <1>4, <1>5, <1>6, <1>7, <1>8, <1>9, <1>10, <1>11, <1>12 DEF Next

LEMMA AlwaysSafe == Spec => []SafeInv
  BY InitSafe, NextSafe, PTL DEF Spec

(* No pass of any kernel reads or writes outside linear memory, whatever   *)
(* the call, the block sizes and the memory: the four comparisons of the   *)
(* prologue are enough for every access that follows.                      *)
THEOREM MemorySafe == Spec => []InBounds
<1>1. SafeInv => InBounds
  BY DEF SafeInv
<1> QED
  BY <1>1, AlwaysSafe, PTL

(* A call that traps has written nothing.                                  *)
THEOREM TrapsWriteNothing == Spec => []TrapIsClean
<1>1. SafeInv => TrapIsClean
  BY DEF SafeInv, TrapIsClean
<1> QED
  BY <1>1, AlwaysSafe, PTL

-----------------------------------------------------------------------------
(* A call that traps would have left memory: each comparison that fails is *)
(* one of an end the call needs.                                           *)
LEMMA OneRowDeserved ==
    ASSUME Indices, ~OneRowFits
    PROVE  \E last \in Needed : last > Size
<1>1. k \in Kernels /\ call \in Calls /\ nb \in Nat
  BY BlocksNat DEF Indices
<1>2. /\ call.s \in Nat /\ call.x \in Nat /\ call.y \in Nat /\ Size \in Nat
      /\ nb * k.xb \in Nat /\ nb * k.yb \in Nat
  BY <1>1, Members, SizeAssumption, ProductNat
<1>3. {call.s + 4, call.x + nb * k.xb, call.y + nb * k.yb} \subseteq Needed
  BY DEF Needed
<1>4. \/ call.s + 4 > Size \/ call.x + nb * k.xb > Size \/ call.y + nb * k.yb > Size
  BY <1>2 DEF OneRowFits, Fits
<1> QED
  BY <1>3, <1>4

LEMMA TwoRowsDeserved ==
    ASSUME Indices, call.nrc = 2,
           ~ (/\ Fits(call.s + 8)
              /\ Fits(call.s + 4 * call.bs + 8)
              /\ Fits(call.x + call.bx + nb * k.xb)
              /\ Fits(call.y + call.by + nb * k.yb))
    PROVE  \E last \in Needed : last > Size
<1>1. k \in Kernels /\ call \in Calls /\ nb \in Nat
  BY BlocksNat DEF Indices
<1>2. /\ call.s \in Nat /\ call.bs \in Nat /\ call.x \in Nat /\ call.y \in Nat
      /\ call.bx \in Nat /\ call.by \in Nat /\ Size \in Nat
      /\ nb * k.xb \in Nat /\ nb * k.yb \in Nat
  BY <1>1, Members, SizeAssumption, ProductNat
<1>3. {call.s + 8, call.s + 4 * call.bs + 8, call.x + call.bx + nb * k.xb,
       call.y + call.by + nb * k.yb} \subseteq Needed
  BY DEF Needed
<1>4. \/ call.s + 8 > Size \/ call.s + 4 * call.bs + 8 > Size
      \/ call.x + call.bx + nb * k.xb > Size \/ call.y + call.by + nb * k.yb > Size
  BY <1>2 DEF Fits
<1> QED
  BY <1>3, <1>4

(* Needed is a matter of the kernel and of the call.                       *)
LEMMA NeededStays ==
    ASSUME k' = k, call' = call
    PROVE  Needed' = Needed
  BY DEF Needed, nb

LEMMA OneRowDeserves ==
    ASSUME SafeInv, OneRow
    PROVE  TrapIsDeserved'
<1>1. CASE ~OneRowFits
  <2>1. \E last \in Needed : last > Size
    BY <1>1, OneRowDeserved DEF SafeInv
  <2>2. Needed' = Needed
    BY <1>1, NeededStays DEF OneRow, Trap
  <2> QED
    BY <2>1, <2>2 DEF TrapIsDeserved
<1>2. CASE OneRowFits
  <2>1. pc' \in {"reduce", "loop"}
    BY <1>2 DEF OneRow, Start
  <2> QED
    BY <2>1 DEF TrapIsDeserved
<1> QED
  BY <1>1, <1>2

LEMMA TwoRowsDeserve ==
    ASSUME SafeInv, call.nrc = 2, Trap,
           ~ (/\ Fits(call.s + 8)
              /\ Fits(call.s + 4 * call.bs + 8)
              /\ Fits(call.x + call.bx + nb * k.xb)
              /\ Fits(call.y + call.by + nb * k.yb))
    PROVE  TrapIsDeserved'
<1>1. \E last \in Needed : last > Size
  BY TwoRowsDeserved DEF SafeInv
<1>2. Needed' = Needed
  BY NeededStays DEF Trap
<1> QED
  BY <1>1, <1>2 DEF TrapIsDeserved

LEMMA NextDeserved ==
    ASSUME SafeInv, TrapIsDeserved, [Next]_vars
    PROVE  TrapIsDeserved'
<1>1. CASE vecDotPrologue
  BY <1>1, OneRowDeserves DEF vecDotPrologue
<1>2. CASE x64VecDotPrologue
  BY <1>2, OneRowDeserves DEF x64VecDotPrologue
<1>3. CASE vecDotPrologue2
  <2>1. CASE call.nrc # 2
    BY <1>3, <2>1, OneRowDeserves DEF vecDotPrologue2
  <2>2. CASE call.nrc = 2
    <3> DEFINE fits == /\ Fits(call.s + 4 * call.bs + 8)
                       /\ Fits(call.x + call.bx + nb * k.xb)
                       /\ Fits(call.y + call.by + nb * k.yb)
    <3>1. CASE fits
      <4>1. pc' \in {"tilestore", "tile"}
        BY <1>3, <2>2, <3>1 DEF vecDotPrologue2, Start
      <4> QED
        BY <4>1 DEF TrapIsDeserved
    <3>2. CASE ~fits
      <4>1. Trap
        BY <1>3, <2>2, <3>2 DEF vecDotPrologue2
      <4> QED
        BY <2>2, <3>2, <4>1, TwoRowsDeserve
    <3> QED
      BY <3>1, <3>2
  <2> QED
    BY <2>1, <2>2
<1>4. CASE x64TilePrologue
  <2> DEFINE fits == /\ Fits(call.s + 8)
                     /\ Fits(call.s + 4 * call.bs + 8)
                     /\ Fits(call.x + call.bx + nb * k.xb)
                     /\ Fits(call.y + call.by + nb * k.yb)
  <2>1. CASE fits
    <3>1. pc' = "combo"
      BY <1>4, <2>1 DEF x64TilePrologue, Start
    <3> QED
      BY <3>1 DEF TrapIsDeserved
  <2>2. CASE ~fits
    <3>1. Trap /\ call.nrc = 2
      BY <1>4, <2>2 DEF x64TilePrologue
    <3> QED
      BY <2>2, <3>1, TwoRowsDeserve
  <2> QED
    BY <2>1, <2>2
<1>5. CASE LoopOneBlock \/ LoopTwoBlocks \/ LoopTail
  <2>1. pc' \in {"reduce", "loop"}
    BY <1>5 DEF LoopOneBlock, LoopTwoBlocks, LoopTail
  <2> QED
    BY <2>1 DEF TrapIsDeserved
<1>6. CASE reduceStore \/ x64ComboPointers \/ TileBlock \/ storeTileRet
  <2>1. pc' \in {"combo", "done", "reduce", "loop", "tilestore", "tile"}
    BY <1>6 DEF reduceStore, x64ComboPointers, TileBlock, storeTileRet
  <2> QED
    BY <2>1 DEF TrapIsDeserved
<1>7. CASE UNCHANGED vars
  BY <1>7 DEF vars, TrapIsDeserved, Needed, nb
<1> QED
  BY <1>1, <1>2, <1>3, <1>4, <1>5, <1>6, <1>7 DEF Next

(* The prologue refuses nothing that would have fitted: a call with a      *)
(* block to read that traps needed a byte past the end of memory.          *)
THEOREM TrapsAreDeserved == Spec => []TrapIsDeserved
<1>1. Init => TrapIsDeserved
  BY DEF Init, TrapIsDeserved
<1>2. SafeInv /\ TrapIsDeserved /\ [Next]_vars => TrapIsDeserved'
  BY NextDeserved
<1> QED
  BY <1>1, <1>2, AlwaysSafe, PTL DEF Spec

LEMMA ElementsAppend ==
    ASSUME NEW S, NEW s \in Seq(S), NEW e \in S
    PROVE  /\ Append(s, e) \in Seq(S) /\ Len(Append(s, e)) = Len(s) + 1
           /\ Elements(Append(s, e)) = Elements(s) \cup {e}
<1>1. /\ Append(s, e) \in Seq(S) /\ Len(Append(s, e)) = Len(s) + 1
      /\ \A i \in 1 .. Len(s) : Append(s, e)[i] = s[i]
      /\ Append(s, e)[Len(s) + 1] = e
  OBVIOUS
<1>2. DOMAIN Append(s, e) = 1 .. Len(s) + 1 /\ DOMAIN s = 1 .. Len(s) /\ Len(s) \in Nat
  BY <1>1
<1>3. \A i \in 1 .. Len(s) + 1 : i \in 1 .. Len(s) \/ i = Len(s) + 1
  BY <1>2
<1> QED
  BY <1>1, <1>2, <1>3 DEF Elements

LEMMA ElementsConcat ==
    ASSUME NEW S, NEW s \in Seq(S), NEW t \in Seq(S)
    PROVE  /\ s \o t \in Seq(S) /\ Len(s \o t) = Len(s) + Len(t)
           /\ Elements(s \o t) = Elements(s) \cup Elements(t)
<1>1. /\ s \o t \in Seq(S) /\ Len(s \o t) = Len(s) + Len(t)
      /\ \A i \in 1 .. Len(s) : (s \o t)[i] = s[i]
      /\ \A i \in 1 .. Len(t) : (s \o t)[Len(s) + i] = t[i]
  OBVIOUS
<1>2. /\ DOMAIN (s \o t) = 1 .. Len(s) + Len(t) /\ DOMAIN s = 1 .. Len(s) /\ DOMAIN t = 1 .. Len(t)
      /\ Len(s) \in Nat /\ Len(t) \in Nat
  BY <1>1
<1>3. \A i \in 1 .. Len(s) + Len(t) : i \in 1 .. Len(s) \/ \E m \in 1 .. Len(t) : i = Len(s) + m
  <2> TAKE i \in 1 .. Len(s) + Len(t)
  <2>1. CASE i <= Len(s)
    BY <1>2, <2>1
  <2>2. CASE i > Len(s)
    <3>1. i - Len(s) \in 1 .. Len(t) /\ i = Len(s) + (i - Len(s))
      BY <1>2, <2>2
    <3> QED
      BY <3>1
  <2> QED
    BY <1>2, <2>1, <2>2
<1>4. Elements(s) \cup Elements(t) \subseteq Elements(s \o t)
  <2>1. \A i \in 1 .. Len(s) : i \in 1 .. Len(s) + Len(t)
    BY <1>2
  <2>2. \A i \in 1 .. Len(t) : Len(s) + i \in 1 .. Len(s) + Len(t)
    BY <1>2
  <2> QED
    BY <1>1, <1>2, <2>1, <2>2 DEF Elements
<1>5. Elements(s \o t) \subseteq Elements(s) \cup Elements(t)
  <2> SUFFICES ASSUME NEW e \in Elements(s \o t) PROVE e \in Elements(s) \cup Elements(t)
    OBVIOUS
  <2>1. PICK i \in 1 .. Len(s) + Len(t) : e = (s \o t)[i]
    BY <1>2 DEF Elements
  <2>2. CASE i \in 1 .. Len(s)
    <3>1. e = s[i] /\ i \in DOMAIN s
      BY <1>1, <1>2, <2>1, <2>2
    <3> QED
      BY <3>1, Zenon DEF Elements
  <2>3. CASE \E m \in 1 .. Len(t) : i = Len(s) + m
    <3>1. PICK m \in 1 .. Len(t) : i = Len(s) + m
      BY <2>3
    <3>2. e = t[m] /\ m \in DOMAIN t
      BY <1>1, <1>2, <2>1, <3>1
    <3> QED
      BY <3>2, Zenon DEF Elements
  <2> QED
    BY <1>3, <2>2, <2>3
<1> QED
  BY <1>1, <1>4, <1>5, Zenon

-----------------------------------------------------------------------------
(* Every block once.  The accumulators hold, as sets, the blocks of one    *)
(* pair of rows that lie below the pointers; what has been stored are the  *)
(* whole sums of the pairs before the one that runs.                       *)
Pairs == Nat \X Nat

(* Block i of the rows of pair j.                                          *)
XAt(j, i) == call.x + row(j) * call.bx + i * k.xb
YAt(j, i) == call.y + column(j) * call.by + i * k.yb
Block(j, i) == <<XAt(j, i), YAt(j, i)>>
FirstBlocks(j, n) == {Block(j, i) : i \in 0 .. n - 1}

SumOf(s, j, n) == Elements(s) = FirstBlocks(j, n) /\ Len(s) = n

SumOfTwo(s, t, j, n) ==
    Elements(s) \cup Elements(t) = FirstBlocks(j, n) /\ Len(s) + Len(t) = n

OutputOf(j) == call.s + 4 * row(j) + 4 * call.bs * column(j)

(* The results of the first m pairs of n blocks, and no others.            *)
StoredTo(m, n) ==
    /\ \A w \in stored : \E j \in Lanes : j < m /\ w[1] = OutputOf(j) /\ SumOf(w[2], j, n)
    /\ \A j \in Lanes : j < m => \E w \in stored : w[1] = OutputOf(j)

Results == IF call.nrc = 2 THEN 4 ELSE 1

InTile == pc \in {"tile", "tilestore"}

LoopInv ==
    \A j \in Lanes, n \in Nat : pc = "loop" /\ combo = j /\ n + left = nb =>
        x = XAt(j, n) /\ y = YAt(j, n) /\ SumOfTwo(acc[0], acc[1], j, n)

ReduceInv ==
    \A j \in Lanes, n \in Nat : pc = "reduce" /\ combo = j /\ n = nb =>
        SumOfTwo(acc[0], acc[1], j, n)

TileInv ==
    \A n \in Nat : pc = "tile" /\ n + left = nb =>
        x = XAt(0, n) /\ y = YAt(0, n) /\ \A l \in Lanes : SumOf(acc[l], l, n)

TileStoreInv ==
    \A n \in Nat : pc = "tilestore" /\ n = nb => \A l \in Lanes : SumOf(acc[l], l, n)

StoreInv ==
    \A m \in 0 .. 4, n \in Nat :
        /\ n = nb
        /\ \/ Running /\ m = combo
           \/ pc = "done" /\ m = Results
        => StoredTo(m, n)

(* Two rows are served by a tile, in one pass or four.                     *)
ShapeInv ==
    /\ acc \in [Lanes -> Seq(Pairs)]
    /\ pc \in {"loop", "tile"} => left <= nb
    /\ call.nrc = 2 => k.tile # "none"
    /\ Running /\ ~Four => call.nrc # 2 /\ combo = 0
    /\ pc = "prologue" => acc = Empty /\ combo = 0
    /\ InTile => call.nrc = 2

BlocksInv ==
    ShapeInv /\ LoopInv /\ ReduceInv /\ TileInv /\ TileStoreInv /\ StoreInv

LEMMA OneMore ==
    ASSUME NEW a \in Nat, NEW b \in Nat
    PROVE  (a + 1) * b = a * b + b
  BY SMT

(* The blocks below n and the next one.                                    *)
LEMMA BlocksGrow ==
    ASSUME NEW j \in Lanes, NEW n \in Nat
    PROVE  FirstBlocks(j, n + 1) = FirstBlocks(j, n) \cup {Block(j, n)}
<1>1. \A i : i \in 0 .. (n + 1) - 1 <=> i \in 0 .. n - 1 \/ i = n
  OBVIOUS
<1> QED
  BY <1>1 DEF FirstBlocks

LEMMA NoBlocks ==
    ASSUME NEW j \in Lanes
    PROVE  /\ FirstBlocks(j, 0) = {}
           /\ Elements(<<>>) = {} /\ Len(<<>>) = 0 /\ <<>> \in Seq(Pairs)
<1>1. 0 .. 0 - 1 = {} /\ DOMAIN <<>> = {}
  OBVIOUS
<1>2. FirstBlocks(j, 0) = {}
  BY <1>1 DEF FirstBlocks
<1>3. Elements(<<>>) = {}
  BY <1>1 DEF Elements
<1> QED
  BY <1>2, <1>3

(* One block on, both addresses move by a block.                           *)
LEMMA AddressStep ==
    ASSUME Indices, NEW j \in Lanes, NEW n \in Nat
    PROVE  /\ XAt(j, n) \in Nat /\ YAt(j, n) \in Nat
           /\ XAt(j, n + 1) = XAt(j, n) + k.xb
           /\ YAt(j, n + 1) = YAt(j, n) + k.yb
           /\ XAt(j, 0) = call.x + row(j) * call.bx
           /\ YAt(j, 0) = call.y + column(j) * call.by
<1>1. /\ k.xb \in Nat /\ k.yb \in Nat /\ call.x \in Nat /\ call.y \in Nat
      /\ call.bx \in Nat /\ call.by \in Nat
  BY Members DEF Indices
<1>2. row(j) \in {0, 1} /\ column(j) \in {0, 1}
  BY RowColumn
<1>3. row(j) * call.bx \in Nat /\ column(j) * call.by \in Nat
  BY <1>1, <1>2, Stride
<1>4. n * k.xb \in Nat /\ n * k.yb \in Nat
  BY <1>1, ProductNat
<1>5. (n + 1) * k.xb = n * k.xb + k.xb /\ (n + 1) * k.yb = n * k.yb + k.yb
  BY <1>1, OneMore
<1>6. 0 * k.xb = 0 /\ 0 * k.yb = 0
  BY <1>1
<1>7. XAt(j, n) \in Nat /\ YAt(j, n) \in Nat
  BY <1>1, <1>3, <1>4 DEF XAt, YAt
<1>8. XAt(j, n + 1) = XAt(j, n) + k.xb /\ YAt(j, n + 1) = YAt(j, n) + k.yb
  BY <1>1, <1>3, <1>4, <1>5 DEF XAt, YAt
<1>9. XAt(j, 0) = call.x + row(j) * call.bx /\ YAt(j, 0) = call.y + column(j) * call.by
  BY <1>1, <1>3, <1>6 DEF XAt, YAt
<1> QED
  BY <1>7, <1>8, <1>9

(* What is said of a pair's blocks is a matter of the kernel and the call. *)
LEMMA SameBlocks ==
    ASSUME k' = k, call' = call
    PROVE  /\ nb' = nb /\ Results' = Results /\ (Four' <=> Four)
           /\ \A j, i : XAt(j, i)' = XAt(j, i) /\ YAt(j, i)' = YAt(j, i)
           /\ \A s, j, n : SumOf(s, j, n)' <=> SumOf(s, j, n)
           /\ \A s, t, j, n : SumOfTwo(s, t, j, n)' <=> SumOfTwo(s, t, j, n)
           /\ stored' = stored => \A m, n : StoredTo(m, n)' <=> StoredTo(m, n)
<1>1. \A j, i : XAt(j, i)' = XAt(j, i) /\ YAt(j, i)' = YAt(j, i)
  BY DEF XAt, YAt
<1>2. \A j, n : FirstBlocks(j, n)' = FirstBlocks(j, n)
  BY <1>1 DEF FirstBlocks, Block
<1>3. \A s, j, n : SumOf(s, j, n)' <=> SumOf(s, j, n)
  BY <1>2 DEF SumOf
<1>4. \A s, t, j, n : SumOfTwo(s, t, j, n)' <=> SumOfTwo(s, t, j, n)
  BY <1>2 DEF SumOfTwo
<1>5. \A j : OutputOf(j)' = OutputOf(j)
  BY DEF OutputOf
<1>6. stored' = stored => \A m, n : StoredTo(m, n)' <=> StoredTo(m, n)
  BY <1>3, <1>5 DEF StoredTo
<1>7. nb' = nb /\ Results' = Results /\ (Four' <=> Four)
  BY DEF nb, Results, Four
<1> QED
  BY <1>1, <1>3, <1>4, <1>6, <1>7

LEMMA NothingStored ==
    ASSUME stored = {}, NEW n
    PROVE  StoredTo(0, n)
  BY DEF StoredTo, Lanes

-----------------------------------------------------------------------------
LEMMA InitBlocks == Init => BlocksInv
<1> SUFFICES ASSUME Init PROVE BlocksInv
  OBVIOUS
<1>1. pc = "prologue" /\ acc = Empty /\ combo = 0 /\ (call.nrc = 2 => k.tile # "none")
  BY DEF Init
<1>2. acc \in [Lanes -> Seq(Pairs)]
  BY <1>1, NoBlocks DEF Empty
<1> QED
  BY <1>1, <1>2 DEF BlocksInv, ShapeInv, LoopInv, ReduceInv, TileInv, TileStoreInv, StoreInv,
                    Running, InTile

LEMMA TrapBlocks ==
    ASSUME BlocksInv, Trap
    PROVE  BlocksInv'
<1>1. pc' = "trap" /\ acc' = acc /\ k' = k /\ call' = call
  BY DEF Trap
<1>2. ShapeInv'
  BY <1>1 DEF BlocksInv, ShapeInv, Running, InTile
<1> QED
  BY <1>1, <1>2 DEF BlocksInv, LoopInv, ReduceInv, TileInv, TileStoreInv, StoreInv, Running

(* What is known when the pointers are first set.                          *)
LEMMA Begun ==
    ASSUME SafeInv, BlocksInv, pc = "prologue", NEW where, Start(where)
    PROVE  /\ k' = k /\ call' = call /\ nb' = nb /\ nb \in Nat /\ left' = nb
           /\ x' = call.x /\ y' = call.y /\ pc' = where
           /\ acc = Empty /\ acc' = Empty /\ combo' = 0 /\ stored' = {} /\ stored = {}
           /\ XAt(0, 0) = call.x /\ YAt(0, 0) = call.y
<1>1. /\ k' = k /\ call' = call /\ left' = nb /\ x' = call.x /\ y' = call.y
      /\ pc' = where /\ combo' = combo /\ stored' = stored /\ acc' = acc
  BY DEF Start
<1>2. stored = {} /\ acc = Empty /\ combo = 0
  BY DEF SafeInv, BlocksInv, ShapeInv
<1>3. nb \in Nat /\ call.bx \in Nat /\ call.by \in Nat /\ call.x \in Nat /\ call.y \in Nat
  BY BlocksNat, Members DEF SafeInv, Indices
<1>4. 0 \in Lanes /\ row(0) = 0 /\ column(0) = 0
  BY DEF Lanes, row, column
<1>5. XAt(0, 0) = call.x + row(0) * call.bx /\ YAt(0, 0) = call.y + column(0) * call.by
  BY <1>4, AddressStep DEF SafeInv
<1>6. XAt(0, 0) = call.x /\ YAt(0, 0) = call.y
  BY <1>3, <1>4, <1>5
<1>7. nb' = nb
  BY <1>1, SameBlocks
<1> QED
  BY <1>1, <1>2, <1>3, <1>6, <1>7

LEMMA OneRowBlocks ==
    ASSUME SafeInv, BlocksInv, pc = "prologue", OneRow, ~Four, call.nrc # 2
    PROVE  BlocksInv'
<1>1. CASE ~OneRowFits
  BY <1>1, TrapBlocks DEF OneRow
<1>2. CASE OneRowFits
  <2> DEFINE where == IF nb = 0 THEN "reduce" ELSE "loop"
  <2>1. Start(where)
    BY <1>2 DEF OneRow
  <2>2. /\ k' = k /\ call' = call /\ nb' = nb /\ nb \in Nat /\ left' = nb
        /\ x' = call.x /\ y' = call.y /\ pc' = where
        /\ acc' = Empty /\ combo' = 0 /\ stored' = {}
        /\ XAt(0, 0) = call.x /\ YAt(0, 0) = call.y
    BY <2>1, Begun
  <2>3. pc' \in {"reduce", "loop"} /\ (pc' = "reduce" => nb = 0)
    BY <2>2
  <2> HIDE DEF where
  <2>4. 0 \in Lanes /\ 1 \in Lanes
    BY DEF Lanes
  <2>5. acc'[0] = <<>> /\ acc'[1] = <<>> /\ acc' \in [Lanes -> Seq(Pairs)]
    BY <2>2, <2>4, NoBlocks DEF Empty
  <2>6. SumOfTwo(acc'[0], acc'[1], 0, 0)
    BY <2>4, <2>5, NoBlocks DEF SumOfTwo
  <2>7. SumOfTwo(acc[0], acc[1], 0, 0)'
    BY <2>2, <2>6, SameBlocks
  <2>8. ShapeInv'
    BY <2>2, <2>3, <2>5 DEF BlocksInv, ShapeInv, Running, InTile
  <2>9. LoopInv'
    <3> SUFFICES ASSUME NEW j \in Lanes, NEW n \in Nat, combo' = j, n + left' = nb'
                 PROVE  x' = XAt(j, n)' /\ y' = YAt(j, n)' /\ SumOfTwo(acc[0], acc[1], j, n)'
      BY DEF LoopInv
    <3>1. j = 0 /\ n = 0
      BY <2>2
    <3>2. XAt(0, 0)' = call.x /\ YAt(0, 0)' = call.y
      BY <2>2, SameBlocks
    <3> QED
      BY <2>2, <2>7, <3>1, <3>2
  <2>10. ReduceInv'
    <3> SUFFICES ASSUME NEW j \in Lanes, NEW n \in Nat, pc' = "reduce", combo' = j, n = nb'
                 PROVE  SumOfTwo(acc[0], acc[1], j, n)'
      BY DEF ReduceInv
    <3>1. j = 0 /\ n = 0
      BY <2>2, <2>3
    <3> QED
      BY <2>7, <3>1
  <2>11. StoreInv'
    <3> SUFFICES ASSUME NEW m \in 0 .. 4, NEW n \in Nat, m = 0 PROVE StoredTo(m, n)'
      BY <2>2, <2>3 DEF StoreInv
    <3>1. \A w \in stored' : FALSE
      BY <2>2
    <3>2. \A j \in Lanes : ~ (j < 0)
      BY DEF Lanes
    <3> QED
      BY <3>1, <3>2 DEF StoredTo
  <2> QED
    BY <2>3, <2>8, <2>9, <2>10, <2>11 DEF BlocksInv, TileInv, TileStoreInv
<1> QED
  BY <1>1, <1>2

LEMMA Prologue2Blocks ==
    ASSUME SafeInv, BlocksInv, vecDotPrologue2
    PROVE  BlocksInv'
<1>1. pc = "prologue" /\ k.arch = "arm64"
  BY DEF vecDotPrologue2
<1>2. ~Four
  BY <1>1 DEF Four
<1>3. CASE call.nrc # 2
  BY <1>1, <1>2, <1>3, OneRowBlocks DEF vecDotPrologue2
<1>4. CASE call.nrc = 2
  <2> DEFINE fits == /\ Fits(call.s + 4 * call.bs + 8)
                     /\ Fits(call.x + call.bx + nb * k.xb)
                     /\ Fits(call.y + call.by + nb * k.yb)
             where == IF nb = 0 THEN "tilestore" ELSE "tile"
  <2>1. CASE ~fits
    <3>1. Trap
      BY <1>4, <2>1 DEF vecDotPrologue2
    <3> QED
      BY <3>1, TrapBlocks
  <2>2. CASE fits
    <3>1. Start(where)
      BY <1>4, <2>2 DEF vecDotPrologue2
    <3>2. /\ k' = k /\ call' = call /\ nb' = nb /\ nb \in Nat /\ left' = nb
          /\ x' = call.x /\ y' = call.y /\ pc' = where
          /\ acc' = Empty /\ XAt(0, 0) = call.x /\ YAt(0, 0) = call.y
      BY <1>1, <3>1, Begun
    <3>3. pc' \in {"tile", "tilestore"} /\ (pc' = "tilestore" => nb = 0)
      BY <3>2
    <3> HIDE DEF where, fits
    <3>4. acc' \in [Lanes -> Seq(Pairs)] /\ \A l \in Lanes : acc'[l] = <<>>
      BY <3>2, NoBlocks DEF Empty
    <3>5. \A l \in Lanes : SumOf(acc'[l], l, 0)
      BY <3>4, NoBlocks DEF SumOf
    <3>6. \A l \in Lanes : SumOf(acc[l], l, 0)'
      <4> TAKE l \in Lanes
      <4>1. SumOf(acc'[l], l, 0)
        BY <3>5
      <4> QED
        BY <3>2, <4>1, SameBlocks
    <3>7. ShapeInv'
      BY <1>4, <3>2, <3>3, <3>4 DEF BlocksInv, ShapeInv, Running, InTile
    <3>8. TileInv'
      <4> SUFFICES ASSUME NEW n \in Nat, n + left' = nb'
                   PROVE  x' = XAt(0, n)' /\ y' = YAt(0, n)' /\ \A l \in Lanes : SumOf(acc[l], l, n)'
        BY DEF TileInv
      <4>1. n = 0
        BY <3>2
      <4>2. XAt(0, 0)' = call.x /\ YAt(0, 0)' = call.y
        BY <3>2, SameBlocks
      <4> QED
        BY <3>2, <3>6, <4>1, <4>2
    <3>9. TileStoreInv'
      <4> SUFFICES ASSUME NEW n \in Nat, pc' = "tilestore", n = nb'
                   PROVE  \A l \in Lanes : SumOf(acc[l], l, n)'
        BY DEF TileStoreInv
      <4> QED
        BY <3>2, <3>3, <3>6
    <3> QED
      BY <3>3, <3>7, <3>8, <3>9 DEF BlocksInv, LoopInv, ReduceInv, StoreInv, Running
  <2> QED
    BY <2>1, <2>2
<1> QED
  BY <1>3, <1>4

LEMMA X64TileBlocks ==
    ASSUME SafeInv, BlocksInv, x64TilePrologue
    PROVE  BlocksInv'
<1>1. pc = "prologue" /\ Four
  BY DEF x64TilePrologue, Four
<1>2. Trap \/ Start("combo")
  BY DEF x64TilePrologue
<1>3. CASE Trap
  BY <1>3, TrapBlocks
<1>4. CASE Start("combo")
  <2>1. /\ k' = k /\ call' = call /\ nb' = nb /\ pc' = "combo"
        /\ acc' = acc /\ combo' = 0 /\ stored' = {}
    BY <1>1, <1>4, Begun
  <2>2. Four'
    BY <1>1, <2>1, SameBlocks
  <2>3. ShapeInv'
    BY <2>1, <2>2 DEF BlocksInv, ShapeInv, Running, InTile
  <2>4. StoreInv'
    <3> SUFFICES ASSUME NEW m \in 0 .. 4, NEW n \in Nat, m = 0 PROVE StoredTo(m, n)'
      BY <2>1 DEF StoreInv
    <3>1. \A w \in stored' : FALSE
      BY <2>1
    <3>2. \A j \in Lanes : ~ (j < 0)
      BY DEF Lanes
    <3> QED
      BY <3>1, <3>2 DEF StoredTo
  <2> QED
    BY <2>1, <2>3, <2>4 DEF BlocksInv, LoopInv, ReduceInv, TileInv, TileStoreInv
<1> QED
  BY <1>2, <1>3, <1>4

-----------------------------------------------------------------------------
(* One accumulator takes the next block.                                   *)
LEMMA OneAdded ==
    ASSUME NEW s \in Seq(Pairs), NEW t \in Seq(Pairs), NEW j \in Lanes, NEW n \in Nat,
           SumOfTwo(s, t, j, n), Block(j, n) \in Pairs
    PROVE  SumOfTwo(Append(s, Block(j, n)), t, j, n + 1)
<1>1. /\ Len(Append(s, Block(j, n))) = Len(s) + 1
      /\ Elements(Append(s, Block(j, n))) = Elements(s) \cup {Block(j, n)}
  BY ElementsAppend
<1>2. FirstBlocks(j, n + 1) = FirstBlocks(j, n) \cup {Block(j, n)}
  BY BlocksGrow
<1>3. Len(s) \in Nat /\ Len(t) \in Nat
  OBVIOUS
<1>4. Elements(s) \cup Elements(t) = FirstBlocks(j, n) /\ Len(s) + Len(t) = n
  BY DEF SumOfTwo
<1>5. Elements(Append(s, Block(j, n))) \cup Elements(t) = FirstBlocks(j, n + 1)
  BY <1>1, <1>2, <1>4, Zenon
<1>6. Len(Append(s, Block(j, n))) + Len(t) = n + 1
  BY <1>1, <1>3, <1>4
<1> QED
  BY <1>5, <1>6 DEF SumOfTwo

(* The other one does.                                                     *)
LEMMA OtherAdded ==
    ASSUME NEW s \in Seq(Pairs), NEW t \in Seq(Pairs), NEW j \in Lanes, NEW n \in Nat,
           SumOfTwo(s, t, j, n), Block(j, n) \in Pairs
    PROVE  SumOfTwo(s, Append(t, Block(j, n)), j, n + 1)
<1>1. SumOfTwo(t, s, j, n)
  <2>1. Len(s) \in Nat /\ Len(t) \in Nat
    OBVIOUS
  <2> QED
    BY <2>1 DEF SumOfTwo
<1>2. SumOfTwo(Append(t, Block(j, n)), s, j, n + 1)
  BY <1>1, OneAdded
<1>3. Append(t, Block(j, n)) \in Seq(Pairs)
  OBVIOUS
<1>4. Len(s) \in Nat /\ Len(Append(t, Block(j, n))) \in Nat
  BY <1>3
<1> QED
  BY <1>2, <1>4 DEF SumOfTwo

(* In the loop: the count of the blocks taken, and what is known of them.  *)
LEMMA InLoop ==
    ASSUME SafeInv, BlocksInv, pc = "loop"
    PROVE  /\ combo \in Lanes /\ nb \in Nat /\ left \in 0 .. nb
           /\ nb - left \in Nat
           /\ x = XAt(combo, nb - left) /\ y = YAt(combo, nb - left)
           /\ <<x, y>> = Block(combo, nb - left) /\ Block(combo, nb - left) \in Pairs
           /\ SumOfTwo(acc[0], acc[1], combo, nb - left)
           /\ acc \in [Lanes -> Seq(Pairs)] /\ 0 \in Lanes /\ 1 \in Lanes
           /\ acc[0] \in Seq(Pairs) /\ acc[1] \in Seq(Pairs)
<1>1. combo \in Lanes /\ nb \in Nat /\ left \in Nat /\ x \in Nat /\ y \in Nat
  BY BlocksNat DEF SafeInv, Indices
<1>2. left <= nb /\ acc \in [Lanes -> Seq(Pairs)]
  BY DEF BlocksInv, ShapeInv
<1>3. nb - left \in Nat /\ (nb - left) + left = nb
  BY <1>1, <1>2
<1>4. /\ x = XAt(combo, nb - left) /\ y = YAt(combo, nb - left)
      /\ SumOfTwo(acc[0], acc[1], combo, nb - left)
  BY <1>1, <1>3 DEF BlocksInv, LoopInv
<1>5. <<x, y>> = Block(combo, nb - left) /\ <<x, y>> \in Pairs
  BY <1>1, <1>4 DEF Block, Pairs
<1>6. 0 \in Lanes /\ 1 \in Lanes /\ left \in 0 .. nb
  BY <1>1, <1>2 DEF Lanes
<1>7. acc[0] \in Seq(Pairs) /\ acc[1] \in Seq(Pairs)
  BY <1>2, <1>6
<1> QED
  BY <1>1, <1>2, <1>3, <1>4, <1>5, <1>6, <1>7, Zenon

(* Neither the count of results nor the tile is the loop's concern.        *)
LEMMA LoopKeeps ==
    ASSUME BlocksInv, pc = "loop", k' = k, call' = call, combo' = combo, stored' = stored,
           pc' \in {"loop", "reduce"}
    PROVE  /\ StoreInv' /\ TileInv' /\ TileStoreInv'
           /\ Running' /\ ~InTile' /\ pc' # "prologue"
           /\ call'.nrc = 2 => k'.tile # "none"
           /\ ~Four' => call'.nrc # 2 /\ combo' = 0
<1>1. /\ nb' = nb /\ (Four' <=> Four)
      /\ \A m, n : StoredTo(m, n)' <=> StoredTo(m, n)
  BY SameBlocks
<1>2. Running /\ Running'
  BY DEF Running
<1>3. StoreInv'
  <2> SUFFICES ASSUME NEW m \in 0 .. 4, NEW n \in Nat, n = nb', m = combo'
               PROVE  StoredTo(m, n)'
    BY DEF StoreInv
  <2>1. n = nb /\ m = combo
    BY <1>1
  <2>2. StoredTo(m, n)
    BY <1>2, <2>1 DEF BlocksInv, StoreInv
  <2> QED
    BY <1>1, <2>2, Zenon
<1>4. TileInv' /\ TileStoreInv' /\ ~InTile'
  BY DEF TileInv, TileStoreInv, InTile
<1>5. (call'.nrc = 2 => k'.tile # "none") /\ (~Four' => call'.nrc # 2 /\ combo' = 0)
  BY <1>1, <1>2 DEF BlocksInv, ShapeInv
<1> QED
  BY <1>2, <1>3, <1>4, <1>5

(* What a pass of the loop has to show: n blocks of pair j are in.         *)
LEMMA LoopGoesOn ==
    ASSUME SafeInv, BlocksInv, pc = "loop", k' = k, call' = call, combo' = combo,
           stored' = stored, pc' \in {"loop", "reduce"}, acc' \in [Lanes -> Seq(Pairs)],
           NEW n \in Nat, SumOfTwo(acc'[0], acc'[1], combo, n),
           pc' = "loop" => left' \in Nat /\ n + left' = nb /\ x' = XAt(combo, n) /\ y' = YAt(combo, n),
           pc' = "reduce" => n = nb
    PROVE  BlocksInv'
<1>1. nb \in Nat
  BY InLoop
<1>2. /\ StoreInv' /\ TileInv' /\ TileStoreInv'
      /\ Running' /\ ~InTile' /\ pc' # "prologue"
      /\ call'.nrc = 2 => k'.tile # "none"
      /\ ~Four' => call'.nrc # 2 /\ combo' = 0
  BY LoopKeeps
<1>3. nb' = nb
  BY SameBlocks
<1>5. ShapeInv'
  <2>1. pc' \in {"loop", "tile"} => left' <= nb'
    BY <1>1, <1>3
  <2> QED
    BY <1>2, <2>1 DEF ShapeInv
<1>6. LoopInv'
  <2> SUFFICES ASSUME NEW j \in Lanes, NEW i \in Nat, pc' = "loop", combo' = j, i + left' = nb'
               PROVE  x' = XAt(j, i)' /\ y' = YAt(j, i)' /\ SumOfTwo(acc[0], acc[1], j, i)'
    BY DEF LoopInv
  <2>1. i = n /\ j = combo
    BY <1>1, <1>3
  <2>2. XAt(j, n)' = XAt(j, n) /\ YAt(j, n)' = YAt(j, n)
    BY SameBlocks
  <2>3. SumOfTwo(acc'[0], acc'[1], j, n)
    BY <2>1
  <2>4. SumOfTwo(acc[0], acc[1], j, n)'
    BY <2>3, SameBlocks
  <2> QED
    BY <2>1, <2>2, <2>4
<1>7. ReduceInv'
  <2> SUFFICES ASSUME NEW j \in Lanes, NEW i \in Nat, pc' = "reduce", combo' = j, i = nb'
               PROVE  SumOfTwo(acc[0], acc[1], j, i)'
    BY DEF ReduceInv
  <2>1. i = n /\ j = combo
    BY <1>3
  <2>2. SumOfTwo(acc'[0], acc'[1], j, i)
    BY <2>1
  <2> QED
    BY <2>2, SameBlocks
<1> QED
  BY <1>2, <1>5, <1>6, <1>7 DEF BlocksInv

LEMMA LoopOneBlocks ==
    ASSUME SafeInv, BlocksInv, LoopOneBlock
    PROVE  BlocksInv'
<1> DEFINE j == combo
           n == nb - left
<1>1. pc = "loop" /\ left >= 1
  BY DEF SafeInv, LoopOneBlock
<1>2. /\ j \in Lanes /\ nb \in Nat /\ left \in 0 .. nb /\ n \in Nat
      /\ x = XAt(j, n) /\ y = YAt(j, n)
      /\ <<x, y>> = Block(j, n) /\ Block(j, n) \in Pairs
      /\ SumOfTwo(acc[0], acc[1], j, n)
      /\ acc \in [Lanes -> Seq(Pairs)] /\ 0 \in Lanes /\ 1 \in Lanes
      /\ acc[0] \in Seq(Pairs) /\ acc[1] \in Seq(Pairs)
  BY <1>1, InLoop
<1>3. /\ k' = k /\ call' = call /\ combo' = combo /\ stored' = stored
      /\ x' = x + k.xb /\ y' = y + k.yb /\ left' = left - 1
      /\ pc' = (IF left' = 0 THEN "reduce" ELSE "loop")
      /\ acc' = [acc EXCEPT ![0] = Append(@, <<x, y>>)]
  BY DEF LoopOneBlock
<1> HIDE DEF j, n
<1>4. acc' = [acc EXCEPT ![0] = Append(@, Block(j, n))]
  BY <1>2, <1>3
<1>5. Append(acc[0], Block(j, n)) \in Seq(Pairs)
  BY <1>2
<1>6. /\ acc'[0] = Append(acc[0], Block(j, n)) /\ acc'[1] = acc[1]
      /\ acc' \in [Lanes -> Seq(Pairs)]
  BY <1>2, <1>4, <1>5
<1>7. SumOfTwo(acc'[0], acc'[1], j, n + 1)
  BY <1>2, <1>6, OneAdded
<1>8. XAt(j, n + 1) = x + k.xb /\ YAt(j, n + 1) = y + k.yb
  BY <1>2, AddressStep DEF SafeInv
<1>9. left' \in Nat /\ n + 1 \in Nat /\ (n + 1) + left' = nb
  BY <1>1, <1>2, <1>3 DEF n
<1>10. pc' \in {"loop", "reduce"} /\ (pc' = "reduce" => left' = 0)
  BY <1>3
<1>11. pc' = "reduce" => n + 1 = nb
  BY <1>2, <1>9, <1>10
<1> QED
  BY <1>1, <1>3, <1>6, <1>7, <1>8, <1>9, <1>10, <1>11, LoopGoesOn DEF j

LEMMA LoopTwoBlocksIn ==
    ASSUME SafeInv, BlocksInv, LoopTwoBlocks
    PROVE  BlocksInv'
<1> DEFINE j == combo
           n == nb - left
<1>1. pc = "loop" /\ left >= 2
  BY DEF LoopTwoBlocks
<1>2. /\ j \in Lanes /\ nb \in Nat /\ left \in 0 .. nb /\ n \in Nat
      /\ x = XAt(j, n) /\ y = YAt(j, n)
      /\ <<x, y>> = Block(j, n) /\ Block(j, n) \in Pairs
      /\ SumOfTwo(acc[0], acc[1], j, n)
      /\ acc \in [Lanes -> Seq(Pairs)] /\ 0 \in Lanes /\ 1 \in Lanes
      /\ acc[0] \in Seq(Pairs) /\ acc[1] \in Seq(Pairs)
  BY <1>1, InLoop
<1>3. /\ k' = k /\ call' = call /\ combo' = combo /\ stored' = stored /\ pc' = pc
      /\ x' = x + 2 * k.xb /\ y' = y + 2 * k.yb /\ left' = left - 2
      /\ acc' = [acc EXCEPT ![0] = Append(@, <<x, y>>),
                            ![1] = Append(@, <<x + k.xb, y + k.yb>>)]
  BY DEF LoopTwoBlocks
<1> HIDE DEF j, n
<1>4. k.xb \in Nat /\ k.yb \in Nat /\ x \in Nat /\ y \in Nat
  BY Members DEF SafeInv, Indices
<1>5. XAt(j, n + 1) = x + k.xb /\ YAt(j, n + 1) = y + k.yb
  BY <1>2, AddressStep DEF SafeInv
<1>6. <<x + k.xb, y + k.yb>> = Block(j, n + 1) /\ Block(j, n + 1) \in Pairs
  BY <1>4, <1>5 DEF Block, Pairs
<1>7. XAt(j, n + 2) = x + 2 * k.xb /\ YAt(j, n + 2) = y + 2 * k.yb
  <2>1. n + 1 \in Nat /\ (n + 1) + 1 = n + 2
    BY <1>2
  <2>2. XAt(j, (n + 1) + 1) = XAt(j, n + 1) + k.xb /\ YAt(j, (n + 1) + 1) = YAt(j, n + 1) + k.yb
    BY <1>2, <2>1, AddressStep DEF SafeInv
  <2>3. XAt(j, n + 2) = x + k.xb + k.xb /\ YAt(j, n + 2) = y + k.yb + k.yb
    BY <1>5, <2>1, <2>2
  <2> QED
    BY <1>4, <2>3
<1>8. acc' = [acc EXCEPT ![0] = Append(acc[0], Block(j, n)), ![1] = Append(acc[1], Block(j, n + 1))]
  BY <1>2, <1>3, <1>6
<1>9. /\ Append(acc[0], Block(j, n)) \in Seq(Pairs)
      /\ Append(acc[1], Block(j, n + 1)) \in Seq(Pairs)
  BY <1>2, <1>6
<1>10. /\ acc'[0] = Append(acc[0], Block(j, n)) /\ acc'[1] = Append(acc[1], Block(j, n + 1))
       /\ acc' \in [Lanes -> Seq(Pairs)]
  <2> DEFINE a == Append(acc[0], Block(j, n))
             b == Append(acc[1], Block(j, n + 1))
  <2>1. a \in Seq(Pairs) /\ b \in Seq(Pairs) /\ acc' = [acc EXCEPT ![0] = a, ![1] = b]
    BY <1>8, <1>9
  <2> HIDE DEF a, b
  <2>2. acc'[0] = a /\ acc'[1] = b /\ acc' \in [Lanes -> Seq(Pairs)]
    <3> DEFINE h == [acc EXCEPT ![0] = a]
    <3>1. h \in [Lanes -> Seq(Pairs)] /\ h[0] = a
      BY <1>2, <2>1
    <3>2. acc' = [h EXCEPT ![1] = b]
      BY <2>1
    <3> HIDE DEF h
    <3>3. 0 \in Lanes /\ 1 \in Lanes /\ 0 # 1 /\ b \in Seq(Pairs)
      BY <2>1 DEF Lanes
    <3>4. acc' \in [Lanes -> Seq(Pairs)]
      BY <3>1, <3>2, <3>3
    <3>5. acc'[1] = b
      BY <3>1, <3>2, <3>3
    <3>6. acc'[0] = a
      BY <3>1, <3>2, <3>3
    <3> QED
      BY <3>4, <3>5, <3>6
  <2> QED
    BY <2>2 DEF a, b
<1>11. n + 1 \in Nat /\ n + 2 \in Nat /\ (n + 1) + 1 = n + 2
  BY <1>2
<1>12. SumOfTwo(acc'[0], acc[1], j, n + 1)
  BY <1>2, <1>10, OneAdded
<1>13. SumOfTwo(acc'[0], acc'[1], j, n + 2)
  <2>1. SumOfTwo(acc'[0], Append(acc[1], Block(j, n + 1)), j, (n + 1) + 1)
    BY <1>2, <1>6, <1>9, <1>10, <1>11, <1>12, OtherAdded
  <2> QED
    BY <1>10, <1>11, <2>1
<1>14. left' \in Nat /\ (n + 2) + left' = nb
  BY <1>1, <1>2, <1>3 DEF n
<1> QED
  BY <1>1, <1>3, <1>7, <1>10, <1>11, <1>13, <1>14, LoopGoesOn DEF j

LEMMA LoopTailBlocks ==
    ASSUME SafeInv, BlocksInv, LoopTail
    PROVE  BlocksInv'
<1> DEFINE j == combo
           n == nb - left
<1>1. pc = "loop" /\ left < 2
  BY DEF LoopTail
<1>2. /\ j \in Lanes /\ nb \in Nat /\ left \in 0 .. nb /\ n \in Nat
      /\ <<x, y>> = Block(j, n) /\ Block(j, n) \in Pairs
      /\ SumOfTwo(acc[0], acc[1], j, n)
      /\ acc \in [Lanes -> Seq(Pairs)] /\ 0 \in Lanes /\ 1 \in Lanes
      /\ acc[0] \in Seq(Pairs) /\ acc[1] \in Seq(Pairs)
  BY <1>1, InLoop
<1>3. /\ k' = k /\ call' = call /\ combo' = combo /\ stored' = stored /\ pc' = "reduce"
  BY DEF LoopTail
<1> HIDE DEF j, n
<1>4. CASE left = 0
  <2>1. acc' = acc
    BY <1>4 DEF LoopTail
  <2>2. n = nb
    BY <1>2, <1>4 DEF n
  <2> QED
    BY <1>1, <1>2, <1>3, <2>1, <2>2, LoopGoesOn DEF j
<1>5. CASE left # 0
  <2>1. acc' = [acc EXCEPT ![0] = Append(@, <<x, y>>)]
    BY <1>5 DEF LoopTail
  <2>2. acc' = [acc EXCEPT ![0] = Append(@, Block(j, n))]
    BY <1>2, <2>1
  <2>3. Append(acc[0], Block(j, n)) \in Seq(Pairs)
    BY <1>2
  <2>4. /\ acc'[0] = Append(acc[0], Block(j, n)) /\ acc'[1] = acc[1]
        /\ acc' \in [Lanes -> Seq(Pairs)]
    BY <1>2, <2>2, <2>3
  <2>5. SumOfTwo(acc'[0], acc'[1], j, n + 1)
    BY <1>2, <2>4, OneAdded
  <2>6. n + 1 \in Nat /\ n + 1 = nb
    BY <1>1, <1>2, <1>5 DEF n
  <2> QED
    BY <1>1, <1>3, <2>4, <2>5, <2>6, LoopGoesOn DEF j
<1> QED
  BY <1>4, <1>5

-----------------------------------------------------------------------------
(* The sum of both accumulators is stored as the result of the pair that   *)
(* ran.                                                                    *)
LEMMA OutputIs ==
    ASSUME SafeInv, BlocksInv, pc = "reduce"
    PROVE  Output = OutputOf(combo)
<1>1. call.s \in Nat /\ call.bs \in Nat
  BY Members DEF SafeInv, Indices
<1>2. CASE Four
  BY <1>2 DEF Output, OutputOf, Four
<1>3. CASE ~Four
  <2>1. combo = 0
    BY <1>3 DEF BlocksInv, ShapeInv, Running
  <2>2. row(0) = 0 /\ column(0) = 0
    BY DEF row, column
  <2>3. OutputOf(0) = call.s + 4 * 0 + 4 * call.bs * 0
    BY <2>2 DEF OutputOf
  <2>4. OutputOf(0) = call.s
    BY <1>1, <2>3
  <2>5. Output = call.s
    BY <1>3 DEF Output, Four
  <2> QED
    BY <2>1, <2>4, <2>5
<1> QED
  BY <1>2, <1>3

LEMMA ConcatSum ==
    ASSUME NEW s \in Seq(Pairs), NEW t \in Seq(Pairs), NEW j \in Lanes, NEW n \in Nat,
           SumOfTwo(s, t, j, n)
    PROVE  SumOf(s \o t, j, n)
<1>1. Len(s \o t) = Len(s) + Len(t) /\ Elements(s \o t) = Elements(s) \cup Elements(t)
  BY ElementsConcat
<1> QED
  BY <1>1 DEF SumOf, SumOfTwo

LEMMA ReduceBlocks ==
    ASSUME SafeInv, BlocksInv, reduceStore
    PROVE  BlocksInv'
<1> DEFINE j == combo
           n == nb
           w0 == <<OutputOf(j), acc[0] \o acc[1]>>
<1>1. pc = "reduce" /\ Running
  BY DEF reduceStore, Running
<1>2. j \in Lanes /\ n \in Nat
  BY BlocksNat DEF SafeInv, Indices
<1>3. /\ acc \in [Lanes -> Seq(Pairs)] /\ acc[0] \in Seq(Pairs) /\ acc[1] \in Seq(Pairs)
      /\ call.nrc = 2 => k.tile # "none"
      /\ ~Four => call.nrc # 2 /\ j = 0
  BY <1>1 DEF BlocksInv, ShapeInv, Lanes
<1>4. /\ k' = k /\ call' = call /\ acc' = acc
      /\ stored' = stored \cup {<<Output, acc[0] \o acc[1]>>}
  BY DEF reduceStore
<1>5. /\ nb' = nb /\ Results' = Results /\ (Four' <=> Four)
      /\ \A i : OutputOf(i)' = OutputOf(i)
      /\ \A s, i, m : SumOf(s, i, m)' <=> SumOf(s, i, m)
  BY <1>4, SameBlocks DEF OutputOf
<1>6. SumOfTwo(acc[0], acc[1], j, n)
  BY <1>1, <1>2 DEF BlocksInv, ReduceInv
<1>7. StoredTo(j, n)
  <2>1. j \in 0 .. 4
    BY <1>2 DEF Lanes
  <2> QED
    BY <1>1, <1>2, <2>1 DEF BlocksInv, StoreInv
<1>8. SumOf(acc[0] \o acc[1], j, n)
  BY <1>2, <1>3, <1>6, ConcatSum
<1>9. stored' = stored \cup {w0}
  BY <1>1, <1>4, OutputIs
<1>10. w0[1] = OutputOf(j) /\ w0[2] = acc[0] \o acc[1]
  OBVIOUS
<1> HIDE DEF j, n, w0
<1>11. \A w \in stored' : \E i \in Lanes :
            i < j + 1 /\ w[1] = OutputOf(i) /\ SumOf(w[2], i, n)
  <2> TAKE w \in stored'
  <2>1. CASE w = w0
    <3>1. j < j + 1
      BY <1>2 DEF Lanes
    <3>2. w[1] = OutputOf(j) /\ SumOf(w[2], j, n)
      BY <1>8, <1>10, <2>1
    <3> QED
      BY <1>2, <3>1, <3>2
  <2>2. CASE w \in stored
    <3>1. PICK i \in Lanes : i < j /\ w[1] = OutputOf(i) /\ SumOf(w[2], i, n)
      BY <1>7, <2>2 DEF StoredTo
    <3>2. i < j + 1
      BY <1>2, <3>1 DEF Lanes
    <3> QED
      BY <3>1, <3>2
  <2> QED
    BY <1>9, <2>1, <2>2
<1>12. \A i \in Lanes : i < j + 1 => \E w \in stored' : w[1] = OutputOf(i)
  <2> SUFFICES ASSUME NEW i \in Lanes, i < j + 1 PROVE \E w \in stored' : w[1] = OutputOf(i)
    OBVIOUS
  <2>1. i < j \/ i = j
    BY <1>2 DEF Lanes
  <2>2. CASE i = j
    BY <1>9, <1>10, <2>2
  <2>3. CASE i < j
    BY <1>7, <1>9, <2>3 DEF StoredTo
  <2> QED
    BY <2>1, <2>2, <2>3
<1>13. ASSUME NEW m, m = j + 1 PROVE StoredTo(m, n)'
  <2>1. n' = n
    BY <1>5 DEF n
  <2>2. \A w \in stored' : \E i \in Lanes : i < m /\ w[1] = OutputOf(i)' /\ SumOf(w[2], i, n)'
    BY <1>5, <1>11, <1>13, <2>1
  <2>3. \A i \in Lanes : i < m => \E w \in stored' : w[1] = OutputOf(i)'
    BY <1>5, <1>12, <1>13
  <2> QED
    BY <2>2, <2>3 DEF StoredTo
<1>14. \/ pc' = "combo" /\ combo' = j + 1 /\ Four
       \/ pc' = "done" /\ j + 1 = Results
  <2>1. CASE Four /\ j < 3
    BY <2>1 DEF reduceStore, Four, j
  <2>2. CASE Four /\ ~ (j < 3)
    <3>1. pc' = "done" /\ call.nrc = 2
      BY <2>2 DEF reduceStore, Four, j
    <3>2. j = 3
      BY <1>2, <2>2 DEF Lanes
    <3> QED
      BY <3>1, <3>2 DEF Results
  <2>3. CASE ~Four
    <3>1. pc' = "done"
      BY <2>3 DEF reduceStore, Four
    <3> QED
      BY <1>3, <2>3, <3>1 DEF Results
  <2> QED
    BY <2>1, <2>2, <2>3
<1>15. StoreInv'
  <2> SUFFICES ASSUME NEW m \in 0 .. 4, NEW i \in Nat, i = nb', m = j + 1
               PROVE  StoredTo(m, i)'
    BY <1>5, <1>14 DEF StoreInv, Running
  <2>1. i = n /\ i' = n'
    BY <1>5 DEF n
  <2>2. StoredTo(m, n)'
    BY <1>13
  <2> QED
    BY <2>1, <2>2
<1>16. ShapeInv'
  BY <1>3, <1>4, <1>5, <1>14 DEF ShapeInv, Running, InTile
<1>17. pc' \in {"combo", "done"}
  BY <1>14
<1> QED
  BY <1>15, <1>16, <1>17 DEF BlocksInv, LoopInv, ReduceInv, TileInv, TileStoreInv

(* Each of the four dots starts over from the frame.                       *)
LEMMA ComboBlocks ==
    ASSUME SafeInv, BlocksInv, x64ComboPointers
    PROVE  BlocksInv'
<1>1. PICK j \in Lanes : j = combo
  BY DEF SafeInv, Indices
<1>2. pc = "combo" /\ Running /\ Four
  BY DEF SafeInv, x64ComboPointers, Running
<1>3. /\ k' = k /\ call' = call /\ combo' = combo /\ stored' = stored /\ left' = nb
      /\ x' = call.x + row(j) * call.bx /\ y' = call.y + column(j) * call.by
      /\ acc' = Empty /\ pc' = (IF nb = 0 THEN "reduce" ELSE "loop")
  BY <1>1 DEF x64ComboPointers
<1>4. nb \in Nat /\ XAt(j, 0) = x' /\ YAt(j, 0) = y'
  BY <1>3, BlocksNat, AddressStep DEF SafeInv, Indices
<1>5. /\ nb' = nb /\ Four' /\ (call'.nrc = 2 => k'.tile # "none")
      /\ XAt(j, 0)' = x' /\ YAt(j, 0)' = y'
      /\ \A m, n : StoredTo(m, n)' <=> StoredTo(m, n)
  BY <1>2, <1>3, <1>4, SameBlocks DEF BlocksInv, ShapeInv
<1>6. pc' \in {"reduce", "loop"} /\ (pc' = "reduce" => nb = 0)
  BY <1>3
<1>7. acc' \in [Lanes -> Seq(Pairs)] /\ acc'[0] = <<>> /\ acc'[1] = <<>>
  BY <1>1, <1>3, NoBlocks DEF Empty, Lanes
<1>8. SumOfTwo(acc'[0], acc'[1], j, 0)
  BY <1>7, NoBlocks DEF SumOfTwo
<1>9. SumOfTwo(acc[0], acc[1], j, 0)'
  BY <1>3, <1>8, SameBlocks
<1>10. ShapeInv'
  BY <1>3, <1>4, <1>5, <1>6, <1>7 DEF ShapeInv, Running, InTile
<1>11. LoopInv'
  <2> SUFFICES ASSUME NEW i \in Lanes, NEW n \in Nat, combo' = i, n + left' = nb'
               PROVE  x' = XAt(i, n)' /\ y' = YAt(i, n)' /\ SumOfTwo(acc[0], acc[1], i, n)'
    BY DEF LoopInv
  <2>1. i = j /\ n = 0
    BY <1>1, <1>3, <1>4, <1>5
  <2> QED
    BY <1>5, <1>9, <2>1
<1>12. ReduceInv'
  <2> SUFFICES ASSUME NEW i \in Lanes, NEW n \in Nat, pc' = "reduce", combo' = i, n = nb'
               PROVE  SumOfTwo(acc[0], acc[1], i, n)'
    BY DEF ReduceInv
  <2>1. i = j /\ n = 0
    BY <1>1, <1>3, <1>5, <1>6
  <2> QED
    BY <1>9, <2>1
<1>13. StoreInv'
  <2> SUFFICES ASSUME NEW m \in 0 .. 4, NEW n \in Nat, n = nb', m = combo'
               PROVE  StoredTo(m, n)'
    BY <1>6 DEF StoreInv
  <2>1. n = nb /\ m = combo
    BY <1>3, <1>5
  <2>2. StoredTo(m, n)
    BY <1>2, <2>1 DEF BlocksInv, StoreInv
  <2> QED
    BY <1>5, <2>2, Zenon
<1> QED
  BY <1>6, <1>10, <1>11, <1>12, <1>13 DEF BlocksInv, TileInv, TileStoreInv

-----------------------------------------------------------------------------
(* The tile: every lane takes the block of its own row and column.         *)
LEMMA LaneAdded ==
    ASSUME NEW s \in Seq(Pairs), NEW l \in Lanes, NEW n \in Nat,
           SumOf(s, l, n), Block(l, n) \in Pairs
    PROVE  SumOf(Append(s, Block(l, n)), l, n + 1)
<1>1. /\ Len(Append(s, Block(l, n))) = Len(s) + 1
      /\ Elements(Append(s, Block(l, n))) = Elements(s) \cup {Block(l, n)}
  BY ElementsAppend
<1>2. FirstBlocks(l, n + 1) = FirstBlocks(l, n) \cup {Block(l, n)}
  BY BlocksGrow
<1> QED
  BY <1>1, <1>2 DEF SumOf

(* Block n of pair l lies at the strides of l from block n of pair 0.      *)
LEMMA LaneBlock ==
    ASSUME Indices, NEW l \in Lanes, NEW n \in Nat
    PROVE  /\ Block(l, n) = <<XAt(0, n) + row(l) * call.bx, YAt(0, n) + column(l) * call.by>>
           /\ Block(l, n) \in Pairs
<1>1. /\ k.xb \in Nat /\ k.yb \in Nat /\ call.x \in Nat /\ call.y \in Nat
      /\ call.bx \in Nat /\ call.by \in Nat
  BY Members DEF Indices
<1>2. row(l) \in {0, 1} /\ column(l) \in {0, 1} /\ row(0) = 0 /\ column(0) = 0
  BY RowColumn DEF row, column
<1>3. row(l) * call.bx \in Nat /\ column(l) * call.by \in Nat
  BY <1>1, <1>2, Stride
<1>4. n * k.xb \in Nat /\ n * k.yb \in Nat
  BY <1>1, ProductNat
<1>5. 0 * call.bx = 0 /\ 0 * call.by = 0
  BY <1>1
<1>6. XAt(0, n) = call.x + n * k.xb /\ YAt(0, n) = call.y + n * k.yb
  BY <1>1, <1>2, <1>4, <1>5 DEF XAt, YAt
<1>7. /\ XAt(l, n) = XAt(0, n) + row(l) * call.bx
      /\ YAt(l, n) = YAt(0, n) + column(l) * call.by
  BY <1>1, <1>3, <1>4, <1>6 DEF XAt, YAt
<1>8. XAt(l, n) \in Nat /\ YAt(l, n) \in Nat
  BY AddressStep
<1> QED
  BY <1>7, <1>8 DEF Block, Pairs

LEMMA TileBlocks ==
    ASSUME SafeInv, BlocksInv, TileBlock
    PROVE  BlocksInv'
<1>1. pc = "tile" /\ left >= 1 /\ Indices
  BY DEF SafeInv, TileBlock
<1>2. nb \in Nat /\ left \in Nat /\ left <= nb
  BY <1>1, BlocksNat DEF Indices, BlocksInv, ShapeInv
<1>3. PICK n \in Nat : n + left = nb
  <2>1. nb - left \in Nat /\ (nb - left) + left = nb
    BY <1>2
  <2> QED
    BY <2>1
<1>4. x = XAt(0, n) /\ y = YAt(0, n) /\ \A l \in Lanes : SumOf(acc[l], l, n)
  BY <1>1, <1>3 DEF BlocksInv, TileInv
<1>5. acc \in [Lanes -> Seq(Pairs)] /\ call.nrc = 2 /\ k.tile # "none"
  BY <1>1 DEF BlocksInv, ShapeInv, InTile
<1>6. /\ k' = k /\ call' = call
      /\ x' = x + k.xb /\ y' = y + k.yb /\ left' = left - 1
      /\ pc' = (IF left' = 0 THEN "tilestore" ELSE "tile")
      /\ acc' = [l \in Lanes |-> Append(acc[l], <<x + row(l) * call.bx,
                                                  y + column(l) * call.by>>)]
  BY DEF TileBlock
<1>7. \A l \in Lanes : /\ acc'[l] = Append(acc[l], Block(l, n))
                       /\ acc'[l] \in Seq(Pairs)
                       /\ SumOf(acc'[l], l, n + 1)
  <2> TAKE l \in Lanes
  <2>1. acc[l] \in Seq(Pairs) /\ SumOf(acc[l], l, n)
    BY <1>4, <1>5
  <2>2. Block(l, n) = <<x + row(l) * call.bx, y + column(l) * call.by>> /\ Block(l, n) \in Pairs
    BY <1>1, <1>4, LaneBlock
  <2>3. acc'[l] = Append(acc[l], Block(l, n))
    BY <1>6, <2>2
  <2>4. Append(acc[l], Block(l, n)) \in Seq(Pairs)
    BY <2>1, <2>2
  <2>5. SumOf(Append(acc[l], Block(l, n)), l, n + 1)
    BY <2>1, <2>2, LaneAdded
  <2> QED
    BY <2>3, <2>4, <2>5
<1>8. nb' = nb /\ \A s, l, m : SumOf(s, l, m)' <=> SumOf(s, l, m)
  BY <1>6, SameBlocks
<1>9. n + 1 \in Nat /\ left' \in Nat /\ (n + 1) + left' = nb
  BY <1>1, <1>2, <1>3, <1>6
<1>10. pc' \in {"tile", "tilestore"} /\ (pc' = "tilestore" => left' = 0)
  BY <1>6
<1>11. acc' \in [Lanes -> Seq(Pairs)]
  BY <1>6, <1>7
<1>12. ShapeInv'
  BY <1>2, <1>5, <1>6, <1>8, <1>9, <1>10, <1>11 DEF ShapeInv, Running, InTile
<1>13. TileInv'
  <2> SUFFICES ASSUME NEW i \in Nat, i + left' = nb'
               PROVE  x' = XAt(0, i)' /\ y' = YAt(0, i)' /\ \A l \in Lanes : SumOf(acc[l], l, i)'
    BY DEF TileInv
  <2>1. i = n + 1
    BY <1>8, <1>9
  <2>2. XAt(0, n + 1) = x' /\ YAt(0, n + 1) = y'
    <3>1. 0 \in Lanes
      BY DEF Lanes
    <3>2. XAt(0, n + 1) = XAt(0, n) + k.xb /\ YAt(0, n + 1) = YAt(0, n) + k.yb
      BY <1>1, <3>1, AddressStep
    <3> QED
      BY <1>4, <1>6, <3>2
  <2>3. XAt(0, i)' = x' /\ YAt(0, i)' = y'
    BY <1>6, <2>1, <2>2, SameBlocks
  <2>4. \A l \in Lanes : SumOf(acc'[l], l, i)
    BY <1>7, <2>1
  <2>5. \A l \in Lanes : SumOf(acc[l], l, i)'
    BY <1>8, <2>4
  <2> QED
    BY <2>3, <2>5
<1>14. TileStoreInv'
  <2> SUFFICES ASSUME NEW i \in Nat, pc' = "tilestore", i = nb'
               PROVE  \A l \in Lanes : SumOf(acc[l], l, i)'
    BY DEF TileStoreInv
  <2>1. i = n + 1
    BY <1>8, <1>9, <1>10
  <2>2. \A l \in Lanes : SumOf(acc'[l], l, i)
    BY <1>7, <2>1
  <2> QED
    BY <1>8, <2>2
<1> QED
  BY <1>10, <1>12, <1>13, <1>14 DEF BlocksInv, LoopInv, ReduceInv, StoreInv, Running

LEMMA TileOutputs ==
    ASSUME Indices
    PROVE  /\ OutputOf(0) = call.s /\ OutputOf(1) = call.s + 4
           /\ OutputOf(2) = call.s + 4 * call.bs /\ OutputOf(3) = call.s + 4 * call.bs + 4
<1>1. call.s \in Nat /\ call.bs \in Nat
  BY Members DEF Indices
<1>2. /\ row(0) = 0 /\ column(0) = 0 /\ row(1) = 1 /\ column(1) = 0
      /\ row(2) = 0 /\ column(2) = 1 /\ row(3) = 1 /\ column(3) = 1
  BY DEF row, column
<1>3. 4 * call.bs * 0 = 0 /\ 4 * call.bs * 1 = 4 * call.bs /\ 4 * call.bs \in Nat
  BY <1>1
<1> QED
  BY <1>1, <1>2, <1>3 DEF OutputOf

LEMMA StoreTileBlocks ==
    ASSUME SafeInv, BlocksInv, storeTileRet
    PROVE  BlocksInv'
<1>1. pc = "tilestore" /\ Indices
  BY DEF SafeInv, storeTileRet
<1>2. nb \in Nat
  BY <1>1, BlocksNat DEF Indices
<1>3. acc \in [Lanes -> Seq(Pairs)] /\ call.nrc = 2 /\ k.tile # "none"
  BY <1>1 DEF BlocksInv, ShapeInv, InTile
<1>4. \A l \in Lanes : SumOf(acc[l], l, nb)
  BY <1>1, <1>2 DEF BlocksInv, TileStoreInv
<1>5. /\ k' = k /\ call' = call /\ acc' = acc /\ pc' = "done"
      /\ stored' = {<<call.s, acc[0]>>, <<call.s + 4, acc[1]>>,
                    <<call.s + 4 * call.bs, acc[2]>>, <<call.s + 4 * call.bs + 4, acc[3]>>}
  BY DEF storeTileRet
<1>6. stored' = {<<OutputOf(0), acc[0]>>, <<OutputOf(1), acc[1]>>,
                 <<OutputOf(2), acc[2]>>, <<OutputOf(3), acc[3]>>}
  BY <1>1, <1>5, TileOutputs
<1>7. \A l : l \in Lanes <=> l = 0 \/ l = 1 \/ l = 2 \/ l = 3
  BY DEF Lanes
<1>8. \A l \in Lanes : <<OutputOf(l), acc[l]>> \in stored'
  BY <1>6, <1>7
<1>9. \A w \in stored' : \E l \in Lanes : w = <<OutputOf(l), acc[l]>>
  BY <1>6, <1>7
<1>10. /\ nb' = nb /\ Results' = Results
       /\ \A s, l, m : SumOf(s, l, m)' <=> SumOf(s, l, m)
       /\ \A l : OutputOf(l)' = OutputOf(l)
  BY <1>5, SameBlocks DEF OutputOf
<1>11. PICK n \in Nat : n = nb
  BY <1>2
<1>12. StoredTo(4, n)'
  <2>1. \A w \in stored' : \E l \in Lanes :
            l < 4 /\ w[1] = OutputOf(l)' /\ SumOf(w[2], l, n)'
    <3> TAKE w \in stored'
    <3>1. PICK l \in Lanes : w = <<OutputOf(l), acc[l]>>
      BY <1>9
    <3>2. l < 4 /\ w[1] = OutputOf(l) /\ w[2] = acc[l]
      BY <1>7, <3>1
    <3>3. SumOf(w[2], l, n)
      BY <1>4, <1>11, <3>2
    <3> QED
      BY <1>10, <3>2, <3>3
  <2>2. \A l \in Lanes : l < 4 => \E w \in stored' : w[1] = OutputOf(l)'
    <3> TAKE l \in Lanes
    <3>1. <<OutputOf(l), acc[l]>> \in stored' /\ <<OutputOf(l), acc[l]>>[1] = OutputOf(l)
      BY <1>8
    <3> QED
      BY <1>10, <3>1
  <2> QED
    BY <2>1, <2>2 DEF StoredTo
<1>13. StoreInv'
  <2> SUFFICES ASSUME NEW m \in 0 .. 4, NEW i \in Nat, i = nb', m = Results'
               PROVE  StoredTo(m, i)'
    BY <1>5 DEF StoreInv, Running
  <2>1. m = 4 /\ i = n
    BY <1>3, <1>10, <1>11 DEF Results
  <2> QED
    BY <1>12, <2>1
<1>14. ShapeInv'
  BY <1>3, <1>5 DEF ShapeInv, Running, InTile
<1> QED
  BY <1>5, <1>13, <1>14 DEF BlocksInv, LoopInv, ReduceInv, TileInv, TileStoreInv

-----------------------------------------------------------------------------
LEMMA StutterBlocks ==
    ASSUME BlocksInv, UNCHANGED vars
    PROVE  BlocksInv'
<1>1. /\ k' = k /\ call' = call /\ pc' = pc /\ left' = left /\ x' = x /\ y' = y
      /\ combo' = combo /\ acc' = acc /\ stored' = stored
  BY DEF vars
<1>2. /\ nb' = nb /\ Results' = Results /\ (Four' <=> Four)
      /\ \A j, i : XAt(j, i)' = XAt(j, i) /\ YAt(j, i)' = YAt(j, i)
      /\ \A s, j, n : SumOf(s, j, n)' <=> SumOf(s, j, n)
      /\ \A s, t, j, n : SumOfTwo(s, t, j, n)' <=> SumOfTwo(s, t, j, n)
      /\ \A m, n : StoredTo(m, n)' <=> StoredTo(m, n)
  BY <1>1, SameBlocks
<1>3. ShapeInv'
  BY <1>1, <1>2 DEF BlocksInv, ShapeInv, Running, InTile
<1>4. LoopInv' /\ ReduceInv'
  BY <1>1, <1>2 DEF BlocksInv, LoopInv, ReduceInv
<1>5. TileInv' /\ TileStoreInv'
  BY <1>1, <1>2 DEF BlocksInv, TileInv, TileStoreInv
<1>6. StoreInv'
  BY <1>1, <1>2 DEF BlocksInv, StoreInv, Running
<1> QED
  BY <1>3, <1>4, <1>5, <1>6 DEF BlocksInv

LEMMA NextBlocks ==
    ASSUME SafeInv, BlocksInv, [Next]_vars
    PROVE  BlocksInv'
<1>1. CASE vecDotPrologue
  <2>1. pc = "prologue" /\ OneRow /\ ~Four /\ call.nrc # 2
    BY <1>1 DEF vecDotPrologue, Four, BlocksInv, ShapeInv
  <2> QED
    BY <2>1, OneRowBlocks
<1>2. CASE x64VecDotPrologue
  BY <1>2, OneRowBlocks DEF x64VecDotPrologue, Four
<1>3. CASE vecDotPrologue2
  BY <1>3, Prologue2Blocks
<1>4. CASE x64TilePrologue
  BY <1>4, X64TileBlocks
<1>5. CASE LoopOneBlock
  BY <1>5, LoopOneBlocks
<1>6. CASE LoopTwoBlocks
  BY <1>6, LoopTwoBlocksIn
<1>7. CASE LoopTail
  BY <1>7, LoopTailBlocks
<1>8. CASE reduceStore
  BY <1>8, ReduceBlocks
<1>9. CASE x64ComboPointers
  BY <1>9, ComboBlocks
<1>10. CASE TileBlock
  BY <1>10, TileBlocks
<1>11. CASE storeTileRet
  BY <1>11, StoreTileBlocks
<1>12. CASE UNCHANGED vars
  BY <1>12, StutterBlocks
<1> QED
  BY <1>1, <1>2, <1>3, <1>4, <1>5, <1>6, <1>7, <1>8, <1>9, <1>10, <1>11, <1>12 DEF Next

(* No two of the results a call asks for are one float: of two rows of     *)
(* results the second begins past both results of the first, as in every   *)
(* matrix of two rows or more (bs = 16 floats in the tests).               *)
OutputsApart == \A c \in Calls : c.nrc = 2 => c.bs >= 2

LEMMA ApartOutputs ==
    ASSUME Indices, OutputsApart, call.nrc = 2, NEW i \in Lanes, NEW j \in Lanes,
           OutputOf(i) = OutputOf(j)
    PROVE  i = j
<1>1. call.s \in Nat /\ call.bs \in Nat /\ call.bs >= 2
  BY Members DEF Indices, OutputsApart
<1>2. /\ OutputOf(0) = call.s /\ OutputOf(1) = call.s + 4
      /\ OutputOf(2) = call.s + 4 * call.bs /\ OutputOf(3) = call.s + 4 * call.bs + 4
  BY TileOutputs
<1>3. \A l : l \in Lanes <=> l = 0 \/ l = 1 \/ l = 2 \/ l = 3
  BY DEF Lanes
<1>4. i = 0 => j = 0
  BY <1>1, <1>2, <1>3
<1>5. i = 1 => j = 1
  BY <1>1, <1>2, <1>3
<1>6. i = 2 => j = 2
  BY <1>1, <1>2, <1>3
<1>7. i = 3 => j = 3
  BY <1>1, <1>2, <1>3
<1> QED
  BY <1>3, <1>4, <1>5, <1>6, <1>7

(* The pairs of rows a call asks for, as VecDot names them, and as lanes.  *)
LEMMA OutputsAre ==
    ASSUME Indices
    PROVE  /\ \A o \in Outputs : \E j \in Lanes :
                  j < Results /\ o = <<row(j), column(j)>>
           /\ \A j \in Lanes : j < Results => <<row(j), column(j)>> \in Outputs
           /\ \A j \in Lanes : /\ OutputAt(<<row(j), column(j)>>) = OutputOf(j)
                               /\ BlocksOf(<<row(j), column(j)>>) = FirstBlocks(j, nb)
<1>1. /\ row(0) = 0 /\ column(0) = 0 /\ row(1) = 1 /\ column(1) = 0
      /\ row(2) = 0 /\ column(2) = 1 /\ row(3) = 1 /\ column(3) = 1
  BY DEF row, column
<1>2. \A l : l \in Lanes <=> l = 0 \/ l = 1 \/ l = 2 \/ l = 3
  BY DEF Lanes
<1>3. CASE call.nrc = 2
  <2>1. Results = 4 /\ Outputs = {0, 1} \X {0, 1}
    BY <1>3 DEF Results, Outputs
  <2>2. \A o \in Outputs : o = <<0, 0>> \/ o = <<1, 0>> \/ o = <<0, 1>> \/ o = <<1, 1>>
    BY <2>1
  <2>3. \A o \in Outputs : \E j \in Lanes : j < Results /\ o = <<row(j), column(j)>>
    <3>1. 0 < Results /\ 1 < Results /\ 2 < Results /\ 3 < Results
      BY <2>1
    <3> QED
      BY <1>1, <1>2, <2>2, <3>1
  <2>4. \A j \in Lanes : <<row(j), column(j)>> \in Outputs
    BY <2>1, RowColumn
  <2> QED
    BY <2>3, <2>4 DEF OutputAt, OutputOf, BlocksOf, FirstBlocks, Block, XAt, YAt
<1>4. CASE call.nrc # 2
  <2>1. Results = 1 /\ Outputs = {<<0, 0>>}
    BY <1>4 DEF Results, Outputs
  <2>2. \A o \in Outputs : \E j \in Lanes : j < Results /\ o = <<row(j), column(j)>>
    BY <1>1, <1>2, <2>1
  <2>3. \A j \in Lanes : j < Results => <<row(j), column(j)>> \in Outputs
    BY <1>1, <1>2, <2>1
  <2> QED
    BY <2>2, <2>3 DEF OutputAt, OutputOf, BlocksOf, FirstBlocks, Block, XAt, YAt
<1> QED
  BY <1>3, <1>4

LEMMA DoneHasAll ==
    ASSUME SafeInv, BlocksInv, OutputsApart
    PROVE  EveryBlockOnce
<1> SUFFICES ASSUME pc = "done"
             PROVE  /\ {w[1] : w \in stored} = {OutputAt(o) : o \in Outputs}
                    /\ \A o \in Outputs : \A w \in stored :
                          w[1] = OutputAt(o) => Elements(w[2]) = BlocksOf(o) /\ Len(w[2]) = nb
  BY DEF EveryBlockOnce
<1>1. Indices /\ nb \in Nat
  BY BlocksNat DEF SafeInv, Indices
<1>2. StoredTo(Results, nb)
  BY <1>1 DEF BlocksInv, StoreInv, Results
<1>3. \A w \in stored : \E j \in Lanes :
          j < Results /\ w[1] = OutputOf(j) /\ SumOf(w[2], j, nb)
  BY <1>2 DEF StoredTo
<1>4. \A j \in Lanes : j < Results => \E w \in stored : w[1] = OutputOf(j)
  BY <1>2 DEF StoredTo
<1>5. /\ \A o \in Outputs : \E j \in Lanes : j < Results /\ o = <<row(j), column(j)>>
      /\ \A j \in Lanes : j < Results => <<row(j), column(j)>> \in Outputs
      /\ \A j \in Lanes : /\ OutputAt(<<row(j), column(j)>>) = OutputOf(j)
                          /\ BlocksOf(<<row(j), column(j)>>) = FirstBlocks(j, nb)
  BY <1>1, OutputsAre
<1>6. \A w \in stored : \E o \in Outputs : w[1] = OutputAt(o)
  <2> TAKE w \in stored
  <2>1. PICK j \in Lanes : j < Results /\ w[1] = OutputOf(j)
    BY <1>3
  <2>2. <<row(j), column(j)>> \in Outputs /\ w[1] = OutputAt(<<row(j), column(j)>>)
    BY <1>5, <2>1
  <2> QED
    BY <2>2
<1>7. \A o \in Outputs : \E w \in stored : w[1] = OutputAt(o)
  <2> TAKE o \in Outputs
  <2>1. PICK j \in Lanes : j < Results /\ o = <<row(j), column(j)>>
    BY <1>5
  <2>2. OutputAt(o) = OutputOf(j)
    BY <1>5, <2>1
  <2> QED
    BY <1>4, <2>1, <2>2
<1>8. {w[1] : w \in stored} = {OutputAt(o) : o \in Outputs}
  BY <1>6, <1>7
<1>9. ASSUME NEW o \in Outputs, NEW w \in stored, w[1] = OutputAt(o)
      PROVE  Elements(w[2]) = BlocksOf(o) /\ Len(w[2]) = nb
  <2>1. PICK j \in Lanes : j < Results /\ o = <<row(j), column(j)>>
    BY <1>5
  <2>2. OutputAt(o) = OutputOf(j) /\ BlocksOf(o) = FirstBlocks(j, nb)
    BY <1>5, <2>1
  <2>3. PICK i \in Lanes : i < Results /\ w[1] = OutputOf(i) /\ SumOf(w[2], i, nb)
    BY <1>3
  <2>4. i = j
    <3>1. CASE call.nrc = 2
      BY <1>1, <1>9, <2>2, <2>3, <3>1, ApartOutputs
    <3>2. CASE call.nrc # 2
      BY <2>1, <2>3, <3>2 DEF Results, Lanes
    <3> QED
      BY <3>1, <3>2
  <2> QED
    BY <2>2, <2>3, <2>4 DEF SumOf
<1> QED
  BY <1>8, <1>9

(* Every kernel adds every block of every row it is asked for, each once   *)
(* and with its own partner, in any number of blocks: the loops of one and *)
(* of two blocks a pass, the four dots of a tile and the one-pass tile.    *)
THEOREM SumsAreComplete == OutputsApart => (Spec => []EveryBlockOnce)
<1>1. SafeInv /\ BlocksInv /\ [Next]_vars => BlocksInv'
  BY NextBlocks
<1>2. Spec => []BlocksInv
  BY <1>1, InitBlocks, AlwaysSafe, PTL DEF Spec
<1> SUFFICES ASSUME OutputsApart PROVE Spec => []EveryBlockOnce
  OBVIOUS
<1>3. SafeInv /\ BlocksInv => EveryBlockOnce
  BY DoneHasAll
<1> QED
  BY <1>2, <1>3, AlwaysSafe, PTL
=============================================================================
