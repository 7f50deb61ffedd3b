------------------------------- MODULE VecDot -------------------------------
(***************************************************************************)
(* The control of a row dot: the prologue that checks the pointers against *)
(* the size of linear memory, the loop over the blocks, the 2x2 tile and   *)
(* the stores.  What one pass computes from a block is module Quants.      *)
(*                                                                         *)
(* A dot writes the sum over the blocks of a row as one float; here the    *)
(* sum is the sequence of the blocks' addresses that were added, so a      *)
(* block that is skipped, repeated or paired with another is seen.         *)
(***************************************************************************)
EXTENDS Integers, Sequences

CONSTANTS Kernels,   \* the kernels, as records: see KernelsAssumption
          Calls,     \* the argument frames they are called with
          Size       \* bytes of linear memory (R21, R15)

(* loop: blocks a pass of the loop consumes; tile: how nrc = 2 is served:  *)
(* not at all, in one pass of four accumulators, or as four single dots.   *)
(* per, xb, yb: quants and bytes of a block.  bs is in floats, bx and by   *)
(* in bytes.                                                               *)
ASSUME KernelsAssumption ==
    Kernels \subseteq [arch : {"arm64", "amd64"}, loop : 1 .. 2,
                       tile : {"none", "tile", "four"},
                       per : Nat \ {0}, xb : Nat, yb : Nat]

ASSUME SizeAssumption == Size \in Nat

(* The addresses and strides are far below 2^64: no sum of them wraps.     *)
ASSUME CallsAssumption ==
    Calls \subseteq [n : Nat, s : Nat, bs : Nat, x : Nat, bx : Nat,
                     y : Nat, by : Nat, nrc : 1 .. 2]

VARIABLES k,       \* the kernel
          call,    \* its arguments
          pc,      \* where it is
          left,    \* blocks left (R1, CX)
          x, y,    \* the row pointers (R3 and R4, SI and DX)
          combo,   \* which of the four single dots of a tile runs
          acc,     \* the accumulators
          touched, \* the ranges the last step accessed
          stored   \* the floats written, with their addresses

vars == <<k, call, pc, left, x, y, combo, acc, touched, stored>>

Lanes == 0 .. 3
Empty == [l \in Lanes |-> <<>>]

nb == call.n \div k.per

Init == /\ k \in Kernels
        /\ call \in Calls
        /\ call.nrc = 2 => k.tile # "none"
        /\ pc = "prologue"
        /\ left = 0 /\ x = 0 /\ y = 0 /\ combo = 0
        /\ acc = Empty
        /\ touched = {}
        /\ stored = {}

(* Mutant: memory may not be used up to its last byte.                      *)
Fits_Strict(last) == last < Size

Fits(last) == last <= Size

Trap == /\ pc' = "trap"
        /\ touched' = {}
        /\ UNCHANGED <<k, call, left, x, y, combo, acc, stored>>

Start(where) == /\ pc' = where
                /\ left' = nb
                /\ x' = call.x
                /\ y' = call.y
                /\ touched' = {}
                /\ UNCHANGED <<k, call, combo, acc, stored>>

-----------------------------------------------------------------------------
(* One row.  No block means no row pointer is checked, or used.            *)
(* Mutant: only the first block of a row is checked.                        *)
OneRowFits_FirstBlock == /\ Fits(call.s + 4)
                         /\ nb = 0 \/ (Fits(call.x + k.xb) /\ Fits(call.y + k.yb))

OneRowFits == /\ Fits(call.s + 4)
              /\ nb = 0 \/ (Fits(call.x + nb * k.xb) /\ Fits(call.y + nb * k.yb))

OneRow == IF OneRowFits THEN Start(IF nb = 0 THEN "reduce" ELSE "loop") ELSE Trap

vecDotPrologue == /\ pc = "prologue"
                  /\ k.arch = "arm64" /\ k.tile = "none"
                  /\ OneRow

x64VecDotPrologue == /\ pc = "prologue"
                     /\ k.arch = "amd64" /\ call.nrc # 2
                     /\ OneRow

(* The arm64 kernels with a tile.  The second row of each side is the one  *)
(* checked: the first lies before it.                                      *)
vecDotPrologue2 ==
    /\ pc = "prologue"
    /\ k.arch = "arm64" /\ k.tile # "none"
    /\ IF call.nrc # 2 THEN OneRow
       ELSE IF /\ Fits(call.s + 4 * call.bs + 8)
               /\ Fits(call.x + call.bx + nb * k.xb)
               /\ Fits(call.y + call.by + nb * k.yb)
            THEN Start(IF nb = 0 THEN "tilestore" ELSE "tile")
            ELSE Trap

(* Mutant: the first result is cleared before the rows are checked.         *)
x64TilePrologue_ClearsFirst ==
    /\ pc = "prologue"
    /\ k.arch = "amd64" /\ call.nrc = 2
    /\ IF /\ Fits(call.s + 4 * call.bs + 8)
          /\ Fits(call.x + call.bx + nb * k.xb)
          /\ Fits(call.y + call.by + nb * k.yb)
       THEN Start("combo")
       ELSE /\ pc' = "trap" /\ touched' = {} /\ stored' = {<<call.s, <<>>>>}
            /\ UNCHANGED <<k, call, left, x, y, combo, acc>>

x64TilePrologue ==
    /\ pc = "prologue"
    /\ k.arch = "amd64" /\ call.nrc = 2
    /\ IF /\ Fits(call.s + 8)
          /\ Fits(call.s + 4 * call.bs + 8)
          /\ Fits(call.x + call.bx + nb * k.xb)
          /\ Fits(call.y + call.by + nb * k.yb)
       THEN Start("combo")
       ELSE Trap

-----------------------------------------------------------------------------
Range4(a) == [from |-> a, to |-> a + 4]
Range8(a) == [from |-> a, to |-> a + 8]
XBlock(a) == [from |-> a, to |-> a + k.xb]
YBlock(a) == [from |-> a, to |-> a + k.yb]

(* The pairs of row and column a tile covers, in the order of its lanes.   *)
(* Mutant: rows and columns of a tile are not told apart.                   *)
row_AsColumn(l) == l \div 2

row(l) == l % 2
column(l) == l \div 2

(* The loops count down and test at the end.                               *)
LoopOneBlock ==
    /\ pc = "loop" /\ k.loop = 1
    /\ acc' = [acc EXCEPT ![0] = Append(@, <<x, y>>)]
    /\ touched' = {XBlock(x), YBlock(y)}
    /\ x' = x + k.xb /\ y' = y + k.yb
    /\ left' = left - 1
    /\ pc' = IF left' = 0 THEN "reduce" ELSE "loop"
    /\ UNCHANGED <<k, call, combo, stored>>

(* Two blocks a pass into two accumulators, then at most one more.         *)
LoopTwoBlocks ==
    /\ pc = "loop" /\ k.loop = 2
    /\ left >= 2
    /\ acc' = [acc EXCEPT ![0] = Append(@, <<x, y>>),
                          ![1] = Append(@, <<x + k.xb, y + k.yb>>)]
    /\ touched' = {XBlock(x), YBlock(y), XBlock(x + k.xb), YBlock(y + k.yb)}
    /\ x' = x + 2 * k.xb /\ y' = y + 2 * k.yb
    /\ left' = left - 2
    /\ UNCHANGED <<k, call, pc, combo, stored>>

LoopTail ==
    /\ pc = "loop" /\ k.loop = 2
    /\ left < 2
    /\ pc' = "reduce"
    /\ IF left = 0
       THEN touched' = {} /\ UNCHANGED acc
       ELSE /\ acc' = [acc EXCEPT ![0] = Append(@, <<x, y>>)]
            /\ touched' = {XBlock(x), YBlock(y)}
    /\ UNCHANGED <<k, call, left, x, y, combo, stored>>

(* The accumulators added up and stored through the output pointer.        *)
Output == IF k.arch = "amd64" /\ call.nrc = 2
          THEN call.s + 4 * row(combo) + 4 * call.bs * column(combo)
          ELSE call.s

reduceStore ==
    /\ pc = "reduce"
    /\ touched' = {Range4(Output)}
    /\ stored' = stored \cup {<<Output, acc[0] \o acc[1]>>}
    /\ IF k.arch = "amd64" /\ call.nrc = 2 /\ combo < 3
       THEN pc' = "combo" /\ combo' = combo + 1
       ELSE pc' = "done" /\ UNCHANGED combo
    /\ UNCHANGED <<k, call, left, x, y, acc>>

(* The four dots of a tile, one after the other from the frame.            *)
x64ComboPointers ==
    /\ pc = "combo"
    /\ left' = nb
    /\ x' = call.x + row(combo) * call.bx
    /\ y' = call.y + column(combo) * call.by
    /\ acc' = Empty
    /\ pc' = IF nb = 0 THEN "reduce" ELSE "loop"
    /\ touched' = {}
    /\ UNCHANGED <<k, call, combo, stored>>

(* The arm64 tile: both rows and both columns in one pass.                 *)
TileBlock ==
    /\ pc = "tile"
    /\ acc' = [l \in Lanes |-> Append(acc[l], <<x + row(l) * call.bx,
                                                y + column(l) * call.by>>)]
    /\ touched' = {XBlock(x), XBlock(x + call.bx), YBlock(y), YBlock(y + call.by)}
    /\ x' = x + k.xb /\ y' = y + k.yb
    /\ left' = left - 1
    /\ pc' = IF left' = 0 THEN "tilestore" ELSE "tile"
    /\ UNCHANGED <<k, call, combo, stored>>

storeTileRet ==
    /\ pc = "tilestore"
    /\ touched' = {Range8(call.s), Range8(call.s + 4 * call.bs)}
    /\ stored' = {<<call.s, acc[0]>>, <<call.s + 4, acc[1]>>,
                  <<call.s + 4 * call.bs, acc[2]>>, <<call.s + 4 * call.bs + 4, acc[3]>>}
    /\ pc' = "done"
    /\ UNCHANGED <<k, call, left, x, y, combo, acc>>

Next == \/ vecDotPrologue \/ x64VecDotPrologue \/ vecDotPrologue2 \/ x64TilePrologue
        \/ LoopOneBlock \/ LoopTwoBlocks \/ LoopTail
        \/ reduceStore \/ x64ComboPointers \/ TileBlock \/ storeTileRet

Spec == Init /\ [][Next]_vars

-----------------------------------------------------------------------------
(* Properties.                                                             *)

(* Nothing the kernel reads or writes lies outside linear memory: the      *)
(* checks of the prologue, done once, cover every access of every pass,    *)
(* the last block of the last row included.                                *)
InBounds == \A t \in touched : 0 <= t.from /\ t.to <= Size

(* A call that traps has written nothing: all checks come first, those of  *)
(* all four dots of a tile included.                                       *)
TrapIsClean == pc = "trap" => stored = {}

Needed == {call.s + 4} \cup {call.x + nb * k.xb, call.y + nb * k.yb}
          \cup (IF call.nrc = 2
                THEN {call.s + 4 * call.bs + 8, call.x + call.bx + nb * k.xb,
                      call.y + call.by + nb * k.yb, call.s + 8}
                ELSE {})

(* A call that traps would have left memory: the prologue refuses nothing  *)
(* the rows and results of a call with at least one block need.            *)
TrapIsDeserved == pc = "trap" /\ nb > 0 => \E last \in Needed : last > Size

Outputs == IF call.nrc = 2 THEN {0, 1} \X {0, 1} ELSE {<<0, 0>>}

OutputAt(o) == call.s + 4 * o[1] + 4 * call.bs * o[2]

BlocksOf(o) == {<<call.x + o[1] * call.bx + i * k.xb,
                  call.y + o[2] * call.by + i * k.yb>> : i \in 0 .. nb - 1}

Elements(seq) == {seq[i] : i \in DOMAIN seq}

(* When the kernel returns, every output of the call holds the sum of all  *)
(* blocks of its own row and column, each once, and nothing else has been  *)
(* written.                                                                *)
EveryBlockOnce ==
    pc = "done" =>
        /\ {w[1] : w \in stored} = {OutputAt(o) : o \in Outputs}
        /\ \A o \in Outputs : \A w \in stored :
              w[1] = OutputAt(o) => Elements(w[2]) = BlocksOf(o) /\ Len(w[2]) = nb
=============================================================================
