----------------------------- MODULE FlashAttn -----------------------------
(***************************************************************************)
(* The kernels of ggml_flash_attn_kv_f16, which take the positions of a    *)
(* call into the running maximum M, the sum of weights S and the row VKQ   *)
(* of one query: the NEON loop over single positions, and the FEAT_FHM and *)
(* AVX2 loops over blocks, which leave the blocked arithmetic for the      *)
(* exact recurrence where a block raises the maximum.                      *)
(*                                                                         *)
(* M and S are scores and logs of Softmax; a row of K or V is its position *)
(* and its bytes.  The dot of a K row with Q is call.dot; call.mv holds    *)
(* the mask's values times slope, NegInf for minus infinity.               *)
(***************************************************************************)
EXTENDS Softmax

CONSTANTS Calls, Block, Kernels,
          Size   \* bytes of linear memory

ASSUME BlockAssumption == Block \in Nat \ {0}
ASSUME SizeAssumption == Size \in Nat
ASSUME KernelsAssumption == Kernels \subseteq {"neon", "fhm", "amd64"}

(* A dot, and a score the mask lets through: NegInf is far enough below    *)
(* them that a dot added to it is no score.                                *)
Finite == NegInf \div 2 .. (NegInf \div 2 - NegInf) - 1

ASSUME CallsAssumption ==
    \A c \in Calls :
        /\ {c.l0, c.Q, c.K, c.nbk, c.V, c.nbv, c.mask, c.SM, c.VKQ} \subseteq Nat
        /\ {c.DK, c.DV, c.start, c.end} \subseteq Nat /\ c.M \in Int
        /\ \A p \in Positions(c) :
              /\ c.dot[p] \in Finite
              /\ c.mask # 0 =>
                    c.mv[p] = NegInf \/ (c.mv[p] \in Int /\ c.dot[p] + c.mv[p] \in Finite)

VARIABLES kernel, call,
          pc,
          left,    \* positions left (R9, R11)
          rows,    \* the positions the K, V and mask pointers stand at
          n,       \* positions in this block
          i,       \* position of the block the exact path is at
          s,       \* the scores of the block
          reg,     \* M and S in registers
          VKQ16,   \* the half-precision accumulator of the FHM kernel
          memory,  \* what the caller reads back: M, S and VKQ32
          touched  \* the ranges the last step accessed

vars == <<kernel, call, pc, left, rows, n, i, s, reg, VKQ16, memory, touched>>

faArgSize == 96
faFHMBlock == Block

Lanes == 0 .. Block - 1
NoScores == [l \in Lanes |-> NegInf]

(* Only the FHM kernel works in blocks on arm64, for these rows of V.      *)
Blocked == kernel = "amd64" \/ (kernel = "fhm" /\ call.DV \in {64, 128})

Init == /\ kernel \in Kernels /\ call \in Calls
        /\ pc = "prologue"
        /\ left = 0 /\ n = 0 /\ i = 0
        /\ rows = [k |-> call.start, v |-> call.start, m |-> call.start]
        /\ s = NoScores
        /\ reg = [M |-> NegInf, S |-> <<>>]
        /\ VKQ16 = <<>>
        /\ memory = [M |-> call.M, S |-> Before(call.M), VKQ |-> Before(call.M)]
        /\ touched = {}

-----------------------------------------------------------------------------
Range(from, len) == [from |-> from, to |-> from + len]

(* Bytes read of a row of d halves: 16 halves a pass and a tail of 8 in    *)
(* the NEON loop, 8 a pass in the others.                                  *)
RowBytes(d) == IF Blocked THEN 16 * (d \div 8)
               ELSE 32 * (d \div 16) + 16 * ((d \div 8) % 2)

KRow(p) == Range(call.K + p * call.nbk, RowBytes(call.DK))
VRow(p) == Range(call.V + p * call.nbv, RowBytes(call.DV))
QRow == Range(call.Q, RowBytes(call.DK))
MaskAt(p) == Range(call.mask + 2 * p, 2)
SM == Range(call.SM, 8)
VKQRow == Range(call.VKQ, 4 * call.DV)

Fits(last) == last <= Size

PointersFit == /\ Fits(call.l0 + faArgSize)
               /\ Fits(call.SM + 8)
               /\ Fits(call.VKQ + 4 * call.DV)
               /\ Fits(call.Q + 2 * call.DK)

(* Mutant: the check stops at the start of the last rows.                   *)
RowsFit_RowStarts == /\ Fits(call.K + (call.end - 1) * call.nbk)
                     /\ Fits(call.V + (call.end - 1) * call.nbv)
                     /\ call.mask = 0 \/ Fits(call.mask + 2 * call.end)

RowsFit == /\ Fits(call.K + (call.end - 1) * call.nbk + 2 * call.DK)
           /\ Fits(call.V + (call.end - 1) * call.nbv + 2 * call.DV)
           /\ call.mask = 0 \/ Fits(call.mask + 2 * call.end)

(* An empty range: the arm64 kernels store the state they loaded, the AVX2 *)
(* one returns at once.                                                    *)
Enter(empty, first) ==
    /\ pc = "prologue"
    /\ pc' = CASE ~ PointersFit -> "trap"
               [] PointersFit /\ call.end <= call.start -> empty
               [] PointersFit /\ call.end > call.start -> IF RowsFit THEN first ELSE "trap"
    /\ left' = call.end - call.start
    /\ UNCHANGED <<kernel, call, rows, n, i, s, VKQ16, memory>>

prologue ==
    /\ kernel # "amd64"
    /\ Enter("done", IF Blocked THEN "convert" ELSE "pos")
    /\ IF PointersFit THEN reg' = [M |-> memory.M, S |-> memory.S] /\ touched' = {SM}
                      ELSE UNCHANGED reg /\ touched' = {}

x64Prologue ==
    /\ kernel = "amd64"
    /\ Enter("ret", "block")
    /\ IF pc' = "block" THEN reg' = [M |-> memory.M, S |-> memory.S] /\ touched' = {SM}
                        ELSE UNCHANGED reg /\ touched' = {}

-----------------------------------------------------------------------------
Advance(by) == /\ rows' = [k |-> rows.k + by, v |-> rows.v + by,
                           m |-> IF call.mask = 0 THEN rows.m ELSE rows.m + by]
               /\ left' = left - by

MaskValue(m) == IF call.mask = 0 THEN 0 ELSE call.mv[m]

(* The loop of the NEON kernel, and of the FHM kernel for other rows of V. *)
perPositionLoop ==
    /\ pc = "pos"
    /\ LET mv == MaskValue(rows.m)
           sc == call.dot[rows.k] + mv
           Mask == IF call.mask = 0 THEN {} ELSE {MaskAt(rows.m)}
       IN IF mv = NegInf
          THEN touched' = Mask /\ UNCHANGED <<reg, memory>>
          ELSE /\ touched' = Mask \cup {KRow(rows.k), QRow, VRow(rows.v), VKQRow}
               /\ IF sc > reg.M
                  THEN /\ reg' = [M |-> sc, S |-> Add(Mul(reg.S, reg.M - sc), 0, rows.v)]
                       /\ memory' = [memory EXCEPT !.VKQ = Add(Mul(@, reg.M - sc), 0, rows.v)]
                  ELSE /\ reg' = [reg EXCEPT !.S = Add(@, sc - reg.M, rows.v)]
                       /\ memory' = [memory EXCEPT !.VKQ = Add(@, sc - reg.M, rows.v)]
    /\ Advance(1)
    /\ pc' = IF left' = 0 THEN "done" ELSE "pos"
    /\ UNCHANGED <<kernel, call, n, i, s, VKQ16>>

epilogue ==
    /\ pc = "done"
    /\ memory' = [memory EXCEPT !.M = reg.M, !.S = reg.S]
    /\ touched' = {SM}
    /\ pc' = "ret"
    /\ UNCHANGED <<kernel, call, left, rows, n, i, s, reg, VKQ16>>

-----------------------------------------------------------------------------
(* The blocked kernels: scores first, lanes past the end stay -inf.        *)
ScoresOf(size) == [l \in Lanes |-> IF l < size
                                   THEN call.dot[rows.k + l] + MaskValue(rows.m + l)
                                   ELSE NegInf]

(* NegInf plus a dot is minus infinity too.                                *)
Flat(sc) == [l \in Lanes |-> IF sc[l] < NegInf \div 2 THEN NegInf ELSE sc[l]]

(* Mutant: the smallest score of the block decides.                        *)
MaxScore_Min(sc) == CHOOSE m \in {sc[l] : l \in Lanes} : \A l \in Lanes : sc[l] >= m

MaxScore(sc) == CHOOSE m \in {sc[l] : l \in Lanes} : \A l \in Lanes : sc[l] <= m

ScoreRanges(size) ==
    {QRow} \cup {KRow(rows.k + l) : l \in 0 .. size - 1}
           \cup (IF call.mask = 0 THEN {} ELSE {MaskAt(rows.m + l) : l \in 0 .. size - 1})

BlockSize == IF left >= Block THEN Block ELSE left

BlockScores(M) ==
    /\ pc = "block"
    /\ LET size == BlockSize
           sc == Flat(ScoresOf(size))
       IN /\ n' = size
          /\ s' = sc
          /\ i' = 0
          /\ touched' = ScoreRanges(size)
          /\ pc' = CASE MaxScore(sc) = NegInf -> "advance"
                     [] MaxScore(sc) # NegInf /\ MaxScore(sc) > M -> "exact"
                     [] OTHER -> "fast"
    /\ UNCHANGED <<kernel, call, left, rows, reg, VKQ16, memory>>

(* Mutant: the lanes are added from the last to the first.                  *)
AddLanes_Reversed(log, M, lanes) ==
    LET sum[l \in 0 .. lanes] ==
            IF l = 0 THEN log ELSE Add(sum[l - 1], Clamp(s[lanes - l] - M), rows.v + lanes - l)
    IN sum[lanes]

(* Weights of the lanes, added up in the order of the lanes; the rows of V *)
(* past the block are not read.                                            *)
AddLanes(log, M, lanes) ==
    LET sum[l \in 0 .. lanes] ==
            IF l = 0 THEN log ELSE Add(sum[l - 1], Clamp(s[l - 1] - M), rows.v + l - 1)
    IN sum[lanes]

VRows == {VRow(rows.v + l) : l \in 0 .. n - 1}

(* After the last block the FHM kernel converts, the AVX2 one stores.      *)
NextBlock(last) ==
    /\ pc = "advance"
    /\ Advance(n)
    /\ touched' = {}
    /\ pc' = IF left' = 0 THEN last ELSE "block"
    /\ UNCHANGED <<kernel, call, n, i, s, reg, VKQ16, memory>>

NextLane == /\ i' = i + 1
            /\ pc' = IF i' < n THEN "exact" ELSE "advance"
            /\ UNCHANGED <<kernel, call, left, rows, n, s>>

-----------------------------------------------------------------------------
(* FEAT_FHM: M and S stay in memory between the blocks, VKQ in halves.     *)
fhmConvertIn ==
    /\ pc = "convert"
    /\ VKQ16' = memory.VKQ
    /\ touched' = {VKQRow}
    /\ pc' = "block"
    /\ UNCHANGED <<kernel, call, left, rows, n, i, s, reg, memory>>

fhmBlock == kernel = "fhm" /\ BlockScores(memory.M)

fhmFast ==
    /\ kernel = "fhm" /\ pc = "fast"
    /\ memory' = [memory EXCEPT !.S = AddLanes(@, memory.M, Block)]
    /\ VKQ16' = AddLanes(VKQ16, memory.M, n)
    /\ touched' = {SM} \cup VRows
    /\ pc' = "advance"
    /\ UNCHANGED <<kernel, call, left, rows, n, i, s, reg>>

fhmExact ==
    /\ kernel = "fhm" /\ pc = "exact"
    /\ CASE s[i] = NegInf -> touched' = {} /\ UNCHANGED <<VKQ16, memory>>
         [] s[i] # NegInf /\ s[i] > memory.M ->
               LET ms == Clamp(memory.M - s[i])
               IN /\ memory' = [memory EXCEPT !.M = s[i],
                                              !.S = Add(Mul(@, ms), 0, rows.v + i)]
                  /\ VKQ16' = Add(Mul(VKQ16, ms), 0, rows.v + i)
                  /\ touched' = {SM, VRow(rows.v + i)}
         [] OTHER ->
               LET vs == Clamp(s[i] - memory.M)
               IN /\ memory' = [memory EXCEPT !.S = Add(@, vs, rows.v + i)]
                  /\ VKQ16' = Add(VKQ16, vs, rows.v + i)
                  /\ touched' = {SM, VRow(rows.v + i)}
    /\ NextLane
    /\ UNCHANGED reg

fhmAdvance == kernel = "fhm" /\ NextBlock("convertout")

(* The epilogue stores the registers: they are loaded anew.                *)
fhmConvertOut ==
    /\ pc = "convertout"
    /\ memory' = [memory EXCEPT !.VKQ = VKQ16]
    /\ reg' = [M |-> memory.M, S |-> memory.S]
    /\ touched' = {VKQRow, SM}
    /\ pc' = "done"
    /\ UNCHANGED <<kernel, call, left, rows, n, i, s, VKQ16>>

-----------------------------------------------------------------------------
(* AVX2: M and S in registers, VKQ in the caller's floats.                 *)
x64Block == kernel = "amd64" /\ BlockScores(reg.M)

x64Fast ==
    /\ kernel = "amd64" /\ pc = "fast"
    /\ reg' = [reg EXCEPT !.S = AddLanes(@, reg.M, Block)]
    /\ memory' = [memory EXCEPT !.VKQ = AddLanes(@, reg.M, n)]
    /\ touched' = {VKQRow} \cup VRows
    /\ pc' = "advance"
    /\ UNCHANGED <<kernel, call, left, rows, n, i, s, VKQ16>>

x64Exact ==
    /\ kernel = "amd64" /\ pc = "exact"
    /\ CASE s[i] = NegInf -> touched' = {} /\ UNCHANGED <<reg, memory>>
         [] s[i] # NegInf /\ s[i] > reg.M ->
               LET ms == Clamp(reg.M - s[i])
               IN /\ reg' = [M |-> s[i], S |-> Add(Mul(reg.S, ms), 0, rows.v + i)]
                  /\ memory' = [memory EXCEPT !.VKQ = Add(Mul(@, ms), 0, rows.v + i)]
                  /\ touched' = {VKQRow, VRow(rows.v + i)}
         [] OTHER ->
               LET vs == Clamp(s[i] - reg.M)
               IN /\ reg' = [reg EXCEPT !.S = Add(@, vs, rows.v + i)]
                  /\ memory' = [memory EXCEPT !.VKQ = Add(@, vs, rows.v + i)]
                  /\ touched' = {VKQRow, VRow(rows.v + i)}
    /\ NextLane
    /\ UNCHANGED VKQ16

x64Advance == kernel = "amd64" /\ NextBlock("done")

-----------------------------------------------------------------------------
Next == \/ prologue \/ x64Prologue \/ perPositionLoop \/ epilogue
        \/ fhmConvertIn \/ fhmBlock \/ fhmFast \/ fhmExact \/ fhmAdvance \/ fhmConvertOut
        \/ x64Block \/ x64Fast \/ x64Exact \/ x64Advance

Spec == Init /\ [][Next]_vars

-----------------------------------------------------------------------------
(* Properties.                                                             *)

(* Every access lies in linear memory: the checks of the last row and of   *)
(* the last mask element cover those of all rows, tails included.          *)
AttnInBounds == \A t \in touched : 0 <= t.from /\ t.to <= Size

(* What a position weighs in a log: the exponents of its additions, with   *)
(* the multiplications that came after them.                               *)
Weights(log, p) ==
    LET w[j \in 0 .. Len(log)] ==
            IF j = 0 THEN <<>>
            ELSE CASE log[j][1] = "mul" -> [e \in DOMAIN w[j - 1] |-> w[j - 1][e] + log[j][2]]
                   [] log[j][1] = "add" /\ log[j][3] = p -> Append(w[j - 1], log[j][2])
                   [] OTHER -> w[j - 1]
    IN w[Len(log)]

Scored == {p \in Positions(call) : Score(call, p) # NegInf}

Largest == CHOOSE m \in {call.M} \cup {Score(call, p) : p \in Scored} :
              /\ m >= call.M
              /\ \A p \in Scored : m >= Score(call, p)

WeighedAs(log, p, exponent) ==
    LET w == Weights(log, p)
    IN IF Zero(exponent) THEN \A j \in DOMAIN w : Zero(w[j]) ELSE w = <<exponent>>

(* A call that returns has added exactly the softmax of its range: M is    *)
(* the largest score seen, every position the mask lets through weighs     *)
(* exp(score - M), once, in S and in VKQ, what was there before weighs     *)
(* exp(old M - M), and a masked position weighs nothing.                   *)
SoftmaxOfRange ==
    pc = "ret" =>
        /\ memory.M = Largest
        /\ \A log \in {memory.S, memory.VKQ} :
              /\ \A p \in Positions(call) :
                    IF p \in Scored THEN WeighedAs(log, p, Score(call, p) - Largest)
                                    ELSE Weights(log, p) = <<>>
              /\ call.M # NegInf => WeighedAs(log, 0, call.M - Largest)

(* Where the state is: in registers while a loop that keeps it there runs. *)
InRegisters == pc \in {"pos", "done"} \/
               (kernel = "amd64" /\ pc \in {"block", "fast", "exact", "advance"})
InHalves == kernel = "fhm" /\ pc \in {"block", "fast", "exact", "advance", "convertout"}

Attn == INSTANCE Attention WITH
    next <- rows.k + (CASE pc = "exact" -> i
                        [] pc = "advance" -> n
                        [] OTHER -> 0),
    state <- [M |-> IF InRegisters THEN reg.M ELSE memory.M,
              S |-> IF InRegisters THEN reg.S ELSE memory.S,
              VKQ |-> IF InHalves THEN VKQ16 ELSE memory.VKQ]

(* Every kernel implements the recurrence, rounding for rounding: the      *)
(* numerics do not depend on how the positions fall into blocks.           *)
ImplementsRecurrence == Attn!Spec
=============================================================================
