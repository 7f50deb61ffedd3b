------------------------------- MODULE Quants -------------------------------
(***************************************************************************)
(* A row dot, block by block: what the kernel of each format makes of the  *)
(* bytes of a block, on both architectures, against what the bytes mean.   *)
(*                                                                         *)
(* One step is one pass of a kernel's block loop.  out holds the linear    *)
(* forms the pass adds to its accumulators: one for a single row, four for *)
(* a 2x2 tile, one per column and CPU feature for the repacked nests.      *)
(***************************************************************************)
EXTENDS PackRef, FiniteSetsExt

A64 == INSTANCE DotA64
X64 == INSTANCE DotX64
PA64 == INSTANCE PackA64
PX64 == INSTANCE PackX64

CONSTANTS NB,            \* blocks of a row
          Row(_, _, _)   \* byte o of block i of weight row r

ASSUME BlocksAssumption == NB \in Nat /\ \A r \in 0 .. 7, i \in 1 .. NB, o \in 0 .. 209 :
                                            Row(r, i, o) \in 0 .. 255

VARIABLES arch,   \* "arm64" or "amd64"
          fmt,    \* the quantization format
          nest,   \* the entry point: the row dot, its 2x2 tile (nrc = 2), or
                  \* the repacked product of one or four activation rows
          i,      \* blocks done
          out     \* what the last pass computes

vars == <<arch, fmt, nest, i, out>>

-----------------------------------------------------------------------------
Block(r, n) == [o \in 0 .. BlockBytes[fmt] - 1 |-> Row(r, n, o)]

(* The body of each export, in the order of Overrides().                   *)
LookupBody(b) ==
    IF arch = "arm64"
    THEN CASE fmt \in {"iq4_nl", "mxfp4"} -> A64!a64VecDotLUT32(fmt, b)
           [] fmt \in {"q4_1", "q5_1"} -> A64!a64VecDotQx1Kernel(fmt = "q5_1", b)
           [] fmt = "iq4_xs" -> A64!a64VecDotIQ4XSKernel(b)
    ELSE CASE fmt \in {"iq4_nl", "mxfp4"} -> X64!x64VecDotLUT32(fmt, b)
           [] fmt \in {"q4_1", "q5_1"} -> X64!x64VecDotQx1Kernel(fmt = "q5_1", b)
           [] fmt = "iq4_xs" -> X64!x64VecDotIQ4XSKernel(b)

CodebookBody(b) ==
    IF arch = "arm64"
    THEN CASE fmt = "iq3_xxs" -> A64!a64VecDotIQ3XXSKernel(b)
           [] fmt = "iq3_s" -> A64!a64VecDotIQ3SKernel(b)
           [] fmt \in {"iq2_xxs", "iq2_xs", "iq2_s"} -> A64!a64VecDotIQ2(fmt, b)
           [] fmt = "iq1_s" -> A64!a64VecDotIQ1SKernel(b)
           [] fmt = "iq1_m" -> A64!a64VecDotIQ1MKernel(b)
    ELSE CASE fmt \in {"iq3_xxs", "iq3_s"} -> X64!x64VecDotIQ3(fmt = "iq3_s", b)
           [] fmt \in {"iq2_xxs", "iq2_xs", "iq2_s"} -> X64!x64VecDotIQ2(fmt, b)
           [] fmt \in {"iq1_s", "iq1_m"} -> X64!x64VecDotIQ1(fmt = "iq1_m", b)

TernaryBody(b) ==
    IF arch = "arm64"
    THEN CASE fmt = "tq1_0" -> A64!a64VecDotTQ1_0Kernel(b)
           [] fmt = "tq2_0" -> A64!a64VecDotTQ2_0Kernel(b)
           [] fmt = "nvfp4" -> A64!a64VecDotNVFP4Kernel(b)
           [] fmt = "q1_0" -> A64!a64VecDotQ1_0Kernel(b)
           [] fmt = "q2_0" -> A64!a64VecDotQ2_0Kernel(b)
    ELSE CASE fmt = "tq1_0" -> X64!x64VecDotTQ1_0Kernel(b)
           [] fmt = "tq2_0" -> X64!x64VecDotTQ2_0Kernel(b)
           [] fmt = "nvfp4" -> X64!x64VecDotNVFP4Kernel(b)
           [] fmt = "q1_0" -> X64!x64VecDotQ1_0Kernel(b)
           [] fmt = "q2_0" -> X64!x64VecDotQ2_0Kernel(b)

LegacyAndKBody(b) ==
    IF arch = "arm64"
    THEN CASE fmt \in {"q4_0", "q8_0"} -> A64!a64VecDotLegacy(fmt, b)
           [] fmt = "q5_0" -> A64!a64VecDotQ5_0Kernel(b)
           [] fmt = "q2_K" -> A64!a64VecDotQ2_KKernel(b)
           [] fmt = "q3_K" -> A64!a64VecDotQ3_KKernel(b)
           [] fmt = "q4_K" -> A64!a64VecDotQ4_KKernel(b)
           [] fmt = "q5_K" -> A64!a64VecDotQ5_KKernel(b)
           [] fmt = "q6_K" -> A64!a64VecDotQ6_KKernel(b)
    ELSE CASE fmt \in {"q4_0", "q8_0"} -> X64!x64VecDotLegacy(fmt, b)
           [] fmt = "q5_0" -> X64!x64VecDotQ5_0Kernel(b)
           [] fmt = "q2_K" -> X64!x64VecDotQ2_KKernel(b)
           [] fmt = "q3_K" -> X64!x64VecDotQ3_KKernel(b)
           [] fmt = "q4_K" -> X64!x64VecDotQ4_KKernel(b)
           [] fmt = "q5_K" -> X64!x64VecDotQ5_KKernel(b)
           [] fmt = "q6_K" -> X64!x64VecDotQ6_KKernel(b)

(* The arm64 kernels with a tile of their own; on amd64 nrc = 2 runs the   *)
(* single-row body four times.                                             *)
Tiled == {"q4_K", "q5_K", "q6_K"}

TileBody(x) == CASE fmt = "q4_K" -> A64!a64VecDotQ4_KTile(x)
                 [] fmt = "q5_K" -> A64!a64VecDotQ5_KTile(x)
                 [] fmt = "q6_K" -> A64!a64VecDotQ6_KTile(x)

SingleBody(b) ==
    CASE fmt \in {"iq4_nl", "mxfp4", "q4_1", "q5_1", "iq4_xs"} -> LookupBody(b)
      [] fmt \in Codebooks \ {"iq4_xs"} -> CodebookBody(b)
      [] fmt \in Ternary \cup Packed -> TernaryBody(b)
      [] fmt \in {"q4_0", "q8_0", "q5_0"} \cup KFormats -> LegacyAndKBody(b)

(* The repacked products.                                                  *)
Nests == {"gemv", "gemm"}
Repacked == {"q8_0", "q4_0", "q5_0", "iq4_nl", "mxfp4", "q4_K", "q5_K", "q6_K"}

(* The CPU features the exports of the nest are guarded by.                *)
Features ==
    CASE arch = "amd64" -> {"avx2"} \cup (IF fmt = "q8_0" THEN {"avx512vnni"} ELSE {})
      [] arch = "arm64" /\ nest = "gemv" -> {"dotprod"}
      [] arch = "arm64" /\ nest # "gemv" -> {"i8mm"} \cup (IF fmt = "q8_0" THEN {"dotprod"}
                                                        ELSE {})

GemvBody(feature, b, c) ==
    IF arch = "arm64"
    THEN CASE fmt \in {"q4_K", "q5_K"} -> PA64!a64GemvKx8Kernel(PA64!kx8Layout(fmt), b, c)
           [] fmt = "q6_K" -> PA64!a64GemvQ6K8x8Kernel(b, c)
           [] fmt = "q8_0" -> PA64!a64RepackGemvKernel(b, c)
           [] OTHER -> PA64!a64GemvX8Kernel(PA64!x8Layout(fmt), b, c)
    ELSE CASE fmt \in {"q4_K", "q5_K"} -> PX64!x64Kx8Body(PX64!kx8Layout(fmt), b, c)
           [] fmt = "q6_K" -> PX64!x64Q6K8x8Body(b, c)
           [] fmt = "q8_0" -> PX64!x64RepackGemvKernel(feature, b, c)
           [] OTHER -> PX64!x64GemvX8Kernel(PX64!x8Layout(fmt), b, c)

GemmBody(feature, b, c, r) ==
    IF arch = "arm64"
    THEN CASE fmt \in {"q4_K", "q5_K"} -> PA64!a64GemmKx8Kernel(PA64!kx8Layout(fmt), b, c, r)
           [] fmt = "q6_K" -> PA64!a64GemmQ6K8x8Kernel(b, c, r)
           [] fmt = "q8_0" -> PA64!a64RepackGemmKernel(feature, b, c, r)
           [] OTHER -> PA64!a64GemmX8Kernel(PA64!x8Layout(fmt), b, c, r)
    ELSE CASE fmt \in {"q4_K", "q5_K"} -> PX64!x64Kx8GemmTile(PX64!kx8Layout(fmt), b, c, r)
           [] fmt = "q6_K" -> PX64!x64Q6KGemmTile(b, c, r)
           [] fmt = "q8_0" -> PX64!x64RepackGemmKernel(feature, b, c, r)
           [] OTHER -> PX64!x64GemmX8Kernel(PX64!x8Layout(fmt), b, c, r)

RepackBody(feature, b, c, r) == IF nest = "gemv" THEN GemvBody(feature, b, c)
                                ELSE GemmBody(feature, b, c, r)

-----------------------------------------------------------------------------
Init == /\ arch \in {"arm64", "amd64"}
        /\ fmt \in Formats
        /\ nest \in {"row", "tile", "gemv", "gemm"}
        /\ nest = "tile" => arch = "arm64" /\ fmt \in Tiled
        /\ nest \in Nests => fmt \in Repacked
        /\ i = 0
        /\ out = <<>>

Pass(body(_)) == /\ nest = "row"
                 /\ i < NB
                 /\ i' = i + 1
                 /\ out' = [t \in 0 .. 0 |-> [xrow |-> 0, yrow |-> 0,
                                              form |-> body(Block(0, i'))]]
                 /\ UNCHANGED <<arch, fmt, nest>>

LookupPass     == fmt \in {"iq4_nl", "mxfp4", "q4_1", "q5_1", "iq4_xs"} /\ Pass(LookupBody)
CodebookPass   == fmt \in Codebooks \ {"iq4_xs"} /\ Pass(CodebookBody)
TernaryPass    == fmt \in Ternary \cup Packed /\ Pass(TernaryBody)
LegacyAndKPass == fmt \in {"q4_0", "q8_0", "q5_0"} \cup KFormats /\ Pass(LegacyAndKBody)

TilePass == /\ nest = "tile"
            /\ i < NB
            /\ i' = i + 1
            /\ out' = TileBody([r \in 0 .. 1 |-> Block(r, i')])
            /\ UNCHANGED <<arch, fmt, nest>>

(* One pass of a nest: a cell for every column of the packed block and     *)
(* every export the host may have picked; the rows of a GEMM take turns.   *)
RepackPass ==
    /\ nest \in Nests
    /\ i < NB
    /\ i' = i + 1
    /\ LET b == Packing(fmt, [c \in 0 .. Columns(fmt) - 1 |-> Block(c, i')])
           row(c) == IF nest = "gemm" THEN (c + i') % 4 ELSE 0
       IN  out' = [t \in (0 .. Columns(fmt) - 1) \X Features |->
                      [xrow |-> t[1], yrow |-> row(t[1]),
                       form |-> RepackBody(t[2], b, t[1], row(t[1]))]]
    /\ UNCHANGED <<arch, fmt, nest>>

Next == LookupPass \/ CodebookPass \/ TernaryPass \/ LegacyAndKPass \/ TilePass
        \/ RepackPass

Spec == Init /\ [][Next]_vars

-----------------------------------------------------------------------------
(* Properties.                                                             *)

(* What the activations stand in: a row of q8 blocks, or four interleaved. *)
Act == CASE nest # "gemm" -> ActivationsOf(fmt)
         [] nest = "gemm" /\ fmt \in KFormats -> Activations.q8_Kx4
         [] nest = "gemm" /\ fmt = "q8_0" -> Activations.q8_0x4by4
         [] OTHER -> Activations.q8_0x4by8

Seat(t) == IF nest = "gemm" THEN out[t].yrow ELSE 0
Forms == {out[t].form : t \in DOMAIN out}

(* The dots that read activation byte p.                                   *)
Reading(f, p) == {d \in f.dots : p - d.y \in DOMAIN d.w}

(* Every quant of the block is multiplied exactly once, by the byte of the *)
(* activation block that holds it, under that block's own scale, and no    *)
(* lane multiplies a byte that holds no quant of the block: none of        *)
(* another row's in an interleaved block.  A wrong stride or a skipped     *)
(* half drops some weights and counts others twice, which a test with a    *)
(* loose tolerance may not see.                                            *)
QuantsOnce ==
    \A t \in DOMAIN out :
        LET f == out[t].form
            r == Seat(t)
            seats == {QuantAt(Act, r, k) : k \in 0 .. QuantsOf(fmt) - 1}
        IN  /\ \A k \in 0 .. QuantsOf(fmt) - 1 :
                  LET readers == Reading(f, QuantAt(Act, r, k))
                  IN  \E d \in readers : readers = {d} /\ d.yd = ScaleAt(Act, r, k)
            /\ \A d \in f.dots : \A m \in DOMAIN d.w : d.y + m \in seats

Coefficient(f, p) ==
    LET d == CHOOSE d \in f.dots : p - d.y \in DOMAIN d.w
    IN  d.s * d.w[p - d.y]

(* What a pass adds to its accumulator is what the bytes of the block      *)
(* mean: the coefficient of every activation, the constants moved into the *)
(* sums of activations included, and both block scales are those of the    *)
(* reference loops.  A column of a packed block means what the plain block *)
(* it was packed from means.                                               *)
DecodesAsReference ==
    \A t \in DOMAIN out :
        LET f == out[t].form
            b == Block(out[t].xrow, i)
        IN  /\ RefDen(fmt) % f.den = 0 /\ RefDen(fmt) % f.bden = 0
            /\ \A k \in 0 .. QuantsOf(fmt) - 1 :
                  /\ Coefficient(f, QuantAt(Act, Seat(t), k)) * (RefDen(fmt) \div f.den)
                       + f.bias[k] * (RefDen(fmt) \div f.bden) = Weight(fmt, b, k)
                  /\ f.mins[k] = Offset(fmt, b, k)
            /\ f.d = Scale(fmt, b)
            /\ f.dmin = OffsetScale(fmt, b)

Abs(x) == IF x < 0 THEN -x ELSE x

(* The largest sum of the pair m, m + 1 of a dot.                          *)
PairSum(f, d, m) == f.act * (Abs(d.w[m]) + Abs(d.w[m + 1]))

(* The largest 16-bit sum of the pairs m, m + 1 of several dots.           *)
WordSum(f, sum, m) == MapThenSumSet(LAMBDA d : PairSum(f, d, m), sum)

(* VPMADDUBSW never saturates and the 16-bit sums of several of its        *)
(* results never wrap: with the largest activation the operands may hold,  *)
(* every pair fits 16 bits, and so does what is added up before widening,  *)
(* whatever the block's bytes are.  The q5_K nest puts a fifth bit into    *)
(* lanes the q4_K nest had room to spare in.                               *)
NoPairSaturates ==
    \A f \in Forms :
        f.act > 0 =>
            /\ \A d \in f.dots : \A m \in DOMAIN d.w :
                  m % 2 = 0 => PairSum(f, d, m) <= 32767
            /\ \A sum \in f.words : \A m \in {0, 2, 4, 6} : WordSum(f, sum, m) <= 32767

(* No pass loads a byte outside its own blocks: the prologue of a kernel   *)
(* checks the row's extent, and the last block has nothing behind it.      *)
LoadsInBlock ==
    \A f \in Forms :
        LET xBytes == IF nest \in Nests THEN PackedBytes[fmt] ELSE BlockBytes[fmt]
            yBytes == (QuantsOf(fmt) \div Act.n) * Act.bytes
        IN  /\ \A l \in f.ld : l[1] + l[2] <= xBytes
            /\ \A l \in f.ldy : l[1] + l[2] <= yBytes
            /\ \A d \in f.dots : \A m \in DOMAIN d.w : d.y + m < yBytes

(* A tile's four lanes are the four single-row dots: a row computed in a   *)
(* tile and the same row computed alone add the same terms.                *)
TileMatchesSingle ==
    nest = "tile" =>
        \A t \in DOMAIN out :
            /\ out[t].xrow = t % 2 /\ out[t].yrow = t \div 2
            /\ LET single == SingleBody(Block(out[t].xrow, i))
               IN  out[t].form = single
=============================================================================
