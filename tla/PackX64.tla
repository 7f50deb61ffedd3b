------------------------------ MODULE PackX64 -------------------------------
(***************************************************************************)
(* The amd64 nests of the repacked products: the linear form of the cell   *)
(* (column c, activation row r) for every generator of                     *)
(* kernels/internal/asm/repack*_x64.go.                                    *)
(*                                                                         *)
(* Two 32-byte registers hold a run of eight columns.  VPHADDD folds them  *)
(* into eight lanes in the order 0 1 4 5 2 3 6 7 (the hadd order), in      *)
(* which the scales are multiplied in and which the store undoes.  The     *)
(* pair sums of VPMADDUBSW are added in 16 bits before they are widened.   *)
(***************************************************************************)
EXTENDS Packs

(* The shuffle of the scale bytes, and the permutation of the block scales *)
(* and of the result.                                                      *)
order == <<0, 1, 4, 5, 2, 3, 6, 7>>

(* The lane the store takes column c from, and the column whose scales the *)
(* shuffles have put into a lane.                                          *)
LaneOf(c) == order[1 + c]
ScaledAs(lane) == order[1 + lane]

(* The eight bytes of the two registers that VPHADDD sums into a lane: the *)
(* 128-bit halves in turn, two lanes from each register.                   *)
HaddAt(lane) == 32 * ((lane \div 2) % 2) + 16 * (lane \div 4) + 8 * (lane % 2)

Loads64(o, groups) == Ld(32, {o + 64 * g + 32 * half : g \in groups, half \in 0 .. 1})

-----------------------------------------------------------------------------
(* lo and hi of the 64-bit registers R13 and R10.                          *)
x64Q4KScalesMins(b, o) ==
    LET top(w, i) == (Shr(b, w, i, 6, 4) % 4) * 2^4
        sc(i) == <<b[o + i] % 64, (b[o + 8 + i] % 16) + top(o, i)>>
        mn(i) == <<b[o + 4 + i] % 64, (Shr(b, o + 8, i, 4, 4) % 16) + top(o + 4, i)>>
    IN  [sc |-> [n \in L8 |-> sc(n % 4)[1 + n \div 4]],
         m  |-> [n \in L8 |-> mn(n % 4)[1 + n \div 4]]]

(* VPSRLW by 2sb, the mask of the bit, and VPSLLW up to bit 4.             *)
x64Kx8Fifth(L, b, sb, nib, k, at) ==
    LET qh == Shr(b, L.qhOff + 64 * k, at, 2 * sb, 2)
    IN  IF nib = 0 THEN Bits(qh, 0, 1) * 2^4 ELSE (Bits(qh, 1, 1) * 2) * 2^3

x64Kx8Dot(L, b, c, y, yd, sb, nib, k) ==
    LET lane == LaneOf(c)
        nibble(at) == LET o == L.qsOff + 256 * sb + 64 * k
                      IN  IF nib = 0 THEN b[o + at] % 16 ELSE Shr(b, o, at, 4, 2) % 16
        quant(at) == nibble(at) + (IF L.fifth THEN x64Kx8Fifth(L, b, sb, nib, k, at) ELSE 0)
    IN  DotOn(y[8 * sb + 4 * nib + k], yd, [m \in L8 |-> quant(HaddAt(lane) + m)],
              x64Q4KScalesMins(b, L.scalesOff + 24 * sb + 12 * nib).sc[ScaledAs(lane)])

(* Mutant: the two sub-blocks of a chunk are one 16-bit accumulation.      *)
x64Kx8Dots_WholeChunk(L, b, c, y, yd) ==
    {{x64Kx8Dot(L, b, c, y, yd, sb, nib, k) : nib \in 0 .. 1, k \in L4} : sb \in L4}

(* The four quads of a sub-block are one 16-bit accumulation.              *)
x64Kx8Dots(L, b, c, y, yd) ==
    {{x64Kx8Dot(L, b, c, y, yd, sb, nib, k) : k \in L4} : sb \in L4, nib \in 0 .. 1}

(* VPMADDWD of the (min_lo, min_hi) pairs with the pair of block sums.     *)
x64Kx8Form(L, b, c, sums, pairs, a, r, ldy) ==
    LET col == ScaledAs(LaneOf(c))
        mins == [j \in L8 |-> -x64Q4KScalesMins(b, L.scalesOff + 12 * j).m[col]]
    IN  [UnsignedPairs(Form(UNION sums, F16(b, 2 * col),
             Ld(16, {0, 16}) \cup Ld(4, {L.scalesOff + 4 * n : n \in 0 .. 23})
             \cup Loads64(L.qsOff, L16)
             \cup (IF L.fifth THEN Loads64(L.qhOff, L4) ELSE {})))
         EXCEPT !.mins = ByBlockSum(a, r, 2, pairs, mins), !.dmin = F16(b, 16 + 2 * col),
                !.words = sums, !.ldy = ldy]

x64Kx8Body(L, b, c) ==
    LET a == Activations.q8_K
    IN  x64Kx8Form(L, b, c, x64Kx8Dots(L, b, c, GemvY(a), 0), [j \in L8 |-> j], a, 0, BSums)

(* The pairs of row r are added up one by one: two 16-bit loads each.      *)
x64Kx8GemmTile(L, b, c, r) ==
    LET a == Activations.q8_Kx4
        first(j) == 16 * (j \div 2) + 4 * r + 2 * (j % 2)
    IN  x64Kx8Form(L, b, c, x64Kx8Dots(L, b, c, GemmY(a, r), 4 * r),
                   [j \in L8 |-> first(j) \div 2], a, r,
                   Ld(2, {1040 + 2 * (first(j) + n) : j \in L8, n \in 0 .. 1}))

-----------------------------------------------------------------------------
(* q6_K: the two quads of a 16-quant sub-block are one accumulation.       *)
x64Q6Dots(b, c, y, yd) ==
    LET lane == LaneOf(c)
        quant(half, sbk, hi, k, at) ==
            LET ql(s) == Shr(b, q6Kx8.qlOff + 512 * half + 128 * sbk + 64 * k, at, s, 2) % 16
                qh == Shr(b, q6Kx8.qhOff + 256 * half + 128 * (sbk % 2) + 64 * k, at,
                          IF sbk < 2 THEN 0 ELSE 2, 2)
            IN  IF hi = 0 THEN ql(0) + (qh % 4) * 2^4 ELSE ql(4) + Bits(qh, 4, 2) * 2^4
        scale(j) == I8(b[q6Kx8.scalesOff + 8 * j + ScaledAs(lane)])
        dot(half, sbk, hi, k) ==
            DotOn(y[16 * half + 2 * sbk + 8 * hi + k], yd,
                  [m \in L8 |-> quant(half, sbk, hi, k, HaddAt(lane) + m)],
                  scale(8 * half + sbk + 4 * hi))
    IN  {{dot(half, sbk, hi, k) : k \in 0 .. 1} : half, hi \in 0 .. 1, sbk \in L4}

x64Q6Form(b, c, sums, at, a, r, ldy) ==
    LET col == ScaledAs(LaneOf(c))
        scaled == [j \in L16 |-> -(I8(b[q6Kx8.scalesOff + 8 * j + col]) * 2^5)]
    IN  [UnsignedPairs(Form(UNION sums, F16(b, 2 * col),
             Ld(16, {0}) \cup Ld(8, {q6Kx8.scalesOff + 8 * j : j \in L16})
             \cup Loads64(q6Kx8.qlOff, L16) \cup Loads64(q6Kx8.qhOff, L8)))
         EXCEPT !.bias = ByBlockSum(a, r, 1, at, scaled), !.words = sums, !.ldy = ldy]

x64Q6K8x8Body(b, c) ==
    LET a == Activations.q8_K
    IN  x64Q6Form(b, c, x64Q6Dots(b, c, GemvY(a), 0), [j \in L16 |-> j], a, 0,
                  Ld(2, {260 + 2 * j : j \in L16}))

x64Q6KGemmTile(b, c, r) ==
    LET a == Activations.q8_Kx4
        at == [j \in L16 |-> 16 * (j \div 4) + 4 * r + (j % 4)]
    IN  x64Q6Form(b, c, x64Q6Dots(b, c, GemmY(a, r), 4 * r), at, a, r,
                  Ld(2, {1040 + 2 * at[j] : j \in L16}))

-----------------------------------------------------------------------------
(* The 32-quant formats.  Load n holds four columns of eight quants, the   *)
(* even loads columns 0..3 and the odd ones 4..7; its eight bytes of qh    *)
(* are the runs 0 1 4 5 (low) and 2 3 6 7 (high).                          *)
x64X8Unpack(L, b, n, hi, p, m) ==
    LET o == L.qsOff + 32 * n
        raw(i) == Unflipped(L, b[o + i])
        nibble == IF hi = 0 THEN raw(8 * p + m) % 16
                  ELSE Shr([i \in L32 |-> raw(i)], 0, 8 * p + m, 4, 2) % 16
        run == IF hi = 0 THEN <<0, 1, 4, 5>>[1 + p] ELSE <<2, 3, 6, 7>>[1 + p]
        fifth == Bits(b[L.qhOff + 8 * n + run], m, 1)
    IN  CASE Signed(L) -> L.lut[1 + nibble]
          [] L.fifth -> nibble + 16 * fifth
          [] ~Signed(L) /\ ~L.fifth -> nibble

(* Unsigned quants go in as they are, table values by magnitude and sign.  *)
x64X8Form(L, b, c, y, yd) ==
    LET at == HaddAt(LaneOf(c))
        dot(n, hi) == DotOn(y[n \div 2 + 2 * hi], yd,
                            [m \in L8 |-> x64X8Unpack(L, b, n, hi, (at % 32) \div 8, m)], 1)
        f == Form({dot(n, hi) : n \in {e \in L4 : e % 2 = at \div 32}, hi \in 0 .. 1},
                  x8Scales(L, b, ScaledAs(LaneOf(c))),
                  {<<0, IF L.e8m0 THEN 8 ELSE 16>>} \cup Ld(32, {L.qsOff + 32 * n : n \in L4})
                  \cup (IF L.fifth THEN Ld(8, {L.qhOff + 8 * n : n \in L4}) ELSE {}))
    IN  IF Signed(L) THEN SignedPairs(f) ELSE UnsignedPairs(f)

x64GemvX8Kernel(L, b, c) ==
    [x64X8Form(L, b, c, GemvY(Activations.q8_0), 0)
     EXCEPT !.bias = x8Bias(L, 0, 0),
            !.ldy = {<<0, 2>>} \cup (IF Signed(L) THEN {} ELSE {<<2, 32>>})]

(* VPHADDD leaves the sums of rows 0, 1 | 2, 3 in lanes 0, 1 | 4, 5.       *)
sumOff == <<0, 4, 16, 20>>

x64GemmX8Kernel(L, b, c, r) ==
    LET lane == sumOff[1 + r] \div 4
        subtracted == 2 * (lane \div 4) + (lane % 2)
    IN  [x64X8Form(L, b, c, GemmY(Activations.q8_0x4by8, r), 2 * r)
         EXCEPT !.bias = x8Bias(L, subtracted, r),
                !.ldy = {<<2 * r, 2>>} \cup Ld(32, {8 + 32 * g : g \in L4})]

-----------------------------------------------------------------------------
(* q8_0, four columns in runs of four bytes.                               *)
QuadOf(b, g, c) == [m \in L4 |-> I8(b[8 + 16 * g + 4 * c + m])]

(* AVX2: bytes widened to 16 bits and multiplied by VPMADDWD, which does   *)
(* not saturate.  VNNI: weights made unsigned by 128, and 128 times the    *)
(* sum of the activations taken off; load j has quads 2j and 2j + 1.       *)
x64RepackGemvKernel(feature, b, c) ==
    LET widened == {Dot(2 + 4 * g, QuadOf(b, g, c), 1) : g \in L8}
        quad(j, h) == 4 * (j \div 2) + 2 * (j % 2) + h
        biased == {Dot(2 + 4 * quad(j, h),
                       [m \in L4 |-> ((b[8 + 32 * j + 16 * h + 4 * c + m] + 128) % 256)], 1)
                   : j \in L4, h \in 0 .. 1}
    IN  IF feature = "avx2"
        THEN [Form(widened, F16(b, 2 * c), Ld(8, {0}) \cup Ld(16, {8 + 16 * g : g \in L8}))
              EXCEPT !.ldy = {<<0, 4>>, <<2, 16>>, <<18, 16>>}]
        ELSE [Form(biased, F16(b, 2 * c), Ld(8, {0}) \cup Ld(32, {8 + 32 * j : j \in L4}))
              EXCEPT !.bias = [k \in Quants |-> -(2^7)],
                     !.ldy = {<<0, 4>>, <<2, 16>>, <<18, 16>>}]

(* VPERMD puts the two runs of a column side by side.  The 128 added to    *)
(* the activations is taken off as 128 times the weights' sum, which the   *)
(* same registers give, and leaves no trace in the coefficients.           *)
x64RepackGemmKernel(feature, b, c, r) ==
    LET row(g) == 8 + 16 * g + 4 * r
        pair(p, h) == DotOn(row(2 * p + h), 2 * r, QuadOf(b, 2 * p + h, c), 1)
    IN  [Form(IF feature = "avx2" THEN {DotOn(row(g), 2 * r, QuadOf(b, g, c), 1) : g \in L8}
              ELSE {pair(p, h) : p \in L4, h \in 0 .. 1},
              F16(b, 2 * c),
              Ld(8, {0}) \cup (IF feature = "avx2" THEN Ld(16, {8 + 16 * g : g \in L8})
                               ELSE Ld(32, {8 + 32 * p : p \in L4})))
         EXCEPT !.ldy = Ld(8, {0}) \cup Ld(16, {8 + 16 * g : g \in L8})]
=============================================================================
