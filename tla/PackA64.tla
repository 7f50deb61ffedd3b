------------------------------ MODULE PackA64 -------------------------------
(***************************************************************************)
(* The arm64 nests of the repacked products: the linear form of the cell   *)
(* (column c, activation row r) for every generator of                     *)
(* kernels/internal/asm/repack*_a64.go.                                    *)
(*                                                                         *)
(* A 16-byte load holds the same run of a pair of columns.  SDOT scores it *)
(* against a broadcast run of one row, SMMLA against the run of two rows.  *)
(***************************************************************************)
EXTENDS Packs

(* Byte m of column c in the loads of the column pairs at o.               *)
OfPair(b, o, c, m) == b[o + 16 * (c \div 2) + 8 * (c % 2) + m]

PairLoads(o, c, groups) == Ld(16, {o + 64 * g + 16 * (c \div 2) : g \in groups})

-----------------------------------------------------------------------------
(* The eight columns' scales and mins of one sub-block, from three words.  *)
q4Kx8ScalesMins(b, o) ==
    LET high(w, c) == (Shr(b, w, c - 4, 6, 4) % 4) * 16
    IN  [sc |-> [c \in L8 |-> IF c < 4 THEN b[o + c] % 64
                              ELSE (b[o + 4 + c] % 16) + high(o, c)],
         m  |-> [c \in L8 |-> IF c < 4 THEN b[o + 4 + c] % 64
                              ELSE (Shr(b, o + 8, c - 4, 4, 4) % 16) + high(o + 4, c)]]

(* Low nibbles of a 64-quant chunk, then its high ones, with the fifth     *)
(* bits 2chunk and 2chunk + 1 of the same bytes of qh.                     *)
a64Kx8Quant(L, b, c, chunk, nib, k, m) ==
    LET q == OfPair(b, L.qsOff + 256 * chunk + 64 * k, c, m)
        h == OfPair(b, L.qhOff + 64 * k, c, m) \div 2^(2 * chunk)
        nibble == IF nib = 0 THEN q % 16 ELSE q \div 16
    IN  IF ~L.fifth THEN nibble
        ELSE nibble + (IF nib = 0 THEN Bits(h, 0, 1) * 2^4 ELSE (Bits(h, 1, 1) * 2) * 2^3)

a64Kx8Form(L, b, c, y, yd, mins, ldy) ==
    LET scale(chunk, nib) == q4Kx8ScalesMins(b, L.scalesOff + 24 * chunk + 12 * nib).sc[c]
        dot(chunk, nib, k) == DotOn(y[8 * chunk + 4 * nib + k], yd,
                                    [m \in L8 |-> a64Kx8Quant(L, b, c, chunk, nib, k, m)],
                                    scale(chunk, nib))
    IN  [Form({dot(chunk, nib, k) : chunk \in L4, nib \in 0 .. 1, k \in L4}, F16(b, 2 * c),
              Ld(8, {0, 8, 16, 24}) \cup Ld(4, {L.scalesOff + 4 * n : n \in 0 .. 23})
              \cup PairLoads(L.qsOff, c, L16)
              \cup (IF L.fifth THEN PairLoads(L.qhOff, c, L4) ELSE {}))
         EXCEPT !.mins = mins, !.dmin = F16(b, 16 + 2 * c), !.ldy = ldy]

MinsOf(L, b, c) == [j \in L8 |-> -q4Kx8ScalesMins(b, L.scalesOff + 12 * j).m[c]]

(* ADDP leaves the sum of sub-block j in lane j of v6.                     *)
a64GemvKx8Kernel(L, b, c) ==
    LET a == Activations.q8_K
    IN  a64Kx8Form(L, b, c, GemvY(a), 0,
            ByBlockSum(a, 0, 2, [j \in L8 |-> j], MinsOf(L, b, c)), BSums)

(* Quarter q's pairs are in v(8 + q), the two of row r in lanes 2r, 2r + 1. *)
a64GemmKx8Kernel(L, b, c, r) ==
    LET a == Activations.q8_Kx4
    IN  a64Kx8Form(L, b, c, GemmY(a, r), 4 * r,
            ByBlockSum(a, r, 2, [j \in L8 |-> 8 * (j \div 2) + 2 * r + (j % 2)], MinsOf(L, b, c)),
            Ld(16, {1040 + 16 * n : n \in L8}))

-----------------------------------------------------------------------------
(* q6_K: per half of the block four pairs of 16-quant sub-blocks, the low  *)
(* nibbles under the qh bits 0-1 (2-3 from the third pair on) and the high *)
(* ones under bits 4-5 (6-7).                                              *)
a64Q6Quant(b, c, half, sbk, hi, k, m) ==
    LET ql == OfPair(b, q6Kx8.qlOff + 512 * half + 128 * sbk + 64 * k, c, m)
        qh == OfPair(b, q6Kx8.qhOff + 256 * half + 128 * (sbk % 2) + 64 * k, c, m)
              \div (IF sbk < 2 THEN 1 ELSE 4)
    IN  IF hi = 0 THEN (ql % 16) + (qh % 4) * 2^4 ELSE ql \div 16 + Bits(qh, 4, 2) * 16

a64Q6Scale(b, c, j) == I8(b[q6Kx8.scalesOff + 8 * j + c])

a64Q6Form(b, c, y, yd, centre) ==
    LET dot(half, sbk, hi, k) ==
            DotOn(y[16 * half + 2 * sbk + 8 * hi + k], yd,
                  [m \in L8 |-> a64Q6Quant(b, c, half, sbk, hi, k, m) - centre],
                  a64Q6Scale(b, c, 8 * half + sbk + 4 * hi))
    IN  Form({dot(half, sbk, hi, k) : half, hi, k \in 0 .. 1, sbk \in L4}, F16(b, 2 * c),
             Ld(8, {0, 8}) \cup Ld(8, {q6Kx8.scalesOff + 8 * j : j \in L16})
             \cup PairLoads(q6Kx8.qlOff, c, L16) \cup PairLoads(q6Kx8.qhOff, c, L8))

(* The quants stay unsigned; 32 times the scaled block sums come off.      *)
a64GemvQ6K8x8Kernel(b, c) ==
    LET a == Activations.q8_K
        f == a64Q6Form(b, c, GemvY(a), 0, 0)
    IN  [f EXCEPT !.bias = ByBlockSum(a, 0, 1, [j \in L16 |-> j],
                                      [j \in L16 |-> -(a64Q6Scale(b, c, j) * 2^5)]),
                  !.ldy = BSums]

(* The quants are centred before the dot.                                  *)
a64GemmQ6K8x8Kernel(b, c, r) == a64Q6Form(b, c, GemmY(Activations.q8_Kx4, r), 4 * r, 32)

-----------------------------------------------------------------------------
(* The 32-quant formats.  Load n holds columns 2(n % 4) and the next, the  *)
(* low nibbles quants 8(n \div 4) on, the high ones 16 later; byte 4n of qh *)
(* has the fifth bits of the four runs.                                    *)
unpackL(L, b, c, n, hi, m) ==
    LET o == L.qsOff + 16 * n
        byte == Unflipped(L, b[o + 8 * (c % 2) + m])
        nibble == IF hi = 0 THEN byte % 16 ELSE byte \div 16
        fifth == Bits(b[L.qhOff + 4 * n + 2 * hi + (c % 2)], m, 1)
    IN  CASE Signed(L) -> L.lut[1 + nibble]
          [] L.fifth -> nibble + 16 * fifth
          [] ~Signed(L) /\ ~L.fifth -> nibble

a64X8Form(L, b, c, y, yd) ==
    LET runs == {n \in L8 : n % 4 = c \div 2}
        dot(n, hi) == DotOn(y[n \div 4 + 2 * hi], yd,
                            [m \in L8 |-> unpackL(L, b, c, n, hi, m)], 1)
    IN  Form({dot(n, hi) : n \in runs, hi \in 0 .. 1}, x8Scales(L, b, c),
             Ld(8, IF L.e8m0 THEN {0} ELSE {0, 8})
             \cup Ld(16, {L.qsOff + 16 * n : n \in runs})
             \cup (IF L.fifth THEN Ld(4, {L.qhOff + 4 * n : n \in runs}) ELSE {}))

a64GemvX8Kernel(L, b, c) ==
    [a64X8Form(L, b, c, GemvY(Activations.q8_0), 0)
     EXCEPT !.bias = x8Bias(L, 0, 0),
            !.ldy = {<<0, 2>>} \cup (IF Signed(L) THEN {} ELSE Ld(16, {2, 18}))]

(* ADDP and two broadcasts: v22 and v23 hold the sums of rows 0, 1 and 2,  *)
(* 3, each twice, as the rows of the SMMLA tiles stand.                    *)
a64GemmX8Kernel(L, b, c, r) ==
    LET subtracted == 2 * (r \div 2) + (r % 2)
    IN  [a64X8Form(L, b, c, GemmY(Activations.q8_0x4by8, r), 2 * r)
         EXCEPT !.bias = x8Bias(L, subtracted, r), !.ldy = Ld(8, {0})]

-----------------------------------------------------------------------------
(* q8_0, four columns in runs of four bytes.                               *)
QuadOf(b, g, c) == [m \in L4 |-> I8(b[8 + 16 * g + 4 * c + m])]

a64RepackLoads == Ld(8, {0}) \cup Ld(16, {8 + 16 * g : g \in L8})

(* By-element SDOT: lane g % 4 of the activation register g \div 4.         *)
a64RepackGemvKernel(b, c) ==
    [Form({Dot(2 + 16 * (g \div 4) + 4 * (g % 4), QuadOf(b, g, c), 1) : g \in L8},
          F16(b, 2 * c), a64RepackLoads)
     EXCEPT !.ldy = {<<0, 2>>}]

(* i8mm: two runs zipped into eight bytes of a column, and the same of a   *)
(* row; dotprod: a run at a time.                                          *)
a64RepackGemmKernel(feature, b, c, r) ==
    LET zipped(p, h) == DotOn(8 + 32 * p + 16 * h + 4 * r, 2 * r, QuadOf(b, 2 * p + h, c), 1)
        single(g) == DotOn(8 + 16 * g + 4 * r, 2 * r, QuadOf(b, g, c), 1)
    IN  [Form(IF feature = "i8mm" THEN {zipped(p, h) : p \in L4, h \in 0 .. 1}
              ELSE {single(g) : g \in L8}, F16(b, 2 * c), a64RepackLoads)
         EXCEPT !.ldy = Ld(8, {0})]
=============================================================================
