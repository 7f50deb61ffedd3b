------------------------------- MODULE DotA64 -------------------------------
(***************************************************************************)
(* The row dots of the arm64 kernels, one operator per generator of        *)
(* kernels/internal/asm/vecdot_*_a64.go: the linear form (module Lanes) of *)
(* the block body the generator emits.  The loops around the body, the     *)
(* prologue and the stores are module VecDot.                              *)
(*                                                                         *)
(* Shifts are USHR/SHL on bytes, so nothing crosses a byte here; the scale *)
(* words of the K formats go through 32-bit general registers and do.      *)
(***************************************************************************)
EXTENDS Lanes

-----------------------------------------------------------------------------
(* Formats of 32 quants: q4_0, q8_0, q5_0, q4_1, q5_1, iq4_nl, mxfp4.      *)

a64VecDotLegacy(kind, b) ==
    LET lo == [m \in L16 |-> IF kind = "q8_0" THEN I8(b[2 + m])
                             ELSE (b[2 + m] % 16) - 8]
        hi == [m \in L16 |-> IF kind = "q8_0" THEN I8(b[18 + m])
                             ELSE b[2 + m] \div 16 - 8]
    IN  Form({Dot(2, lo, 1), Dot(18, hi, 1)}, F16(b, 0),
             Ld(2, {0}) \cup Ld(16, IF kind = "q8_0" THEN {2, 18} ELSE {2}))

(* TBL spreads byte m \div 8 of the bits at o over the lanes and CMTST     *)
(* tests bit m % 8.                                                        *)
FifthBit(b, o, m) == Bits(b[o + m \div 8], m % 8, 1)

a64VecDotQ5_0Kernel(b) ==
    LET clear16(o, m) == IF FifthBit(b, o, m) = 1 THEN 0 ELSE 16
        lo == [m \in L16 |-> (b[6 + m] % 16) - clear16(2, m)]
        hi == [m \in L16 |-> b[6 + m] \div 16 - clear16(4, m)]
    IN  Form({Dot(2, lo, 1), Dot(18, hi, 1)}, F16(b, 0),
             {<<0, 2>>, <<2, 4>>, <<6, 16>>})

a64VecDotQx1Kernel(fifth, b) ==
    LET qs == IF fifth THEN 8 ELSE 4
        set16(o, m) == IF fifth THEN 16 * FifthBit(b, o, m) ELSE 0
        lo == [m \in L16 |-> (b[qs + m] % 16) + set16(4, m)]
        hi == [m \in L16 |-> b[qs + m] \div 16 + set16(6, m)]
    IN  [Form({Dot(4, lo, 1), Dot(20, hi, 1)}, F16(b, 0),
              {<<0, 2>>, <<2, 2>>, <<qs, 16>>}
                  \cup (IF fifth THEN {<<4, 4>>} ELSE {}))
         EXCEPT !.mins = [k \in Quants |-> 1], !.dmin = F16(b, 2),
                !.ldy = {<<2, 2>>}]

(* 2^(e - 128) as float bits, halved to match the doubled fp4 table.       *)
E8M0Half(e) == IF e < 2 THEN 2097152 * 2^e ELSE (e - 1) * 2^23

a64VecDotLUT32(name, b) ==
    LET qs  == IF name = "mxfp4" THEN 1 ELSE 2
        tbl == IF name = "mxfp4" THEN kvaluesFP4 ELSE kvaluesIQ4NL
        lo  == [m \in L16 |-> tbl[1 + (b[qs + m] % 16)]]
        hi  == [m \in L16 |-> tbl[1 + b[qs + m] \div 16]]
        d   == IF name = "mxfp4" THEN <<"f32", E8M0Half(b[0])>> ELSE F16(b, 0)
    IN  Form({Dot(2, lo, 1), Dot(18, hi, 1)}, d,
             {<<0, IF name = "mxfp4" THEN 1 ELSE 2>>, <<qs, 16>>})

-----------------------------------------------------------------------------
(* The K formats: 256 quants, integer scales per sub-block.                *)

(* The 6-bit scales and mins of q4_K and q5_K, unpacked four at a time in  *)
(* 32-bit registers from the words at 4, 8 and 12.                         *)
q4KScalesMins(b) ==
    LET high(o, i) == (Shr(b, o, i, 6, 4) % 4) * 16
    IN  [sc |-> [i \in L8 |-> IF i < 4 THEN b[4 + i] % 64
                              ELSE (b[8 + i] % 16) + high(4, i - 4)],
         m  |-> [i \in L8 |-> IF i < 4 THEN b[8 + i] % 64
                              ELSE (Shr(b, 12, i - 4, 4, 4) % 16) + high(8, i - 4)]]

(* ADDP adds the bsums in pairs, one sum per sub-block of 32.              *)
MinTerms(m) == [k \in Quants |-> -m[k \div 32]]

(* Step j multiplies 64 activations: the low nibbles of 32 bytes, then     *)
(* their high nibbles, two 16-lane dots each under one scale.              *)
KNibbles(b, qs, sc, lowBit(_, _), highBit(_, _)) ==
    {Dot(4 + 64 * j + 16 * k,
         [m \in L16 |->
             IF k < 2 THEN (b[qs + 32 * j + 16 * k + m] % 16)
                           + lowBit(j, 16 * k + m)
             ELSE b[qs + 32 * j + 16 * (k - 2) + m] \div 16
                           + highBit(j, 16 * (k - 2) + m)],
         sc[2 * j + k \div 2]) : j \in L4, k \in L4}

KBlock(b, dots, m, ld) ==
    [Form(dots, F16(b, 0), ld \cup {<<0, 2>>, <<2, 2>>} \cup Ld(4, {4, 8, 12}))
     EXCEPT !.mins = MinTerms(m), !.dmin = F16(b, 2), !.ldy = BSums]

NoBit(j, m) == 0

a64VecDotQ4_KKernel(b) ==
    LET k == q4KScalesMins(b)
    IN  KBlock(b, KNibbles(b, 16, k.sc, NoBit, NoBit), k.m,
               Ld(16, {16 + 16 * i : i \in L8}))

(* The 2x2 tile: accumulator t takes weight row t % 2 and activation row   *)
(* t \div 2, with the scales and mins of its own weight row.               *)
Tile(body(_), x) ==
    [t \in L4 |-> [xrow |-> t % 2, yrow |-> t \div 2, form |-> body(x[t % 2])]]

(* Mutant: both rows of the tile under the scales of the first.             *)
a64VecDotQ4_KTile_FirstScales(x) ==
    LET body(b) == LET k == q4KScalesMins(x[0])
                   IN  KBlock(b, KNibbles(b, 16, k.sc, NoBit, NoBit), k.m,
                              Ld(16, {16 + 16 * i : i \in L8}))
    IN  Tile(body, x)

a64VecDotQ4_KTile(x) ==
    LET body(b) == LET k == q4KScalesMins(b)
                   IN  KBlock(b, KNibbles(b, 16, k.sc, NoBit, NoBit), k.m,
                              Ld(16, {16 + 16 * i : i \in L8}))
    IN  Tile(body, x)

(* One register of qh, shifted right by two after every step, gives the    *)
(* fifth bits.                                                             *)
a64VecDotQ5_KKernel(b) ==
    LET k  == q4KScalesMins(b)
        qh(j, m) == b[16 + m] \div 4^j
        low(j, m)  == (qh(j, m) % 2) * 16
        high(j, m) == Bits(qh(j, m), 1, 1) * 2 * 8
    IN  KBlock(b, KNibbles(b, 48, k.sc, low, high), k.m,
               Ld(16, {16, 32} \cup {48 + 16 * i : i \in L8}))

(* The tile reloads qh for each use and shifts it by 2j.                   *)
a64Q5Fifth(b, j, m, bit, sh) ==
    LET v == b[16 + m] \div 2^(2 * j)
    IN  IF bit = 1 THEN (v % 2) * 2^sh ELSE Bits(v, 1, 1) * 2 * 2^sh

a64VecDotQ5_KTile(x) ==
    LET body(b) ==
            LET k == q4KScalesMins(b)
                low(j, m)  == a64Q5Fifth(b, j, m, 1, 4)
                high(j, m) == a64Q5Fifth(b, j, m, 2, 3)
            IN  KBlock(b, KNibbles(b, 48, k.sc, low, high), k.m,
                       Ld(16, {16, 32} \cup {48 + 16 * i : i \in L8}))
    IN  Tile(body, x)

(* q6_K: 16 signed scales; the -32 of every quant goes through the bsums.  *)
Q6KBlock(b, dots) ==
    [Form(dots, F16(b, 208),
          {<<208, 2>>} \cup Ld(16, {192} \cup {16 * i : i \in 0 .. 11}))
     EXCEPT !.bias = [k \in Quants |-> -32 * I8(b[192 + k \div 16])],
            !.ldy = BSums]

(* Six bits of a quant: a nibble and, over it, two of the high bits.        *)
a64Q6Pair(q, p, k) == IF p = 0 THEN IF k < 2 THEN q % 4 ELSE (q \div 4) % 4
                      ELSE IF k < 2 THEN (q \div 16) % 4 ELSE q \div 64
a64Q6Whole(l, q, p, k) == (IF p = 0 THEN l % 16 ELSE l \div 16) + a64Q6Pair(q, p, k) * 16
a64Q6Dot(b, j, p, k) ==
    Dot(4 + 128 * j + 64 * p + 16 * k,
        [m \in L16 |-> a64Q6Whole(b[64 * j + 16 * k + m],
                                  b[128 + 32 * j + 16 * (k % 2) + m], p, k)],
        I8(b[192 + 8 * j + 4 * p + k]))

a64VecDotQ6_KKernel(b) ==
    Q6KBlock(b, {a64Q6Dot(b, j, p, k) : j \in 0 .. 1, p \in 0 .. 1, k \in L4})

(* The tile masks the shifted high bits with 0x30 in place.                *)
a64Q6Shifted(q, p, k) == IF p = 0 THEN q * (IF k < 2 THEN 16 ELSE 4)
                         ELSE IF k < 2 THEN q ELSE q \div 4
a64Q6Masked(l, q, p, k) ==
    LET mask30(v) == Bits(v % 256, 4, 2) * 16
    IN  Bits(l, 4 * p, 4) + mask30(a64Q6Shifted(q, p, k))
a64Q6TileDot(b, j, p, k) ==
    Dot(4 + 128 * j + 64 * p + 16 * k,
        [m \in L16 |-> a64Q6Masked(b[64 * j + 16 * k + m],
                                   b[128 + 32 * j + 16 * (k % 2) + m], p, k)],
        I8(b[192 + 8 * j + 4 * p + k]))

a64VecDotQ6_KTile(x) ==
    LET body(b) ==
            Q6KBlock(b, {a64Q6TileDot(b, j, p, k) : j \in 0 .. 1, p \in 0 .. 1, k \in L4})
    IN  Tile(body, x)

(* q2_K: scales in the low nibbles, mins in the high ones.                 *)
a64VecDotQ2_KKernel(b) ==
    [Form({Dot(4 + 128 * j + 32 * s + 16 * h,
               [m \in L16 |-> (b[16 + 32 * j + 16 * h + m] \div 2^(2 * s)) % 4],
               b[8 * j + 2 * s + h] % 16) : j \in 0 .. 1, s \in L4, h \in 0 .. 1},
          F16(b, 80), Ld(16, {16 * i : i \in 0 .. 4}) \cup Ld(2, {80, 82}))
     EXCEPT !.mins = Sums16([i \in L16 |-> -(b[i] \div 16)]),
            !.dmin = F16(b, 82), !.ldy = BSums]

(* q3_K: sixteen 6-bit scales from the words at 96, 100 and 104, centred.  *)
q3KScales(b) ==
    [i \in L16 |->
        LET w == i \div 4
            nibble == Shr(b, 96 + 4 * (w % 2), i % 4, 4 * (w \div 2), 4) % 16
            high   == Shr(b, 104, i % 4, 2 * w, 4) % 4
        IN  nibble + high * 16 - 32]

a64VecDotQ3_KKernel(b) ==
    LET sc == q3KScales(b)
        third(j, s, m) == (b[m] \div 2^(4 * j + s)) % 2
    IN  [Form({Dot(4 + 128 * j + 32 * s + 16 * h,
                   [m \in L16 |->
                       ((b[32 + 32 * j + 16 * h + m] \div 2^(2 * s)) % 4)
                       + third(j, s, 16 * h + m) * 4],
                   sc[8 * j + 2 * s + h]) : j \in 0 .. 1, s \in L4, h \in 0 .. 1},
              F16(b, 108), {<<108, 2>>} \cup Ld(4, {96, 100, 104})
                  \cup Ld(16, {16 * i : i \in 0 .. 5}))
         EXCEPT !.bias = Sums16([i \in L16 |-> -4 * sc[i]]), !.ldy = BSums]

(* iq4_xs: the 6-bit scale of a sub-block is a nibble of scales_l under    *)
(* two bits of scales_h; both words move down after each pair.             *)
a64VecDotIQ4XSKernel(b) ==
    LET h(p)  == U16(b, 2) \div 16^p
        sl(p) == b[4 + p]
        ls(p, odd) == IF odd = 0 THEN (sl(p) % 16) + (h(p) % 4) * 16 - 32
                      ELSE sl(p) \div 16 + Bits(h(p) * 4, 4, 2) * 16 - 32
        nibble(p, odd, half, m) ==
            Bits(b[8 + 32 * p + 16 * odd + m], 4 * half, 4)
    IN  Form({Dot(4 + 64 * p + 32 * odd + 16 * half,
                  [m \in L16 |-> kvaluesIQ4NL[1 + nibble(p, odd, half, m)]],
                  ls(p, odd)) : p \in L4, odd \in 0 .. 1, half \in 0 .. 1},
             F16(b, 0), {<<0, 2>>, <<2, 2>>, <<4, 4>>}
                 \cup Ld(16, {8 + 16 * i : i \in L8}))

-----------------------------------------------------------------------------
(* The codebook formats: eight sub-blocks of 32, each two 16-lane dots of  *)
(* codebook magnitudes times signs.                                        *)

GridDots(mag(_, _), sign(_, _), ls(_, _)) ==
    {Dot(4 + 32 * ib + 16 * h,
         [m \in L16 |-> mag(ib, 16 * h + m) * sign(ib, 16 * h + m)],
         ls(ib, h)) : ib \in L8, h \in 0 .. 1}

a64VecDotIQ3XXSKernel(b) ==
    LET aux(ib) == 66 + 4 * ib
        mag(ib, m)  == Grid("iq3_xxs", b[2 + 8 * ib + m \div 4], m % 4)
        sign(ib, m) == kevenSigns(Field(b, aux(ib), 7 * (m \div 8), 7), m % 8)
        ls(ib, h)   == 2 * (b[aux(ib) + 3] \div 16) + 1
    IN  [Form(GridDots(mag, sign, ls), F16(b, 0),
              {<<0, 2>>} \cup Ld(8, {2 + 8 * ib : ib \in L8})
                         \cup Ld(4, {aux(ib) : ib \in L8})) EXCEPT !.den = 4]

a64VecDotIQ3SKernel(b) ==
    LET index(ib, k) == b[2 + 8 * ib + k] + 256 * Bits(b[66 + ib], k, 1)
        mag(ib, m)   == Grid("iq3_s", index(ib, m \div 4), m % 4)
        sign(ib, m)  == SignBit(b[74 + 4 * ib + m \div 8], m % 8)
        ls(ib, h)    == 2 * Bits(b[106 + ib \div 2], 4 * (ib % 2), 4) + 1
    IN  Form(GridDots(mag, sign, ls), F16(b, 0),
             {<<0, 2>>} \cup Ld(8, {2 + 8 * ib : ib \in L8})
                 \cup Ld(1, {66 + ib : ib \in L8} \cup {106 + i : i \in L4})
                 \cup Ld(4, {74 + 4 * ib : ib \in L8}))

(* The three 2-bit formats differ in where the index, the signs and the    *)
(* scales of a group of eight are.                                         *)
a64VecDotIQ2(name, b) ==
    LET q(ib) == 2 + 8 * ib
        index(ib, l) ==
            CASE name = "iq2_xxs" -> Field(b, q(ib), 8 * l, 8)
              [] name = "iq2_xs"  -> Field(b, q(ib), 16 * l, 9)
              [] name = "iq2_s"   -> b[2 + 4 * ib + l] + 256 * Bits(b[66 + ib], 2 * l, 2)
        sign(ib, m) ==
            CASE name = "iq2_xxs" -> kevenSigns(Field(b, q(ib), 32 + 7 * (m \div 8), 7), m % 8)
              [] name = "iq2_xs"  -> kevenSigns(Field(b, q(ib), 16 * (m \div 8) + 9, 7), m % 8)
              [] name = "iq2_s"   -> SignBit(b[34 + 4 * ib + m \div 8], m % 8)
        mag(ib, m) == Grid(name, index(ib, m \div 8), m % 8)
        scale == IF name = "iq2_s" THEN 74 ELSE 66
        ls(ib, h) == IF name = "iq2_xxs" THEN 2 * Bits(b[q(ib) + 7], 4, 4) + 1
                     ELSE 2 * Bits(b[scale + ib], 4 * h, 4) + 1
    IN  [Form(GridDots(mag, sign, ls), F16(b, 0),
              {<<0, 2>>} \cup
              (IF name = "iq2_s"
               THEN Ld(4, {2 + 4 * ib : ib \in L8} \cup {34 + 4 * ib : ib \in L8})
                    \cup Ld(1, {66 + ib : ib \in L8})
               ELSE Ld(8, {q(ib) : ib \in L8}))
              \cup (IF name = "iq2_xxs" THEN {} ELSE Ld(1, {scale + ib : ib \in L8})))
         EXCEPT !.den = 8]

(* iq1: ternary codebook entries with a delta of an eighth of the scale,   *)
(* by the bsums in iq1_s ...                                               *)
a64VecDotIQ1SKernel(b) ==
    LET qh(ib) == 34 + 2 * ib
        index(ib, l) == b[2 + 4 * ib + l] + 256 * Field(b, qh(ib), 3 * l, 3)
        mag(ib, m)   == Grid("iq1", index(ib, m \div 8), m % 8)
        ls(ib, h)    == 2 * Field(b, qh(ib), 12, 3) + 1
        delta(ib)    == IF Field(b, qh(ib), 15, 1) = 1 THEN -ls(ib, 0) ELSE ls(ib, 0)
    IN  [Form(GridDots(mag, One, ls), F16(b, 0),
              {<<0, 2>>} \cup Ld(4, {2 + 4 * ib : ib \in L8}) \cup Ld(2, {qh(ib) : ib \in L8}))
         EXCEPT !.bias = [k \in Quants |-> delta(k \div 32)], !.bden = 8,
                !.ldy = {<<260 + 4 * ib, 4>> : ib \in L8}]

(* ... and by a dot with +-1 bytes in iq1_m, whose block scale is the top  *)
(* nibbles of its four scale words.                                        *)
iq1mScale(b) ==
    LET v == U16(b, 48) \div 2^12 + Bits(U16(b, 50) \div 2^8, 4, 4) * 16
             + Bits(U16(b, 52) \div 2^4, 8, 4) * 256 + Bits(U16(b, 54), 12, 4) * 4096
    IN  <<"f16", v % 256, v \div 256>>

a64VecDotIQ1MKernel(b) ==
    LET qh(ib) == 32 + 2 * ib
        index(ib, l) == b[4 * ib + l] + 256 * Field(b, qh(ib), 4 * l, 3)
        mag(ib, m)   == Grid("iq1", index(ib, m \div 8), m % 8)
        ls(ib, h)    == 2 * Field(b, 48 + 2 * (ib \div 2), 6 * (ib % 2) + 3 * h, 3) + 1
        flag(ib, m)  == LET byte == b[qh(ib) + m \div 16]    \* one qh byte a vector
                        IN  IF m % 16 < 8 THEN Bits(byte, 3, 1) ELSE Bits(byte, 7, 1)
        delta(ib, m) == IF flag(ib, m) = 1 THEN -1 ELSE 1
    IN  [Form(GridDots(mag, One, ls), iq1mScale(b),
              Ld(4, {4 * ib : ib \in L8}) \cup Ld(2, {qh(ib) : ib \in L8})
              \cup Ld(2, {48, 50, 52, 54}))
         EXCEPT !.bias = [k \in Quants |-> delta(k \div 32, k % 32)
                                           * ls(k \div 32, (k % 32) \div 16)],
                !.bden = 8]

-----------------------------------------------------------------------------
(* Ternary, binary and fp4 formats.                                        *)

a64VecDotTQ2_0Kernel(b) ==
    Form({Dot(4 + 128 * j + 32 * l + 16 * h,
              [m \in L16 |-> ((b[32 * j + 16 * h + m] \div 2^(2 * l)) % 4) - 1], 1)
            : j \in 0 .. 1, l \in L4, h \in 0 .. 1},
         F16(b, 64), {<<64, 2>>} \cup Ld(16, {0, 16, 32, 48}))

(* Mutant: the first threshold is taken strictly.                          *)
Digit_Strict(q, l) ==
    LET v == (q * 3^l) % 256
    IN  (IF v > 86 THEN 1 ELSE 0) + (IF v >= 171 THEN 1 ELSE 0) - 1

(* Digit l of a byte, base 3: the byte times 3^l modulo 256, compared with *)
(* the two thresholds of its top two bits times three.                     *)
Digit(q, l) ==
    LET v == (q * 3^l) % 256
        cmhs(t) == IF v >= t THEN -1 ELSE 0
    IN  -(cmhs(86) + cmhs(171)) - 1

a64VecDotTQ1_0Kernel(b) ==
    LET lanes(first, n, l) == [m \in 0 .. n - 1 |-> Digit(b[first + m], l)]
    IN  Form({Dot(4 + 32 * l + 16 * h, lanes(16 * h, 16, l), 1) : l \in 0 .. 4, h \in 0 .. 1}
             \cup {Dot(4 + 160 + 16 * l, lanes(32, 16, l), 1) : l \in 0 .. 4}
             \cup {Dot(244 + 4 * l, lanes(48, 4, l), 1) : l \in L4},
             F16(b, 52), {<<52, 2>>, <<48, 4>>} \cup Ld(16, {0, 16, 32}))

(* Mutant: the scale of the first activation block for all four.           *)
a64VecDotQ1_0Kernel_OneScale(b) ==
    Form({DotOn(34 * k + 2 + 16 * h, 0,
                [m \in L16 |-> SignBit(b[2 + 4 * k + 2 * h + m \div 8], m % 8)], -1)
            : k \in L4, h \in 0 .. 1},
         F16(b, 0), {<<0, 2>>} \cup Ld(4, {2 + 4 * k : k \in L4}))

(* The weight is the negated sign, and the product is subtracted.          *)
a64VecDotQ1_0Kernel(b) ==
    Form({DotOn(34 * k + 2 + 16 * h, 34 * k,
                [m \in L16 |-> SignBit(b[2 + 4 * k + 2 * h + m \div 8], m % 8)], -1)
            : k \in L4, h \in 0 .. 1},
         F16(b, 0), {<<0, 2>>} \cup Ld(4, {2 + 4 * k : k \in L4}))

a64VecDotQ2_0Kernel(b) ==
    Form({DotOn(34 * k + 2 + 16 * h, 34 * k,
                [m \in L16 |-> ((b[2 + 8 * k + 4 * h + m \div 4] \div 2^(2 * (m % 4))) % 4) - 1],
                1) : k \in 0 .. 1, h \in 0 .. 1},
         F16(b, 0), {<<0, 2>>} \cup Ld(8, {2, 10}))

a64VecDotNVFP4Kernel(b) ==
    LET q8(s) == s \div 2
    IN  [Form({DotOn(34 * q8(s) + 2 + (s % 2) * 16 + 8 * h, 34 * q8(s),
                     [m \in L8 |-> kvaluesFP4[1 + Bits(b[4 + 8 * s + m], 4 * h, 4)]],
                     ue4m3ToF32(b[s])) : s \in L4, h \in 0 .. 1},
              <<>>, Ld(1, L4) \cup Ld(8, {4 + 8 * s : s \in L4})) EXCEPT !.den = 1024]
=============================================================================
