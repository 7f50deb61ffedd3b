------------------------------- MODULE DotX64 -------------------------------
(***************************************************************************)
(* The row dots of the AVX2 kernels: the linear form of the block body of  *)
(* every generator of kernels/internal/asm/vecdot_quant_x64.go,            *)
(* vecdot_iq1_x64.go and vecdot_ternary_x64.go.                            *)
(*                                                                         *)
(* AVX2 has no byte shift: VPSRLW shifts 16-bit lanes, and the masks have  *)
(* to remove what leaks in from the neighbouring byte.  It has no signed   *)
(* byte dot either: VPMADDUBSW multiplies unsigned by signed bytes and     *)
(* saturates the sum of each pair at 16 bits.                              *)
(***************************************************************************)
EXTENDS Lanes

(* A dot of a 32-byte register: its two halves may be scaled apart.        *)
Dots32(y, w(_), s(_)) ==
    {DotOn(y + 16 * h, 0, [m \in L16 |-> w(16 * h + m)], s(h)) : h \in 0 .. 1}

Unscaled(h) == 1

(* Sixteen bytes as 32 nibbles: the bytes, and their VPSRLW by four above, *)
(* both masked.                                                            *)
Nibbles32(b, o, m) == IF m < 16 THEN b[o + m] % 16 ELSE Shr(b, o, m - 16, 4, 2) % 16

(* VPSHUFB spreads byte m \div 8 of the four at o; OR with all bits but    *)
(* m % 8 and compare with all ones.                                        *)
BitOf32(b, o, m) == Bits(b[o + m \div 8], m % 8, 1)

-----------------------------------------------------------------------------
x64VecDotQ5_0Kernel(b) ==
    LET q(m) == LET low  == Nibbles32(b, 6, m)
                    high == IF BitOf32(b, 2, m) = 1 THEN 0 ELSE 15 * 16
                IN  I8(low + high)
    IN  SignedPairs(Form(Dots32(2, q, Unscaled), F16(b, 0),
                         {<<0, 2>>, <<2, 4>>, <<6, 16>>}))

(* The constant 8 is 0x10 in every byte shifted right by one as words.     *)
x64VecDotLegacy(kind, b) ==
    LET eight == Shr([i \in 0 .. 1 |-> 16], 0, 0, 1, 2)
        q(m) == IF kind = "q8_0" THEN I8(b[2 + m])
                ELSE Nibbles32(b, 2, m) - eight
    IN  SignedPairs(Form(Dots32(2, q, Unscaled), F16(b, 0),
                         {<<0, 2>>, <<2, IF kind = "q8_0" THEN 32 ELSE 16>>}))

x64VecDotQx1Kernel(fifth, b) ==
    LET qs == IF fifth THEN 8 ELSE 4
        q(m) == Nibbles32(b, qs, m) + (IF fifth THEN 16 * BitOf32(b, 4, m) ELSE 0)
    IN  [UnsignedPairs(Form(Dots32(4, q, Unscaled), F16(b, 0),
             {<<0, 2>>, <<2, 2>>, <<qs, 16>>} \cup (IF fifth THEN {<<4, 4>>} ELSE {})))
         EXCEPT !.mins = [k \in Quants |-> 1], !.dmin = F16(b, 2), !.ldy = {<<2, 2>>}]

(* IMUL and ADD give 0x00200000 << e for e = 0 and 1 only, which is where  *)
(* the conditional move takes it.                                          *)
x64E8M0Half(e) == IF e < 2 THEN 2097152 * e + 2097152 ELSE (e - 1) * 2^23

x64VecDotLUT32(name, b) ==
    LET qs  == IF name = "mxfp4" THEN 1 ELSE 2
        tbl == IF name = "mxfp4" THEN kvaluesFP4 ELSE kvaluesIQ4NL
        q(m) == tbl[1 + Nibbles32(b, qs, m)]
        d   == IF name = "mxfp4" THEN <<"f32", x64E8M0Half(b[0])>> ELSE F16(b, 0)
    IN  SignedPairs(Form(Dots32(2, q, Unscaled), d,
                         {<<0, IF name = "mxfp4" THEN 1 ELSE 2>>, <<qs, 16>>}))

x64VecDotIQ4XSKernel(b) ==
    LET p(ib) == ib \div 2
        h(ib) == U16(b, 2) \div 16^p(ib)
        ls(ib) == IF ib % 2 = 0
                  THEN (b[4 + p(ib)] % 16) + Bits(h(ib) * 16, 4, 2) * 16 - 32
                  ELSE Bits(b[4 + p(ib)], 4, 4) + Bits(h(ib) * 4, 4, 2) * 16 - 32
        dots(ib) == LET q(m) == kvaluesIQ4NL[1 + Nibbles32(b, 8 + 16 * ib, m)]
                        s(half) == ls(ib)
                    IN  Dots32(4 + 32 * ib, q, s)
    IN  SignedPairs(Form(UNION {dots(ib) : ib \in L8}, F16(b, 0),
            {<<0, 2>>, <<2, 2>>, <<4, 4>>} \cup Ld(16, {8 + 16 * ib : ib \in L8})))

-----------------------------------------------------------------------------
(* The K formats.                                                          *)

(* The scales and mins of q4_K and q5_K from three 32-bit registers.  The  *)
(* generators of both formats spell the same instructions out.             *)
x64ScalesMins(b) ==
    LET high(o, i) == (Shr(b, o, i, 6, 4) % 4) * 16
    IN  [sc |-> [i \in L8 |-> IF i < 4 THEN b[4 + i] % 64
                              ELSE (b[12 + i - 4] % 16) + high(4, i - 4)],
         m  |-> [i \in L8 |-> IF i < 4 THEN b[8 + i] % 64
                              ELSE (Shr(b, 12, i - 4, 4, 4) % 16) + high(8, i - 4)]]

(* Low nibbles of 32 bytes, then their high ones, each 32-lane dot under   *)
(* its own scale; VPHADDW pairs the bsums for the mins.                    *)
x64KBlock(b, qs, low(_, _), high(_, _), ld) ==
    LET k == x64ScalesMins(b)
        dots(j, half) ==
            LET q(m) == IF half = 0 THEN (b[qs + 32 * j + m] % 16) + low(j, m)
                        ELSE (Shr(b, qs + 32 * j, m, 4, 2) % 16) + high(j, m)
                s(h) == k.sc[2 * j + half]
            IN  Dots32(4 + 64 * j + 32 * half, q, s)
    IN  [UnsignedPairs(Form(UNION {dots(j, half) : j \in L4, half \in 0 .. 1},
            F16(b, 0), {<<0, 2>>, <<2, 2>>} \cup Ld(4, {4, 8, 12}) \cup ld
                       \cup Ld(32, {qs + 32 * j : j \in L4})))
         EXCEPT !.mins = [i \in Quants |-> -k.m[i \div 32]], !.dmin = F16(b, 2),
                !.ldy = BSums]

NoBits(j, m) == 0

x64VecDotQ4_KKernel(b) == x64KBlock(b, 16, NoBits, NoBits, {})

x64VecDotQ5_KKernel(b) ==
    LET qh(j, m) == Shr(b, 16, m, 2 * j, 2)
        low(j, m)  == Bits(qh(j, m), 0, 1) * 2^4
        high(j, m) == Bits(qh(j, m), 1, 1) * 2 * 2^3
    IN  x64KBlock(b, 48, low, high, {<<16, 32>>})

(* VPSHUFB picks scales 2r and 2r + 1 for the two halves of dot r.         *)
x64VecDotQ6_KKernel(b) ==
    LET ql(j, o, m, sh) == Shr(b, 64 * j + o, m, sh, 2) % 16
        H(j, m, bit) == Bits(b[128 + 32 * j + m], bit, 2)
        dots(j, t) ==
            LET q(m) == CASE t = 0 -> ql(j, 0, m, 0)  + H(j, m, 0) * 2^4
                          [] t = 1 -> ql(j, 32, m, 0) + H(j, m, 2) * 4 * 2^2
                          [] t = 2 -> ql(j, 0, m, 4)  + H(j, m, 4) * 16
                          [] t = 3 -> ql(j, 32, m, 4) + (H(j, m, 6) * 64) \div 2^2
                s(h) == I8(b[192 + 2 * (4 * j + t) + h])
            IN  Dots32(4 + 128 * j + 32 * t, q, s)
    IN  [UnsignedPairs(Form(UNION {dots(j, t) : j \in 0 .. 1, t \in L4}, F16(b, 208),
            {<<192, 16>>, <<208, 2>>} \cup Ld(32, {0, 32, 64, 96, 128, 160})))
         EXCEPT !.bias = Sums16([i \in L16 |-> -(I8(b[192 + i]) * 2^5)]),
                !.ldy = BSums]

(* Four 2-bit planes of 32 bytes, with sub-block scales in pairs.          *)
Planes(b, qs, high(_, _, _), sc(_)) ==
    LET dots(j, s) ==
            LET q(m) == (Shr(b, qs + 32 * j, m, 2 * s, 2) % 4) + high(j, s, m)
                scale(h) == sc(2 * (4 * j + s) + h)
            IN  Dots32(4 + 128 * j + 32 * s, q, scale)
    IN  UNION {dots(j, s) : j \in 0 .. 1, s \in L4}

x64VecDotQ2_KKernel(b) ==
    LET none(j, s, m) == 0
        sc(i) == b[i] % 16
    IN  [UnsignedPairs(Form(Planes(b, 16, none, sc), F16(b, 80),
            {<<0, 16>>, <<80, 2>>, <<82, 2>>} \cup Ld(32, {16, 48})))
         EXCEPT !.mins = Sums16([i \in L16 |-> -(Shr(b, 0, i, 4, 2) % 16)]),
                !.dmin = F16(b, 82), !.ldy = BSums]

x64VecDotQ3_KKernel(b) ==
    LET word(o, sh, i) == Shr(b, o, i, sh, 4)
        utmp(w, i) ==
            CASE w = 0 -> (b[96 + i] % 16) + (b[104 + i] % 4) * 16
              [] w = 1 -> (b[100 + i] % 16) + (word(104, 2, i) % 4) * 16
              [] w = 2 -> (word(96, 4, i) % 16) + (word(104, 4, i) % 4) * 16
              [] w = 3 -> (word(100, 4, i) % 16) + (word(104, 6, i) % 4) * 16
        sc(i) == utmp(i \div 4, i % 4) - 32
        third(j, s, m) == (Shr(b, 0, m, 4 * j + s, 2) % 2) * 2^2
    IN  [UnsignedPairs(Form(Planes(b, 32, third, sc), F16(b, 108),
            {<<0, 32>>, <<108, 2>>} \cup Ld(32, {32, 64}) \cup Ld(4, {96, 100, 104})))
         EXCEPT !.bias = Sums16([i \in L16 |-> -(sc(i) * 2^2)]), !.ldy = BSums]

-----------------------------------------------------------------------------
(* The codebook formats.                                                   *)

GridDots32(mag(_, _), sign(_, _), ls(_, _)) ==
    LET dots(ib) == LET q(m) == mag(ib, m) * sign(ib, m)
                        s(h) == ls(ib, h)
                    IN  Dots32(4 + 32 * ib, q, s)
    IN  UNION {dots(ib) : ib \in L8}

x64VecDotIQ3(iq3s, b) ==
    LET index(ib, k) == b[2 + 8 * ib + k]
                        + (IF iq3s THEN 256 * Bits(b[66 + ib], k, 1) ELSE 0)
        mag(ib, m)  == Grid(IF iq3s THEN "iq3_s" ELSE "iq3_xxs",
                            index(ib, m \div 4), m % 4)
        sign(ib, m) == IF iq3s THEN SignBit(b[74 + 4 * ib + m \div 8], m % 8)
                       ELSE kevenSigns(Field(b, 66 + 4 * ib, 7 * (m \div 8), 7), m % 8)
        nibble(ib)  == IF iq3s THEN Bits(b[106 + ib \div 2], 4 * (ib % 2), 4)
                       ELSE Bits(b[66 + 4 * ib + 3], 4, 4)
        ls(ib, h)   == 2 * nibble(ib) + 1
    IN  [SignedPairs(Form(GridDots32(mag, sign, ls), F16(b, 0),
            {<<0, 2>>} \cup Ld(1, {2 + i : i \in 0 .. 63})
            \cup (IF iq3s THEN Ld(1, {66 + ib : ib \in L8} \cup {106 + i : i \in L4})
                               \cup Ld(4, {74 + 4 * ib : ib \in L8})
                  ELSE Ld(4, {66 + 4 * ib : ib \in L8}))))
         EXCEPT !.den = IF iq3s THEN 1 ELSE 4]

x64VecDotIQ2(name, b) ==
    LET word(ib, lo, n) == Field(b, 2 + 8 * ib, lo, n)
        index(ib, l) ==
            CASE name = "iq2_xxs" -> word(ib, 8 * l, 8)
              [] name = "iq2_xs"  -> word(ib, 16 * l, 9)
              [] name = "iq2_s"   -> b[2 + 4 * ib + l] + 256 * Bits(b[66 + ib], 2 * l, 2)
        sign(ib, m) ==
            CASE name = "iq2_xxs" -> kevenSigns(word(ib, 32 + 7 * (m \div 8), 7), m % 8)
              [] name = "iq2_xs"  -> kevenSigns(word(ib, 16 * (m \div 8) + 9, 7), m % 8)
              [] name = "iq2_s"   -> SignBit(b[34 + 4 * ib + m \div 8], m % 8)
        mag(ib, m) == Grid(name, index(ib, m \div 8), m % 8)
        scale == IF name = "iq2_s" THEN 74 ELSE 66
        ls(ib, h) == IF name = "iq2_xxs" THEN 2 * word(ib, 60, 4) + 1
                     ELSE 2 * Bits(b[scale + ib], 4 * h, 4) + 1
    IN  [SignedPairs(Form(GridDots32(mag, sign, ls), F16(b, 0),
            {<<0, 2>>} \cup
            (IF name = "iq2_s"
             THEN Ld(1, {2 + i : i \in 0 .. 31} \cup {66 + ib : ib \in L8})
                  \cup Ld(4, {34 + 4 * ib : ib \in L8})
             ELSE Ld(8, {2 + 8 * ib : ib \in L8}))
            \cup (IF name = "iq2_xxs" THEN {} ELSE Ld(1, {scale + ib : ib \in L8}))))
         EXCEPT !.den = 8]

(* iq1_s takes its delta from the bsums in a general register, iq1_m from  *)
(* a second dot of the activations, negated where the flag is set, with    *)
(* ones.                                                                   *)
x64VecDotIQ1(iq1m, b) ==
    LET qh(ib) == (IF iq1m THEN 32 ELSE 34) + 2 * ib
        qs == IF iq1m THEN 0 ELSE 2
        index(ib, l) == b[qs + 4 * ib + l]
                        + 256 * Field(b, qh(ib), (IF iq1m THEN 4 ELSE 3) * l, 3)
        mag(ib, m) == Grid("iq1", index(ib, m \div 8), m % 8)
        ls(ib, h)  == 1 + 2 * (IF iq1m
                               THEN Field(b, 48 + 2 * (ib \div 2), 6 * (ib % 2) + 3 * h, 3)
                               ELSE Field(b, qh(ib), 12, 3))
        flag(ib, m) == IF iq1m
                       THEN Bits(b[qh(ib) + m \div 16], IF m % 16 < 8 THEN 3 ELSE 7, 1)
                       ELSE Field(b, qh(ib), 15, 1)
        delta(ib, m) == (IF flag(ib, m) = 1 THEN -1 ELSE 1) * ls(ib, m \div 16)
        scale == U16(b, 48) \div 2^12 + Bits(U16(b, 50) \div 2^8, 4, 4) * 2^4
                 + Bits(U16(b, 52) \div 2^4, 8, 4) * 2^8 + Bits(U16(b, 54), 12, 4) * 2^12
    IN  [SignedPairs(Form(GridDots32(mag, One, ls),
             IF iq1m THEN <<"f16", scale % 256, scale \div 256>> ELSE F16(b, 0),
             Ld(1, {qs + i : i \in 0 .. 31}) \cup Ld(2, {qh(ib) : ib \in L8})
             \cup (IF iq1m THEN Ld(2, {48, 50, 52, 54}) ELSE {<<0, 2>>})))
         EXCEPT !.bias = [k \in Quants |-> delta(k \div 32, k % 32)], !.bden = 8,
                !.ldy = IF iq1m THEN {} ELSE Ld(2, {260 + 2 * i : i \in L16})]

-----------------------------------------------------------------------------
(* Ternary, binary and fp4 formats.                                        *)

x64VecDotTQ2_0Kernel(b) ==
    LET dots(j, l) == LET q(m) == (Shr(b, 32 * j, m, 2 * l, 2) % 4) - 1
                      IN  Dots32(4 + 128 * j + 32 * l, q, Unscaled)
    IN  SignedPairs(Form(UNION {dots(j, l) : j \in 0 .. 1, l \in L4}, F16(b, 64),
                         {<<64, 2>>, <<0, 32>>, <<32, 32>>}))

(* The bytes at each of the five digits: a step to the next digit is       *)
(* q + q + q as bytes.                                                     *)
x64Thrice(b) ==
    LET thrice(v) == (v + ((v + v) % 256)) % 256
        at[l \in 0 .. 4] == IF l = 0 THEN [o \in 0 .. 51 |-> b[o]]
                            ELSE [o \in 0 .. 51 |-> thrice(at[l - 1][o])]
    IN  at

(* max(q, t) = q stands for the unsigned compare.                          *)
x64Digit(v) == LET cmp(t) == IF v >= t THEN 255 ELSE 0
               IN  I8(255 - ((cmp(86) + cmp(171)) % 256))

x64VecDotTQ1_0Kernel(b) ==
    LET at == x64Thrice(b)
        lanes(first, n, l) == [m \in 0 .. n - 1 |-> x64Digit(at[l][first + m])]
    IN  SignedPairs(Form({Dot(4 + 32 * l, lanes(0, 32, l), 1) : l \in 0 .. 4}
            \cup {Dot(4 + 160 + 16 * l, lanes(32, 16, l), 1) : l \in 0 .. 4}
            \cup {Dot(4 + 240 + 4 * l, lanes(48, 4, l), 1) : l \in L4},
            F16(b, 52), {<<0, 32>>, <<32, 16>>, <<48, 4>>, <<52, 2>>}))

x64VecDotQ1_0Kernel(b) ==
    SignedPairs(Form(
        {DotOn(34 * k + 2, 34 * k,
               [m \in L32 |-> SignBit(b[2 + 4 * k + m \div 8], m % 8)], -1) : k \in L4},
        F16(b, 0), {<<0, 2>>} \cup Ld(4, {2 + 4 * k : k \in L4})))

(* Every byte fills a group of four lanes, so the byte a 16-bit shift      *)
(* takes bits from is the same byte; each field's mask keeps its lanes.    *)
x64VecDotQ2_0Kernel(b) ==
    LET repl(k) == [m \in L32 |-> b[2 + 8 * k + 4 * (m \div 16) + (m % 16) \div 4]]
        field(k, m) == Shr(repl(k), 0, m, 2 * (m % 4), 2) % 4
    IN  SignedPairs(Form(
            {DotOn(34 * k + 2, 34 * k, [m \in L32 |-> field(k, m) - 1], 1) : k \in 0 .. 1},
            F16(b, 0), {<<0, 2>>} \cup Ld(4, {2, 6, 10, 14})))

(* Eight bytes: low nibbles, then the shifted ones unpacked beside them.   *)
x64VecDotNVFP4Kernel(b) ==
    LET nibble(s, m) == IF m < 8 THEN b[4 + 8 * s + m] % 16
                        ELSE Shr(b, 4 + 8 * s, m - 8, 4, 2) % 16
        q8(s) == s \div 2
    IN  [SignedPairs(Form(
            {DotOn(34 * q8(s) + 2 + (s % 2) * 16, 34 * q8(s),
                   [m \in L16 |-> kvaluesFP4[1 + nibble(s, m)]], ue4m3ToF32(b[s]))
               : s \in L4},
            <<>>, Ld(1, L4) \cup Ld(8, {4 + 8 * s : s \in L4}))) EXCEPT !.den = 1024]
=============================================================================
