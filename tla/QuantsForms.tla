---------------------------- MODULE QuantsForms ----------------------------
(***************************************************************************)
(* The kernels' dots, written out for the proofs: for each format f the    *)
(* weights f_w and the scale f_s of the dot under the indices of the       *)
(* kernel's loops, and f_Dots, the family of these dots.  QuantsProofs     *)
(* shows of each that it is what the kernel computes.                      *)
(***************************************************************************)
EXTENDS Quants

-----------------------------------------------------------------------------
(* The dots of an activation block of 256 quants as indexed families.      *)

(* Sixteen dots of 16 lanes each: four steps of four dots; *)
Dots44(D) == {D[j][k] : j \in 0 .. 3, k \in 0 .. 3}

(* eight sub-blocks of two; *)
Dots82(D) == {D[j][k] : j \in 0 .. 7, k \in 0 .. 1}

(* two halves of four planes of two; *)
Dots242(D) == {D[j][k][l] : j \in 0 .. 1, k \in 0 .. 3, l \in 0 .. 1}

(* two halves of two times four; *)
Dots224(D) == {D[j][k][l] : j \in 0 .. 1, k \in 0 .. 1, l \in 0 .. 3}

(* four steps of two sub-blocks of two. *)
Dots422(D) == {D[j][k][l] : j \in 0 .. 3, k \in 0 .. 1, l \in 0 .. 1}

-----------------------------------------------------------------------------
(* The row dots of arm64, for activations of 256 quants: each kernel's     *)
(* weights and scales under the indices of its loops.                      *)

a64Q4_K_w(b, j, k) ==
    [m \in 0 .. 15 |->
        IF k < 2 THEN (b[16 + 32 * j + 16 * k + m] % 16) + A64!NoBit(j, 16 * k + m)
        ELSE b[16 + 32 * j + 16 * (k - 2) + m] \div 16 + A64!NoBit(j, 16 * (k - 2) + m)]
a64Q4_K_s(b, j, k) ==
    A64!q4KScalesMins(b).sc[2 * j + k \div 2]
a64Q4_K_Dots(b) ==
    [j \in 0 .. 3 |-> [k \in 0 .. 3 |->
        A64!Dot(4 + 64 * j + 16 * k, a64Q4_K_w(b, j, k), a64Q4_K_s(b, j, k))]]

a64Q5_K_w(b, j, k) ==
    LET qh(m) == b[16 + m] \div 4^j
    IN  [m \in 0 .. 15 |->
            IF k < 2 THEN (b[48 + 32 * j + 16 * k + m] % 16) + (qh(16 * k + m) % 2) * 16
            ELSE b[48 + 32 * j + 16 * (k - 2) + m] \div 16
                 + A64!Bits(qh(16 * (k - 2) + m), 1, 1) * 2 * 8]
a64Q5_K_s(b, j, k) ==
    A64!q4KScalesMins(b).sc[2 * j + k \div 2]
a64Q5_K_Dots(b) ==
    [j \in 0 .. 3 |-> [k \in 0 .. 3 |->
        A64!Dot(4 + 64 * j + 16 * k, a64Q5_K_w(b, j, k), a64Q5_K_s(b, j, k))]]

a64Q6_K_Dots(b) ==
    [j \in 0 .. 1 |-> [p \in 0 .. 1 |-> [k \in 0 .. 3 |-> A64!a64Q6Dot(b, j, p, k)]]]

a64Q2_K_w(b, j, s, h) ==
    [m \in 0 .. 15 |-> (b[16 + 32 * j + 16 * h + m] \div 2^(2 * s)) % 4]
a64Q2_K_s(b, j, s, h) ==
    b[8 * j + 2 * s + h] % 16
a64Q2_K_Dots(b) ==
    [j \in 0 .. 1 |-> [s \in 0 .. 3 |-> [h \in 0 .. 1 |->
        A64!Dot(4 + 128 * j + 32 * s + 16 * h, a64Q2_K_w(b, j, s, h),
            a64Q2_K_s(b, j, s, h))]]]

a64Q3_K_w(b, j, s, h) ==
    LET third(m) == (b[m] \div 2^(4 * j + s)) % 2
    IN  [m \in 0 .. 15 |-> ((b[32 + 32 * j + 16 * h + m] \div 2^(2 * s)) % 4)
                            + third(16 * h + m) * 4]
a64Q3_K_s(b, j, s, h) ==
    A64!q3KScales(b)[8 * j + 2 * s + h]
a64Q3_K_Dots(b) ==
    [j \in 0 .. 1 |-> [s \in 0 .. 3 |-> [h \in 0 .. 1 |->
        A64!Dot(4 + 128 * j + 32 * s + 16 * h, a64Q3_K_w(b, j, s, h),
            a64Q3_K_s(b, j, s, h))]]]

a64IQ4XS_w(b, p, o, h) ==
    [m \in 0 .. 15 |->
        A64!kvaluesIQ4NL[1 + A64!Bits(b[8 + 32 * p + 16 * o + m], 4 * h, 4)]]
a64IQ4XS_s(b, p, o, h) ==
    LET hi == A64!U16(b, 2) \div 16^p
    IN  IF o = 0 THEN (b[4 + p] % 16) + (hi % 4) * 16 - 32
        ELSE b[4 + p] \div 16 + A64!Bits(hi * 4, 4, 2) * 16 - 32
a64IQ4XS_Dots(b) ==
    [p \in 0 .. 3 |-> [o \in 0 .. 1 |-> [h \in 0 .. 1 |->
        A64!Dot(4 + 64 * p + 32 * o + 16 * h, a64IQ4XS_w(b, p, o, h),
            a64IQ4XS_s(b, p, o, h))]]]

a64TQ2_0_w(b, j, l, h) ==
    [m \in 0 .. 15 |-> ((b[32 * j + 16 * h + m] \div 2^(2 * l)) % 4) - 1]
a64TQ2_0_s(b, j, l, h) ==
    1
a64TQ2_0_Dots(b) ==
    [j \in 0 .. 1 |-> [l \in 0 .. 3 |-> [h \in 0 .. 1 |->
        A64!Dot(4 + 128 * j + 32 * l + 16 * h, a64TQ2_0_w(b, j, l, h),
            a64TQ2_0_s(b, j, l, h))]]]

a64IQ3XXS_w(b, g, h) ==
    [m \in 0 .. 15 |->
        Grid("iq3_xxs", b[2 + 8 * g + (16 * h + m) \div 4], (16 * h + m) % 4)
        * A64!kevenSigns(A64!Field(b, 66 + 4 * g, 7 * ((16 * h + m) \div 8), 7),
            (16 * h + m) % 8)]
a64IQ3XXS_s(b, g, h) ==
    2 * (b[(66 + 4 * g) + 3] \div 16) + 1
a64IQ3XXS_Dots(b) ==
    [g \in 0 .. 7 |-> [h \in 0 .. 1 |->
        A64!Dot(4 + 32 * g + 16 * h, a64IQ3XXS_w(b, g, h), a64IQ3XXS_s(b, g, h))]]

a64IQ3S_w(b, g, h) ==
    [m \in 0 .. 15 |->
        Grid("iq3_s",
            b[2 + 8 * g + (16 * h + m) \div 4]
            + 256 * A64!Bits(b[66 + g], (16 * h + m) \div 4, 1), (16 * h + m) % 4)
        * A64!SignBit(b[74 + 4 * g + (16 * h + m) \div 8], (16 * h + m) % 8)]
a64IQ3S_s(b, g, h) ==
    2 * A64!Bits(b[106 + g \div 2], 4 * (g % 2), 4) + 1
a64IQ3S_Dots(b) ==
    [g \in 0 .. 7 |-> [h \in 0 .. 1 |->
        A64!Dot(4 + 32 * g + 16 * h, a64IQ3S_w(b, g, h), a64IQ3S_s(b, g, h))]]

a64IQ1S_w(b, g, h) ==
    [m \in 0 .. 15 |->
        Grid("iq1",
            b[2 + 4 * g + (16 * h + m) \div 8]
            + 256 * A64!Field(b, 34 + 2 * g, 3 * ((16 * h + m) \div 8), 3),
            (16 * h + m) % 8)
        * A64!One(g, 16 * h + m)]
a64IQ1S_s(b, g, h) ==
    2 * A64!Field(b, 34 + 2 * g, 12, 3) + 1
a64IQ1S_Dots(b) ==
    [g \in 0 .. 7 |-> [h \in 0 .. 1 |->
        A64!Dot(4 + 32 * g + 16 * h, a64IQ1S_w(b, g, h), a64IQ1S_s(b, g, h))]]

a64IQ1M_w(b, g, h) ==
    [m \in 0 .. 15 |->
        Grid("iq1",
            b[4 * g + (16 * h + m) \div 8]
            + 256 * A64!Field(b, 32 + 2 * g, 4 * ((16 * h + m) \div 8), 3),
            (16 * h + m) % 8)
        * A64!One(g, 16 * h + m)]
a64IQ1M_s(b, g, h) ==
    2 * A64!Field(b, 48 + 2 * (g \div 2), 6 * (g % 2) + 3 * h, 3) + 1
a64IQ1M_Dots(b) ==
    [g \in 0 .. 7 |-> [h \in 0 .. 1 |->
        A64!Dot(4 + 32 * g + 16 * h, a64IQ1M_w(b, g, h), a64IQ1M_s(b, g, h))]]

a64IQ2XXS_w(b, g, h) ==
    [m \in 0 .. 15 |->
        Grid("iq2_xxs", A64!Field(b, 2 + 8 * g, 8 * ((16 * h + m) \div 8), 8),
            (16 * h + m) % 8)
        * A64!kevenSigns(A64!Field(b, 2 + 8 * g, 32 + 7 * ((16 * h + m) \div 8), 7),
            (16 * h + m) % 8)]
a64IQ2XXS_s(b, g, h) ==
    2 * A64!Bits(b[(2 + 8 * g) + 7], 4, 4) + 1
a64IQ2XXS_Dots(b) ==
    [g \in 0 .. 7 |-> [h \in 0 .. 1 |->
        A64!Dot(4 + 32 * g + 16 * h, a64IQ2XXS_w(b, g, h), a64IQ2XXS_s(b, g, h))]]

a64IQ2XS_w(b, g, h) ==
    [m \in 0 .. 15 |->
        Grid("iq2_xs", A64!Field(b, 2 + 8 * g, 16 * ((16 * h + m) \div 8), 9),
            (16 * h + m) % 8)
        * A64!kevenSigns(A64!Field(b, 2 + 8 * g, 16 * ((16 * h + m) \div 8) + 9, 7),
            (16 * h + m) % 8)]
a64IQ2XS_s(b, g, h) ==
    2 * A64!Bits(b[66 + g], 4 * h, 4) + 1
a64IQ2XS_Dots(b) ==
    [g \in 0 .. 7 |-> [h \in 0 .. 1 |->
        A64!Dot(4 + 32 * g + 16 * h, a64IQ2XS_w(b, g, h), a64IQ2XS_s(b, g, h))]]

a64IQ2S_w(b, g, h) ==
    [m \in 0 .. 15 |->
        Grid("iq2_s",
            b[2 + 4 * g + (16 * h + m) \div 8]
            + 256 * A64!Bits(b[66 + g], 2 * ((16 * h + m) \div 8), 2), (16 * h + m) % 8)
        * A64!SignBit(b[34 + 4 * g + (16 * h + m) \div 8], (16 * h + m) % 8)]
a64IQ2S_s(b, g, h) ==
    2 * A64!Bits(b[74 + g], 4 * h, 4) + 1
a64IQ2S_Dots(b) ==
    [g \in 0 .. 7 |-> [h \in 0 .. 1 |->
        A64!Dot(4 + 32 * g + 16 * h, a64IQ2S_w(b, g, h), a64IQ2S_s(b, g, h))]]

-----------------------------------------------------------------------------
(* The row dots of arm64 over one q8_0 or q8_1 block: two dots.            *)

a64Q4_0_lo(b) == [m \in 0 .. 15 |-> (b[2 + m] % 16) - 8]
a64Q4_0_hi(b) == [m \in 0 .. 15 |-> b[2 + m] \div 16 - 8]

a64Q8_0_lo(b) == [m \in 0 .. 15 |-> A64!I8(b[2 + m])]
a64Q8_0_hi(b) == [m \in 0 .. 15 |-> A64!I8(b[18 + m])]

a64Q5_0_lo(b) ==
    [m \in 0 .. 15 |-> (b[6 + m] % 16) - (IF A64!FifthBit(b, 2, m) = 1 THEN 0 ELSE 16)]
a64Q5_0_hi(b) ==
    [m \in 0 .. 15 |-> b[6 + m] \div 16 - (IF A64!FifthBit(b, 4, m) = 1 THEN 0 ELSE 16)]

a64Q4_1_lo(b) == [m \in 0 .. 15 |-> (b[4 + m] % 16) + 0]
a64Q4_1_hi(b) == [m \in 0 .. 15 |-> b[4 + m] \div 16 + 0]

a64Q5_1_lo(b) == [m \in 0 .. 15 |-> (b[8 + m] % 16) + 16 * A64!FifthBit(b, 4, m)]
a64Q5_1_hi(b) == [m \in 0 .. 15 |-> b[8 + m] \div 16 + 16 * A64!FifthBit(b, 6, m)]

a64MXFP4_lo(b) == [m \in 0 .. 15 |-> A64!kvaluesFP4[1 + (b[1 + m] % 16)]]
a64MXFP4_hi(b) == [m \in 0 .. 15 |-> A64!kvaluesFP4[1 + b[1 + m] \div 16]]

a64IQ4NL_lo(b) == [m \in 0 .. 15 |-> A64!kvaluesIQ4NL[1 + (b[2 + m] % 16)]]
a64IQ4NL_hi(b) == [m \in 0 .. 15 |-> A64!kvaluesIQ4NL[1 + b[2 + m] \div 16]]

-----------------------------------------------------------------------------
(* The row dots over several q8_0 blocks side by side.                     *)

a64Q1_0_w(b, k, h) ==
    [m \in 0 .. 15 |-> A64!SignBit(b[2 + 4 * k + 2 * h + m \div 8], m % 8)]
a64Q1_0_Dots(b) ==
    [k \in 0 .. 3 |-> [h \in 0 .. 1 |->
        A64!DotOn(34 * k + 2 + 16 * h, 34 * k, a64Q1_0_w(b, k, h), -1)]]

a64Q2_0_w(b, k, h) ==
    [m \in 0 .. 15 |-> ((b[2 + 8 * k + 4 * h + m \div 4] \div 2^(2 * (m % 4))) % 4) - 1]
a64Q2_0_Dots(b) ==
    [k \in 0 .. 1 |-> [h \in 0 .. 1 |->
        A64!DotOn(34 * k + 2 + 16 * h, 34 * k, a64Q2_0_w(b, k, h), 1)]]

a64NVFP4_w(b, s, h) ==
    [m \in 0 .. 7 |-> A64!kvaluesFP4[1 + A64!Bits(b[4 + 8 * s + m], 4 * h, 4)]]
a64NVFP4_Dots(b) ==
    [s \in 0 .. 3 |-> [h \in 0 .. 1 |->
        A64!DotOn(34 * (s \div 2) + 2 + (s % 2) * 16 + 8 * h, 34 * (s \div 2),
            a64NVFP4_w(b, s, h), A64!ue4m3ToF32(b[s]))]]

x64Q1_0_w(b, k, h) ==
    [m \in 0 .. 31 |-> X64!SignBit(b[2 + 4 * k + m \div 8], m % 8)]
x64Q1_0_Dots(b) ==
    [k \in 0 .. 3 |-> [h \in 0 .. 0 |->
        X64!DotOn(34 * k + 2 + 32 * h, 34 * k, x64Q1_0_w(b, k, h), -1)]]

x64Q2_0_w(b, k, h) ==
    LET repl == [l \in 0 .. 31 |-> b[2 + 8 * k + 4 * (l \div 16) + (l % 16) \div 4]]
    IN  [m \in 0 .. 31 |-> (X64!Shr(repl, 0, m, 2 * (m % 4), 2) % 4) - 1]
x64Q2_0_Dots(b) ==
    [k \in 0 .. 1 |-> [h \in 0 .. 0 |->
        X64!DotOn(34 * k + 2 + 32 * h, 34 * k, x64Q2_0_w(b, k, h), 1)]]

x64NVFP4_w(b, s, h) ==
    LET nibble(m) == IF m < 8 THEN b[4 + 8 * s + m] % 16
                     ELSE X64!Shr(b, 4 + 8 * s, m - 8, 4, 2) % 16
    IN  [m \in 0 .. 15 |-> X64!kvaluesFP4[1 + nibble(m)]]
x64NVFP4_Dots(b) ==
    [s \in 0 .. 3 |-> [h \in 0 .. 0 |->
        X64!DotOn(34 * (s \div 2) + 2 + (s % 2) * 16 + 16 * h, 34 * (s \div 2),
            x64NVFP4_w(b, s, h), X64!ue4m3ToF32(b[s]))]]

-----------------------------------------------------------------------------
(* tq1_0: where each run of quants starts, and its lanes.                  *)

(* Fifteen runs of 16, then four of 4.                                     *)
a64TQ1_y == [g \in 0 .. 18 |-> IF g < 15 THEN 4 + 16 * g ELSE 244 + 4 * (g - 15)]
a64TQ1_ln == [g \in 0 .. 18 |-> IF g < 15 THEN 0 .. 15 ELSE 0 .. 3]

(* Five runs of 32, five of 16, four of 4.                                 *)
x64TQ1_y == [g \in 0 .. 13 |-> IF g < 5 THEN 4 + 32 * g
                               ELSE IF g < 10 THEN 164 + 16 * (g - 5)
                               ELSE 244 + 4 * (g - 10)]
x64TQ1_ln == [g \in 0 .. 13 |-> IF g < 5 THEN 0 .. 31
                                ELSE IF g < 10 THEN 0 .. 15 ELSE 0 .. 3]

(* The 19 dots of arm64: l picks the digit, h the half of the first 32     *)
(* bytes.                                                                  *)
a64TQ1_w(b, first, n, l) == [m \in 0 .. n |-> A64!Digit(b[first + m], l)]
a64TQ1_A(b) == [l \in 0 .. 4 |-> [h \in 0 .. 1 |->
                   A64!Dot(4 + 32 * l + 16 * h, a64TQ1_w(b, 16 * h, 15, l), 1)]]
a64TQ1_B(b) == [l \in 0 .. 4 |-> A64!Dot(164 + 16 * l, a64TQ1_w(b, 32, 15, l), 1)]
a64TQ1_C(b) == [l \in 0 .. 3 |-> A64!Dot(244 + 4 * l, a64TQ1_w(b, 48, 3, l), 1)]
a64TQ1_E(b) == [g \in 0 .. 18 |-> IF g < 10 THEN a64TQ1_A(b)[g \div 2][g % 2]
                                  ELSE IF g < 15 THEN a64TQ1_B(b)[g - 10]
                                  ELSE a64TQ1_C(b)[g - 15]]

(* The 14 dots of amd64.                                                   *)
x64TQ1_w(b, first, n, l) ==
    [m \in 0 .. n |-> X64!x64Digit(X64!x64Thrice(b)[l][first + m])]
x64TQ1_A(b) == [l \in 0 .. 4 |-> X64!Dot(4 + 32 * l, x64TQ1_w(b, 0, 31, l), 1)]
x64TQ1_B(b) == [l \in 0 .. 4 |-> X64!Dot(164 + 16 * l, x64TQ1_w(b, 32, 15, l), 1)]
x64TQ1_C(b) == [l \in 0 .. 3 |-> X64!Dot(244 + 4 * l, x64TQ1_w(b, 48, 3, l), 1)]
x64TQ1_E(b) == [g \in 0 .. 13 |-> IF g < 5 THEN x64TQ1_A(b)[g]
                                  ELSE IF g < 10 THEN x64TQ1_B(b)[g - 5]
                                  ELSE x64TQ1_C(b)[g - 10]]

-----------------------------------------------------------------------------
(* The row dots of amd64, for activations of 256 quants.                   *)

x64Q4_K_w(b, j, f, h) ==
    [m \in 0 .. 15 |->
        IF f = 0 THEN (b[16 + 32 * j + (16 * h + m)] % 16) + X64!NoBits(j, (16 * h + m))
        ELSE (X64!Shr(b, 16 + 32 * j, (16 * h + m), 4, 2) % 16)
            + X64!NoBits(j, (16 * h + m))]
x64Q4_K_s(b, j, f, h) ==
    X64!x64ScalesMins(b).sc[2 * j + f]
x64Q4_K_Dots(b) ==
    [j \in 0 .. 3 |-> [f \in 0 .. 1 |-> [h \in 0 .. 1 |->
        X64!DotOn(4 + 64 * j + 32 * f + 16 * h, 0, x64Q4_K_w(b, j, f, h),
            x64Q4_K_s(b, j, f, h))]]]

x64Q5_K_w(b, j, f, h) ==
    LET qh(m) == X64!Shr(b, 16, m, 2 * j, 2)
    IN  [m \in 0 .. 15 |->
            IF f = 0 THEN (b[48 + 32 * j + (16 * h + m)] % 16)
                + X64!Bits(qh(16 * h + m), 0, 1) * 2^4
            ELSE (X64!Shr(b, 48 + 32 * j, (16 * h + m), 4, 2) % 16)
                + X64!Bits(qh(16 * h + m), 1, 1) * 2 * 2^3]
x64Q5_K_s(b, j, f, h) ==
    X64!x64ScalesMins(b).sc[2 * j + f]
x64Q5_K_Dots(b) ==
    [j \in 0 .. 3 |-> [f \in 0 .. 1 |-> [h \in 0 .. 1 |->
        X64!DotOn(4 + 64 * j + 32 * f + 16 * h, 0, x64Q5_K_w(b, j, f, h),
            x64Q5_K_s(b, j, f, h))]]]

x64Q6_K_w(b, j, t, h) ==
    LET ql(o, m, sh) == X64!Shr(b, 64 * j + o, m, sh, 2) % 16
        H(m, bit) == X64!Bits(b[128 + 32 * j + m], bit, 2)
    IN  [m \in 0 .. 15 |->
            CASE t = 0 -> ql(0, (16 * h + m), 0)  + H((16 * h + m), 0) * 2^4
              [] t = 1 -> ql(32, (16 * h + m), 0) + H((16 * h + m), 2) * 4 * 2^2
              [] t = 2 -> ql(0, (16 * h + m), 4)  + H((16 * h + m), 4) * 16
              [] t = 3 -> ql(32, (16 * h + m), 4) + (H((16 * h + m), 6) * 64) \div 2^2]
x64Q6_K_s(b, j, t, h) ==
    X64!I8(b[192 + 2 * (4 * j + t) + h])
x64Q6_K_Dots(b) ==
    [j \in 0 .. 1 |-> [t \in 0 .. 3 |-> [h \in 0 .. 1 |->
        X64!DotOn(4 + 128 * j + 32 * t + 16 * h, 0, x64Q6_K_w(b, j, t, h),
            x64Q6_K_s(b, j, t, h))]]]

x64Q2_K_w(b, j, t, h) ==
    [m \in 0 .. 15 |-> (X64!Shr(b, 16 + 32 * j, (16 * h + m), 2 * t, 2) % 4) + 0]
x64Q2_K_s(b, j, t, h) ==
    b[2 * (4 * j + t) + h] % 16
x64Q2_K_Dots(b) ==
    [j \in 0 .. 1 |-> [t \in 0 .. 3 |-> [h \in 0 .. 1 |->
        X64!DotOn(4 + 128 * j + 32 * t + 16 * h, 0, x64Q2_K_w(b, j, t, h),
            x64Q2_K_s(b, j, t, h))]]]

x64Q3_K_w(b, j, t, h) ==
    [m \in 0 .. 15 |-> (X64!Shr(b, 32 + 32 * j, (16 * h + m), 2 * t, 2) % 4)
                        + (X64!Shr(b, 0, (16 * h + m), 4 * j + t, 2) % 2) * 2^2]
x64Q3_K_s(b, j, t, h) ==
    LET i1 == 2 * (4 * j + t) + h
        w == i1 \div 4
        n == i1 % 4
        word(o, sh) == X64!Shr(b, o, n, sh, 4)
    IN  (CASE w = 0 -> (b[96 + n] % 16) + (b[104 + n] % 4) * 16
           [] w = 1 -> (b[100 + n] % 16) + (word(104, 2) % 4) * 16
           [] w = 2 -> (word(96, 4) % 16) + (word(104, 4) % 4) * 16
           [] w = 3 -> (word(100, 4) % 16) + (word(104, 6) % 4) * 16) - 32
x64Q3_K_Dots(b) ==
    [j \in 0 .. 1 |-> [t \in 0 .. 3 |-> [h \in 0 .. 1 |->
        X64!DotOn(4 + 128 * j + 32 * t + 16 * h, 0, x64Q3_K_w(b, j, t, h),
            x64Q3_K_s(b, j, t, h))]]]

x64TQ2_0_w(b, j, t, h) ==
    [m \in 0 .. 15 |-> (X64!Shr(b, 32 * j, (16 * h + m), 2 * t, 2) % 4) - 1]
x64TQ2_0_s(b, j, t, h) ==
    X64!Unscaled(h)
x64TQ2_0_Dots(b) ==
    [j \in 0 .. 1 |-> [t \in 0 .. 3 |-> [h \in 0 .. 1 |->
        X64!DotOn(4 + 128 * j + 32 * t + 16 * h, 0, x64TQ2_0_w(b, j, t, h),
            x64TQ2_0_s(b, j, t, h))]]]

x64IQ4XS_w(b, g, h) ==
    [m \in 0 .. 15 |-> X64!kvaluesIQ4NL[1 + X64!Nibbles32(b, 8 + 16 * g, (16 * h + m))]]
x64IQ4XS_s(b, g, h) ==
    LET p == g \div 2
        hi == X64!U16(b, 2) \div 16^p
    IN  IF g % 2 = 0 THEN (b[4 + p] % 16) + X64!Bits(hi * 16, 4, 2) * 16 - 32
        ELSE X64!Bits(b[4 + p], 4, 4) + X64!Bits(hi * 4, 4, 2) * 16 - 32
x64IQ4XS_Dots(b) ==
    [g \in 0 .. 7 |-> [h \in 0 .. 1 |->
        X64!DotOn(4 + 32 * g + 16 * h, 0, x64IQ4XS_w(b, g, h), x64IQ4XS_s(b, g, h))]]

x64IQ3XXS_w(b, g, h) ==
    [m \in 0 .. 15 |->
        Grid("iq3_xxs", b[2 + 8 * g + (16 * h + m) \div 4] + 0, (16 * h + m) % 4)
        * X64!kevenSigns(X64!Field(b, 66 + 4 * g, 7 * ((16 * h + m) \div 8), 7),
            (16 * h + m) % 8)]
x64IQ3XXS_s(b, g, h) ==
    2 * X64!Bits(b[66 + 4 * g + 3], 4, 4) + 1
x64IQ3XXS_Dots(b) ==
    [g \in 0 .. 7 |-> [h \in 0 .. 1 |->
        X64!DotOn(4 + 32 * g + 16 * h, 0, x64IQ3XXS_w(b, g, h), x64IQ3XXS_s(b, g, h))]]

x64IQ3S_w(b, g, h) ==
    [m \in 0 .. 15 |->
        Grid("iq3_s",
            b[2 + 8 * g + (16 * h + m) \div 4]
            + 256 * X64!Bits(b[66 + g], (16 * h + m) \div 4, 1), (16 * h + m) % 4)
        * X64!SignBit(b[74 + 4 * g + (16 * h + m) \div 8], (16 * h + m) % 8)]
x64IQ3S_s(b, g, h) ==
    2 * X64!Bits(b[106 + g \div 2], 4 * (g % 2), 4) + 1
x64IQ3S_Dots(b) ==
    [g \in 0 .. 7 |-> [h \in 0 .. 1 |->
        X64!DotOn(4 + 32 * g + 16 * h, 0, x64IQ3S_w(b, g, h), x64IQ3S_s(b, g, h))]]

x64IQ2XXS_w(b, g, h) ==
    [m \in 0 .. 15 |->
        Grid("iq2_xxs", X64!Field(b, 2 + 8 * g, 8 * ((16 * h + m) \div 8), 8),
            (16 * h + m) % 8)
        * X64!kevenSigns(X64!Field(b, 2 + 8 * g, 32 + 7 * ((16 * h + m) \div 8), 7),
            (16 * h + m) % 8)]
x64IQ2XXS_s(b, g, h) ==
    2 * X64!Field(b, 2 + 8 * g, 60, 4) + 1
x64IQ2XXS_Dots(b) ==
    [g \in 0 .. 7 |-> [h \in 0 .. 1 |->
        X64!DotOn(4 + 32 * g + 16 * h, 0, x64IQ2XXS_w(b, g, h), x64IQ2XXS_s(b, g, h))]]

x64IQ2XS_w(b, g, h) ==
    [m \in 0 .. 15 |->
        Grid("iq2_xs", X64!Field(b, 2 + 8 * g, 16 * ((16 * h + m) \div 8), 9),
            (16 * h + m) % 8)
        * X64!kevenSigns(X64!Field(b, 2 + 8 * g, 16 * ((16 * h + m) \div 8) + 9, 7),
            (16 * h + m) % 8)]
x64IQ2XS_s(b, g, h) ==
    2 * X64!Bits(b[66 + g], 4 * h, 4) + 1
x64IQ2XS_Dots(b) ==
    [g \in 0 .. 7 |-> [h \in 0 .. 1 |->
        X64!DotOn(4 + 32 * g + 16 * h, 0, x64IQ2XS_w(b, g, h), x64IQ2XS_s(b, g, h))]]

x64IQ2S_w(b, g, h) ==
    [m \in 0 .. 15 |->
        Grid("iq2_s",
            b[2 + 4 * g + (16 * h + m) \div 8]
            + 256 * X64!Bits(b[66 + g], 2 * ((16 * h + m) \div 8), 2), (16 * h + m) % 8)
        * X64!SignBit(b[34 + 4 * g + (16 * h + m) \div 8], (16 * h + m) % 8)]
x64IQ2S_s(b, g, h) ==
    2 * X64!Bits(b[74 + g], 4 * h, 4) + 1
x64IQ2S_Dots(b) ==
    [g \in 0 .. 7 |-> [h \in 0 .. 1 |->
        X64!DotOn(4 + 32 * g + 16 * h, 0, x64IQ2S_w(b, g, h), x64IQ2S_s(b, g, h))]]

x64IQ1S_w(b, g, h) ==
    [m \in 0 .. 15 |->
        Grid("iq1", b[2 + 4 * g + (16 * h + m) \div 8]
            + 256 * X64!Field(b, 34 + 2 * g, 3 * ((16 * h + m) \div 8), 3),
            (16 * h + m) % 8)
        * X64!One(g, 16 * h + m)]
x64IQ1S_s(b, g, h) ==
    1 + 2 * X64!Field(b, 34 + 2 * g, 12, 3)
x64IQ1S_Dots(b) ==
    [g \in 0 .. 7 |-> [h \in 0 .. 1 |->
        X64!DotOn(4 + 32 * g + 16 * h, 0, x64IQ1S_w(b, g, h), x64IQ1S_s(b, g, h))]]

x64IQ1M_w(b, g, h) ==
    [m \in 0 .. 15 |->
        Grid("iq1", b[0 + 4 * g + (16 * h + m) \div 8]
            + 256 * X64!Field(b, 32 + 2 * g, 4 * ((16 * h + m) \div 8), 3),
            (16 * h + m) % 8)
        * X64!One(g, 16 * h + m)]
x64IQ1M_s(b, g, h) ==
    1 + 2 * X64!Field(b, 48 + 2 * (g \div 2), 6 * (g % 2) + 3 * h, 3)
x64IQ1M_Dots(b) ==
    [g \in 0 .. 7 |-> [h \in 0 .. 1 |->
        X64!DotOn(4 + 32 * g + 16 * h, 0, x64IQ1M_w(b, g, h), x64IQ1M_s(b, g, h))]]

-----------------------------------------------------------------------------
(* The row dots of amd64 over one q8_0 or q8_1 block.                      *)

x64Q4_0_w(b, h) ==
    [m \in 0 .. 15 |->
        X64!Nibbles32(b, 2, 16 * h + m) - X64!Shr([l \in 0 .. 1 |-> 16], 0, 0, 1, 2)]
x64Q4_0_Dots(b) == [h \in 0 .. 1 |-> X64!DotOn(2 + 16 * h, 0, x64Q4_0_w(b, h), 1)]

x64Q8_0_w(b, h) == [m \in 0 .. 15 |-> X64!I8(b[2 + (16 * h + m)])]
x64Q8_0_Dots(b) == [h \in 0 .. 1 |-> X64!DotOn(2 + 16 * h, 0, x64Q8_0_w(b, h), 1)]

x64Q5_0_w(b, h) ==
    [m \in 0 .. 15 |->
        X64!I8(X64!Nibbles32(b, 6, (16 * h + m))
               + (IF X64!BitOf32(b, 2, (16 * h + m)) = 1 THEN 0 ELSE 15 * 16))]
x64Q5_0_Dots(b) == [h \in 0 .. 1 |-> X64!DotOn(2 + 16 * h, 0, x64Q5_0_w(b, h), 1)]

x64Q4_1_w(b, h) == [m \in 0 .. 15 |-> X64!Nibbles32(b, 4, 16 * h + m) + 0]
x64Q4_1_Dots(b) == [h \in 0 .. 1 |-> X64!DotOn(4 + 16 * h, 0, x64Q4_1_w(b, h), 1)]

x64Q5_1_w(b, h) ==
    [m \in 0 .. 15 |->
        X64!Nibbles32(b, 8, 16 * h + m) + 16 * X64!BitOf32(b, 4, 16 * h + m)]
x64Q5_1_Dots(b) == [h \in 0 .. 1 |-> X64!DotOn(4 + 16 * h, 0, x64Q5_1_w(b, h), 1)]

x64MXFP4_w(b, h) ==
    [m \in 0 .. 15 |-> X64!kvaluesFP4[1 + X64!Nibbles32(b, 1, 16 * h + m)]]
x64MXFP4_Dots(b) == [h \in 0 .. 1 |-> X64!DotOn(2 + 16 * h, 0, x64MXFP4_w(b, h), 1)]

x64IQ4NL_w(b, h) ==
    [m \in 0 .. 15 |-> X64!kvaluesIQ4NL[1 + X64!Nibbles32(b, 2, 16 * h + m)]]
x64IQ4NL_Dots(b) == [h \in 0 .. 1 |-> X64!DotOn(2 + 16 * h, 0, x64IQ4NL_w(b, h), 1)]

-----------------------------------------------------------------------------
(* The nests of arm64.                                                     *)

a64Kx8_w(L, b, c, j, n, k) ==
    [m \in PA64!L8 |-> PA64!a64Kx8Quant(L, b, c, j, n, k, m)]
a64Kx8_s(L, b, c, j, n, k) ==
    PA64!q4Kx8ScalesMins(b, L.scalesOff + 24 * j + 12 * n).sc[c]
a64Kx8_Dots(L, b, c, y, yd) ==
    [j \in 0 .. 3 |-> [n \in 0 .. 1 |-> [k \in 0 .. 3 |->
        PA64!DotOn(y[8 * j + 4 * n + k], yd, a64Kx8_w(L, b, c, j, n, k),
            a64Kx8_s(L, b, c, j, n, k))]]]

a64Q6_w(b, c, centre, j, n, h, k) ==
    [m \in PA64!L8 |-> PA64!a64Q6Quant(b, c, j, n, h, k, m) - centre]
a64Q6_s(b, c, centre, j, n, h, k) ==
    PA64!a64Q6Scale(b, c, 8 * j + n + 4 * h)
a64Q6_Dots(b, c, centre, y, yd) ==
    [j \in 0 .. 1 |-> [n \in 0 .. 3 |-> [h \in 0 .. 1 |-> [k \in 0 .. 1 |->
        PA64!DotOn(y[16 * j + 2 * n + 8 * h + k], yd,
            a64Q6_w(b, c, centre, j, n, h, k), a64Q6_s(b, c, centre, j, n, h, k))]]]]

a64X8_w(L, b, c, n, hi) == [m \in PA64!L8 |-> PA64!unpackL(L, b, c, n, hi, m)]
a64X8_N(c) == {n \in 0 .. 7 : n % 4 = c \div 2}
a64X8_Dots(L, b, c, y, yd) ==
    [n \in a64X8_N(c) |-> [h \in 0 .. 1 |->
        PA64!DotOn(y[n \div 4 + 2 * h], yd, a64X8_w(L, b, c, n, h), 1)]]

a64RepackGemv_Dots(b, c) ==
    [g \in 0 .. 7 |-> PA64!Dot(2 + 16 * (g \div 4) + 4 * (g % 4), PA64!QuadOf(b, g, c),
        1)]

a64RepackGemm_Dots(b, c, r) ==
    [g \in 0 .. 7 |-> PA64!DotOn(8 + 16 * g + 4 * r, 2 * r, PA64!QuadOf(b, g, c), 1)]
a64RepackGemm_Zipped(b, c, r) ==
    [p \in 0 .. 3 |-> [h \in 0 .. 1 |->
        PA64!DotOn(8 + 32 * p + 16 * h + 4 * r, 2 * r, PA64!QuadOf(b, 2 * p + h, c),
            1)]]

-----------------------------------------------------------------------------
(* The nests of amd64.                                                     *)

x64Kx8_Dots(L, b, c, y, yd) ==
    [j \in 0 .. 3 |-> [n \in 0 .. 1 |-> [k \in 0 .. 3 |->
        PX64!x64Kx8Dot(L, b, c, y, yd, j, n, k)]]]

x64Q6_quant(b, c, half, sbk, hi, k, at) ==
    LET ql(s) == PX64!Shr(b, PX64!q6Kx8.qlOff + 512 * half + 128 * sbk + 64 * k,
                          at, s, 2) % 16
        qh == PX64!Shr(b, PX64!q6Kx8.qhOff + 256 * half + 128 * (sbk % 2) + 64 * k, at,
                       IF sbk < 2 THEN 0 ELSE 2, 2)
    IN  IF hi = 0 THEN ql(0) + (qh % 4) * 2^4 ELSE ql(4) + PX64!Bits(qh, 4, 2) * 2^4
x64Q6_w(b, c, half, sbk, hi, k) ==
    [m \in PX64!L8 |-> x64Q6_quant(b, c, half, sbk, hi, k,
        PX64!HaddAt(PX64!LaneOf(c)) + m)]
x64Q6_s(b, c, half, sbk, hi) ==
    PX64!I8(b[PX64!q6Kx8.scalesOff + 8 * (8 * half + sbk + 4 * hi)
        + PX64!ScaledAs(PX64!LaneOf(c))])
x64Q6_Dots(b, c, y, yd) ==
    [j \in 0 .. 1 |-> [n \in 0 .. 3 |-> [h \in 0 .. 1 |-> [k \in 0 .. 1 |->
        PX64!DotOn(y[16 * j + 2 * n + 8 * h + k], yd, x64Q6_w(b, c, j, n, h, k),
            x64Q6_s(b, c, j, n, h))]]]]

x64X8_w(L, b, c, n, hi) ==
    [m \in PX64!L8 |-> PX64!x64X8Unpack(L, b, n, hi,
        (PX64!HaddAt(PX64!LaneOf(c)) % 32) \div 8, m)]
x64X8_N(c) == {e \in PX64!L4 : e % 2 = PX64!HaddAt(PX64!LaneOf(c)) \div 32}
x64X8_Dots(L, b, c, y, yd) ==
    [n \in x64X8_N(c) |-> [h \in 0 .. 1 |->
        PX64!DotOn(y[n \div 2 + 2 * h], yd, x64X8_w(L, b, c, n, h), 1)]]

x64RepackGemv_Dots(b, c) ==
    [g \in 0 .. 7 |-> PX64!Dot(2 + 4 * g, PX64!QuadOf(b, g, c), 1)]
x64RepackGemv_w(b, c, j, h) ==
    [m \in PX64!L4 |-> ((b[8 + 32 * j + 16 * h + 4 * c + m] + 128) % 256)]
x64RepackGemv_Biased(b, c) ==
    [j \in 0 .. 3 |-> [h \in 0 .. 1 |->
        PX64!Dot(2 + 4 * (4 * (j \div 2) + 2 * (j % 2) + h),
            x64RepackGemv_w(b, c, j, h), 1)]]

x64RepackGemm_Dots(b, c, r) ==
    [g \in 0 .. 7 |-> PX64!DotOn(8 + 16 * g + 4 * r, 2 * r, PX64!QuadOf(b, g, c), 1)]
x64RepackGemm_Pairs(b, c, r) ==
    [p \in 0 .. 3 |-> [h \in 0 .. 1 |->
        PX64!DotOn(8 + 16 * (2 * p + h) + 4 * r, 2 * r, PX64!QuadOf(b, 2 * p + h, c),
            1)]]

-----------------------------------------------------------------------------
(* The tile of arm64.                                                      *)

(* q5_K: a shift by 2j is a division by 4^j.                               *)
a64Q5_Low(b, j, m) == ((b[16 + m] \div 4^j) % 2) * 16
a64Q5_High(b, j, m) == A64!Bits(b[16 + m] \div 4^j, 1, 1) * 2 * 8
a64Q5_Dot(b, j, k) ==
    A64!Dot(4 + 64 * j + 16 * k,
            [m \in A64!L16 |->
                IF k < 2 THEN (b[48 + 32 * j + 16 * k + m] % 16)
                    + a64Q5_Low(b, j, 16 * k + m)
                ELSE b[48 + 32 * j + 16 * (k - 2) + m] \div 16
                    + a64Q5_High(b, j, 16 * (k - 2) + m)],
            A64!q4KScalesMins(b).sc[2 * j + k \div 2])
a64Q5_TiledDot(b, j, k) ==
    A64!Dot(4 + 64 * j + 16 * k,
            [m \in A64!L16 |->
                IF k < 2 THEN (b[48 + 32 * j + 16 * k + m] % 16)
                    + A64!a64Q5Fifth(b, j, 16 * k + m, 1, 4)
                ELSE b[48 + 32 * j + 16 * (k - 2) + m] \div 16
                    + A64!a64Q5Fifth(b, j, 16 * (k - 2) + m, 2, 3)],
            A64!q4KScalesMins(b).sc[2 * j + k \div 2])

a64Q5_Form(b, dots) ==
    A64!KBlock(b, dots, A64!q4KScalesMins(b).m,
               A64!Ld(16, {16, 32} \cup {48 + 16 * n : n \in A64!L8}))

-----------------------------------------------------------------------------
(* The weights of the nests of amd64, by where their bits lie.             *)

(* q4_K and q5_K: a nibble, and the fifth bit above it.                    *)
x64Kx8_at(L, b, sb, nib, k, at) ==
    LET o == L.qsOff + 256 * sb + 64 * k
        nibble == IF nib = 0 THEN b[o + at] % 16 ELSE PX64!Shr(b, o, at, 4, 2) % 16
    IN  nibble + (IF L.fifth THEN PX64!x64Kx8Fifth(L, b, sb, nib, k, at) ELSE 0)

x64X8_nibble(L, b, n, hi, e) ==
    LET raw(l) == PX64!Unflipped(L, b[L.qsOff + 32 * n + l])
    IN  IF hi = 0 THEN raw(e) % 16
        ELSE PX64!Shr([l \in 0 .. 31 |-> raw(l)], 0, e, 4, 2) % 16
x64X8_run(hi, p) == IF hi = 0 THEN <<0, 1, 4, 5>>[1 + p] ELSE <<2, 3, 6, 7>>[1 + p]
x64X8_fifth(L, b, n, hi, p, m) == PX64!Bits(b[L.qhOff + 8 * n + x64X8_run(hi, p)], m, 1)
=============================================================================
