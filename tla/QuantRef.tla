------------------------------ MODULE QuantRef ------------------------------
(***************************************************************************)
(* What a block of each quantization format means, as the tests of the     *)
(* kernels state it: the scalar loops of the gen functions in              *)
(* kernels/internal/asm/vecdot_*_test.go, which follow the generic bodies  *)
(* the kernels override.                                                   *)
(*                                                                         *)
(* quant k of a block is worth d * Weight / RefDen + dmin * Offset, where  *)
(* d and dmin are the block scales of Scale and OffsetScale.               *)
(***************************************************************************)
EXTENDS Lanes

Legacy     == {"q4_0", "q8_0", "q5_0", "q4_1", "q5_1", "iq4_nl", "mxfp4"}
Packed     == {"q1_0", "q2_0", "nvfp4"}
KFormats   == {"q2_K", "q3_K", "q4_K", "q5_K", "q6_K"}
Codebooks  == {"iq4_xs", "iq3_xxs", "iq3_s", "iq2_xxs", "iq2_xs", "iq2_s",
               "iq1_s", "iq1_m"}
Ternary    == {"tq1_0", "tq2_0"}
Formats    == Legacy \cup Packed \cup KFormats \cup Codebooks \cup Ternary

(* Bytes of a weight block.                                                *)
BlockBytes ==
    [q4_0 |-> 18, q8_0 |-> 34, q5_0 |-> 22, q4_1 |-> 20, q5_1 |-> 24,
     iq4_nl |-> 18, mxfp4 |-> 17, q1_0 |-> 18, q2_0 |-> 18, nvfp4 |-> 36,
     q2_K |-> 84, q3_K |-> 110, q4_K |-> 144, q5_K |-> 176, q6_K |-> 210,
     iq4_xs |-> 136, iq3_xxs |-> 98, iq3_s |-> 110, iq2_xxs |-> 66,
     iq2_xs |-> 74, iq2_s |-> 82, iq1_s |-> 50, iq1_m |-> 56,
     tq1_0 |-> 54, tq2_0 |-> 66]

(* Quants of a block, and the activation blocks they are multiplied with.  *)
QuantsOf(fmt) == CASE fmt \in Legacy -> 32
                   [] fmt = "q1_0" -> 128
                   [] fmt \in {"q2_0", "nvfp4"} -> 64
                   [] OTHER -> 256

ActivationsOf(fmt) == CASE fmt \in {"q4_1", "q5_1"} -> Activations.q8_1
                        [] fmt \in (Legacy \ {"q4_1", "q5_1"}) \cup Packed -> Activations.q8_0
                        [] OTHER -> Activations.q8_K

-----------------------------------------------------------------------------
(* The 32-quant formats: quants j and j + 16 share byte j.                 *)
Nibble(b, qs, k) == IF k < 16 THEN b[qs + k] % 16 ELSE b[qs + k - 16] \div 16
Fifth(b, qh, k) == 16 * Bits(b[qh + k \div 8], k % 8, 1)

genQ4_0(b, k) == Nibble(b, 2, k) - 8
genQ8_0(b, k) == I8(b[2 + k])
genQ5_0(b, k) == Nibble(b, 6, k) + Fifth(b, 2, k) - 16
genQx1(fifth, b, k) == IF fifth THEN Nibble(b, 8, k) + Fifth(b, 4, k)
                       ELSE Nibble(b, 4, k)
genIQ4(b, k) == kvaluesIQ4NL[1 + Nibble(b, 2, k)]
genMXFP4(b, k) == kvaluesFP4[1 + Nibble(b, 1, k)]

(* 2^(e - 128) as float bits: normal from e = 2 on, halved twice below.    *)
Ldexp128(e) == CASE e = 0 -> 2^21 [] e = 1 -> 2^22 [] OTHER -> (e - 1) * 2^23

-----------------------------------------------------------------------------
(* The K formats.                                                          *)
scaleMinK4(b, j) ==
    IF j < 4 THEN [sc |-> b[4 + j] % 64, m |-> b[4 + j + 4] % 64]
    ELSE [sc |-> (b[4 + j + 4] % 16) + 16 * (b[4 + j - 4] \div 64),
          m  |-> b[4 + j + 4] \div 16 + 16 * (b[4 + j] \div 64)]

KNibble(b, qs, k) == LET byte == b[qs + 32 * (k \div 64) + (k % 32)]
                     IN  IF (k \div 32) % 2 = 0 THEN byte % 16 ELSE byte \div 16

genQ4_K(b, k) == scaleMinK4(b, k \div 32).sc * KNibble(b, 16, k)
genQ5_K(b, k) == scaleMinK4(b, k \div 32).sc
                 * (KNibble(b, 48, k) + 16 * Bits(b[16 + (k % 32)], k \div 32, 1))

genQ6_K(b, k) ==
    LET h == k \div 128
        part == (k \div 32) % 4
        l == k % 32
        ql == b[64 * h + 32 * (part % 2) + l]
        q == (IF part < 2 THEN ql % 16 ELSE ql \div 16)
             + 16 * Bits(b[128 + 32 * h + l], 2 * part, 2) - 32
    IN  I8(b[192 + 8 * h + l \div 16 + 2 * part]) * q

Plane(b, qs, k) == Bits(b[qs + 32 * (k \div 128) + (k % 32)], 2 * ((k \div 32) % 4), 2)

genQ2_K(b, k) == (b[k \div 16] % 16) * Plane(b, 16, k)

q3Scale(b, i) ==
    LET low == b[96 + 4 * ((i \div 4) % 2) + (i % 4)]
        nib == IF i < 8 THEN low % 16 ELSE low \div 16
    IN  nib + 16 * Bits(b[104 + (i % 4)], 2 * (i \div 4), 2) - 32

genQ3_K(b, k) ==
    LET centred == IF Bits(b[k % 32], k \div 32, 1) = 0 THEN 4 ELSE 0
    IN  q3Scale(b, k \div 16) * (Plane(b, 32, k) - centred)

genIQ4XS(b, k) ==
    LET ib == k \div 32
        ls == Bits(b[4 + ib \div 2], 4 * (ib % 2), 4)
              + 16 * Bits(U16(b, 2), 2 * ib, 2) - 32
        byte == b[8 + 16 * ib + (k % 16)]
    IN  ls * kvaluesIQ4NL[1 + (IF k % 32 < 16 THEN byte % 16 ELSE byte \div 16)]

-----------------------------------------------------------------------------
(* The codebook formats: sub-block ib, group l of eight, quant j of it.    *)
Aux(b, o, lo, n) == LET word == U16(b, o) + 65536 * (U16(b, o + 2) % 16384)
                    IN  Bits(word, lo, n)     \* the low 30 bits of the word

(* The eighth sign is the parity of the seven in the code.                 *)
evenSigns(code, j) ==
    LET ones[i \in 0 .. 7] == IF i = 0 THEN 0 ELSE ones[i - 1] + Bits(code, i - 1, 1)
    IN  SignBit(code + 128 * (ones[7] % 2), j)

genIQ3XXS(b, k) ==
    LET ib == k \div 32
        l  == (k % 32) \div 8
        j  == k % 8
        g  == Grid("iq3_xxs", b[2 + 8 * ib + 2 * l + j \div 4], j % 4)
    IN  (2 * (b[69 + 4 * ib] \div 16) + 1) * g
        * evenSigns(Aux(b, 66 + 4 * ib, 7 * l, 7), j)

genIQ3S(b, k) ==
    LET ib == k \div 32
        l  == (k % 32) \div 8
        j  == k % 8
        n  == 2 * l + j \div 4
        g  == Grid("iq3_s", b[2 + 8 * ib + n] + 256 * Bits(b[66 + ib], n, 1), j % 4)
        sc == b[106 + ib \div 2]
    IN  (2 * (IF ib % 2 = 0 THEN sc % 16 ELSE sc \div 16) + 1) * g
        * SignBit(b[74 + 4 * ib + l], j)

genIQ2(kind, b, k) ==
    LET ib == k \div 32
        l  == (k % 32) \div 8
        j  == k % 8
        sc(o) == 2 * (IF l < 2 THEN b[o + ib] % 16 ELSE b[o + ib] \div 16) + 1
        q2 == U16(b, 2 + 8 * ib + 2 * l)
    IN  CASE kind = "iq2_xxs" ->
               (2 * (b[9 + 8 * ib] \div 16) + 1) * Grid(kind, b[2 + 8 * ib + l], j)
               * evenSigns(Aux(b, 6 + 8 * ib, 7 * l, 7), j)
          [] kind = "iq2_xs" ->
               sc(66) * Grid(kind, q2 % 512, j) * evenSigns(q2 \div 512, j)
          [] kind = "iq2_s" ->
               sc(74) * Grid(kind, b[2 + 4 * ib + l] + 256 * Bits(b[66 + ib], 2 * l, 2), j)
               * SignBit(b[34 + 4 * ib + l], j)

(* An eighth of the scale up or down, so the weights are over eight.       *)
genIQ1S(b, k) ==
    LET ib == k \div 32
        l  == (k % 32) \div 8
        qh == U16(b, 34 + 2 * ib)
        g  == Grid("iq1", b[2 + 4 * ib + l] + 256 * Bits(qh, 3 * l, 3), k % 8)
    IN  (2 * Bits(qh, 12, 3) + 1) * (8 * g + (IF qh >= 32768 THEN -1 ELSE 1))

genIQ1M(b, k) ==
    LET ib == k \div 32
        l  == (k % 32) \div 8
        qh == Bits(b[32 + 2 * ib + l \div 2], 4 * (l % 2), 4)
        g  == Grid("iq1", b[4 * ib + l] + 256 * (qh % 8), k % 8)
        ls == 2 * Bits(U16(b, 48 + 2 * (ib \div 2)), 6 * (ib % 2) + 3 * (l \div 2), 3) + 1
    IN  ls * (8 * g + (IF qh >= 8 THEN -1 ELSE 1))

-----------------------------------------------------------------------------
genTQ2(b, k) == Bits(b[32 * (k \div 128) + (k % 32)], 2 * ((k \div 32) % 4), 2) - 1

(* 32 bytes of five digits, 16 of five, 4 of four.                         *)
genTQ1(b, k) ==
    LET dig(q, l) == (((q * 3^l) % 256) * 3) \div 256 - 1
    IN  CASE k < 160 -> dig(b[k % 32], k \div 32)
          [] k \in 160 .. 239 -> dig(b[32 + ((k - 160) % 16)], (k - 160) \div 16)
          [] k > 239 -> dig(b[48 + ((k - 240) % 4)], (k - 240) \div 4)

genQ1(b, k) == IF Bits(b[2 + k \div 8], k % 8, 1) = 1 THEN 1 ELSE -1
genQ2(b, k) == Bits(b[2 + k \div 4], 2 * (k % 4), 2) - 1

(* In units of 2^-10.                                                      *)
ue4m3(x) == CASE x \in {0, 127} -> 0
              [] x \notin {0, 127} /\ Bits(x, 3, 4) = 0 -> x % 8
              [] OTHER -> (8 + (x % 8)) * 2^(Bits(x, 3, 4) - 1)

genNV(b, k) ==
    LET s == k \div 16
        byte == b[4 + 8 * s + (k % 8)]
    IN  ue4m3(b[s]) * kvaluesFP4[1 + (IF k % 16 < 8 THEN byte % 16 ELSE byte \div 16)]

-----------------------------------------------------------------------------
Weight(fmt, b, k) ==
    CASE fmt = "q4_0" -> genQ4_0(b, k)       [] fmt = "q8_0" -> genQ8_0(b, k)
      [] fmt = "q5_0" -> genQ5_0(b, k)       [] fmt = "q4_1" -> genQx1(FALSE, b, k)
      [] fmt = "q5_1" -> genQx1(TRUE, b, k)  [] fmt = "iq4_nl" -> genIQ4(b, k)
      [] fmt = "mxfp4" -> genMXFP4(b, k)     [] fmt = "q1_0" -> genQ1(b, k)
      [] fmt = "q2_0" -> genQ2(b, k)         [] fmt = "nvfp4" -> genNV(b, k)
      [] fmt = "q2_K" -> genQ2_K(b, k)       [] fmt = "q3_K" -> genQ3_K(b, k)
      [] fmt = "q4_K" -> genQ4_K(b, k)       [] fmt = "q5_K" -> genQ5_K(b, k)
      [] fmt = "q6_K" -> genQ6_K(b, k)       [] fmt = "iq4_xs" -> genIQ4XS(b, k)
      [] fmt = "iq3_xxs" -> genIQ3XXS(b, k)  [] fmt = "iq3_s" -> genIQ3S(b, k)
      [] fmt \in {"iq2_xxs", "iq2_xs", "iq2_s"} -> genIQ2(fmt, b, k)
      [] fmt = "iq1_s" -> genIQ1S(b, k)      [] fmt = "iq1_m" -> genIQ1M(b, k)
      [] fmt = "tq1_0" -> genTQ1(b, k)       [] fmt = "tq2_0" -> genTQ2(b, k)

RefDen(fmt) == CASE fmt = "iq3_xxs" -> 4
                 [] fmt \in {"iq2_xxs", "iq2_xs", "iq2_s", "iq1_s", "iq1_m"} -> 8
                 [] fmt = "nvfp4" -> 1024
                 [] OTHER -> 1

Offset(fmt, b, k) ==
    CASE fmt \in {"q4_K", "q5_K"} -> -scaleMinK4(b, k \div 32).m
      [] fmt = "q2_K" -> -(b[k \div 16] \div 16)
      [] fmt \in {"q4_1", "q5_1"} -> 1
      [] OTHER -> 0

(* Where the scales are: none in nvfp4, assembled in iq1_m.                *)
Scale(fmt, b) ==
    CASE fmt = "mxfp4" -> <<"f32", Ldexp128(b[0])>>
      [] fmt = "nvfp4" -> <<>>
      [] fmt = "q2_K" -> F16(b, 80)
      [] fmt = "q3_K" -> F16(b, 108)
      [] fmt = "q6_K" -> F16(b, 208)
      [] fmt = "tq1_0" -> F16(b, 52)
      [] fmt = "tq2_0" -> F16(b, 64)
      [] fmt = "iq1_m" -> <<"f16", 16 * (b[51] \div 16) + b[49] \div 16,
                            16 * (b[55] \div 16) + b[53] \div 16>>
      [] OTHER -> F16(b, 0)

OffsetScale(fmt, b) ==
    CASE fmt \in {"q4_K", "q5_K", "q4_1", "q5_1"} -> F16(b, 2)
      [] fmt = "q2_K" -> F16(b, 82)
      [] OTHER -> <<>>
=============================================================================
