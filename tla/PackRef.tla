------------------------------ MODULE PackRef ------------------------------
(***************************************************************************)
(* The interleaving of plain rows into the blocks the repacked products    *)
(* read, as the kernels' tests do it (the packing functions of the         *)
(* repack tests in kernels/internal/asm, after those of llama.cpp): in[c]  *)
(* is the plain block of column c, the result a function of the byte       *)
(* offset.                                                                 *)
(***************************************************************************)
EXTENDS QuantRef

PackedBytes ==
    [q4_K |-> 1152, q5_K |-> 1408, q6_K |-> 1680, q5_0 |-> 176,
     q4_0 |-> 144, iq4_nl |-> 144, mxfp4 |-> 136, q8_0 |-> 136]

Columns(fmt) == IF fmt = "q8_0" THEN 4 ELSE 8

(* Byte o of the columns' bytes from `at` on, in turns of eight bytes.     *)
Group(in, at, o) == in[(o \div 8) % 8][at + 8 * (o \div 64) + (o % 8)]

(* Twelve bytes per sub-block j: the 6-bit scales and mins of the columns, *)
(* the upper four split between two words.                                 *)
packedScales(in, p) ==
    LET j == p \div 12
        n == p % 4
        s(c) == scaleMinK4(in[c], j).sc
        m(c) == scaleMinK4(in[c], j).m
    IN  CASE (p % 12) \div 4 = 0 -> s(n) + 64 * (s(4 + n) \div 16)
          [] (p % 12) \div 4 = 1 -> m(n) + 64 * (m(4 + n) \div 16)
          [] (p % 12) \div 4 = 2 -> (s(4 + n) % 16) + 16 * (m(4 + n) % 16)

(* d, dmin and the scales, then the bytes from 16 on: qs, or qh and qs.    *)
repackKx8(in, o) ==
    CASE o < 16 -> in[o \div 2][o % 2]
      [] o \in 16 .. 31 -> in[(o - 16) \div 2][2 + (o % 2)]
      [] o \in 32 .. 127 -> packedScales(in, o - 32)
      [] o > 127 -> Group(in, 16, o - 128)

repackQ6Kx8(in, o) ==
    CASE o < 16 -> in[o \div 2][208 + (o % 2)]
      [] o \in 16 .. 143 -> in[o % 8][192 + (o - 16) \div 8]
      [] o \in 144 .. 1167 -> Group(in, 0, o - 144)
      [] o > 1167 -> Group(in, 128, o - 1168)

(* Entry m of qh: fifth bits of columns c0, c0 + 1 in two bytes each.      *)
repackQ5_0x8(in, o) ==
    LET m == (o - 16) \div 4
        c0 == 2 * (m % 4)
    IN  CASE o < 16 -> in[o \div 2][o % 2]
          [] o \in 16 .. 47 -> in[c0 + (o % 2)][2 + 2 * ((o % 4) \div 2) + m \div 4]
          [] o > 47 -> Group(in, 6, o - 48)

repackX8Plain(in, o) == IF o < 16 THEN in[o \div 2][o % 2] ELSE Group(in, 2, o - 16)

(* Every nibble xor 8.                                                     *)
repackQ4_0x8(in, o) ==
    LET x == repackX8Plain(in, o)
    IN  IF o < 16 THEN x ELSE ((x + 8) % 16) + 16 * ((x \div 16 + 8) % 16)

repackMXFP4x8(in, o) == IF o < 8 THEN in[o][0] ELSE Group(in, 1, o - 8)

(* Four columns in turns of four bytes.                                    *)
q8_0x4(in, o) == IF o < 8 THEN in[o \div 2][o % 2]
                 ELSE in[((o - 8) \div 4) % 4][2 + 4 * ((o - 8) \div 16) + (o % 4)]

Packing(fmt, in) ==
    [o \in 0 .. PackedBytes[fmt] - 1 |->
        CASE fmt \in {"q4_K", "q5_K"} -> repackKx8(in, o)
          [] fmt = "q6_K" -> repackQ6Kx8(in, o)
          [] fmt = "q5_0" -> repackQ5_0x8(in, o)
          [] fmt = "q4_0" -> repackQ4_0x8(in, o)
          [] fmt = "iq4_nl" -> repackX8Plain(in, o)
          [] fmt = "mxfp4" -> repackMXFP4x8(in, o)
          [] fmt = "q8_0" -> q8_0x4(in, o)]
=============================================================================
