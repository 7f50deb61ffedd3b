------------------------------- MODULE Packs --------------------------------
(***************************************************************************)
(* The interleaved weight blocks of the repacked products: the rows of     *)
(* eight (or four) columns in one block, in runs of eight (or four) bytes. *)
(*                                                                         *)
(* A nest computes a cell (column c, activation row r) at a time as far as *)
(* the bytes are concerned; PackA64 and PackX64 give the linear form of a  *)
(* cell.                                                                   *)
(***************************************************************************)
EXTENDS Lanes

(* kx8Layout: d[8] and dmin[8] come first.                                 *)
q4Kx8Layout == [blockBytes |-> 1152, scalesOff |-> 32, qsOff |-> 128,
                qhOff |-> 0, fifth |-> FALSE]
q5Kx8Layout == [blockBytes |-> 1408, scalesOff |-> 32, qsOff |-> 384,
                qhOff |-> 128, fifth |-> TRUE]

kx8Layout(fmt) == IF fmt = "q4_K" THEN q4Kx8Layout ELSE q5Kx8Layout

q6Kx8 == [blockBytes |-> 1680, scalesOff |-> 16, qlOff |-> 144, qhOff |-> 1168]

(* x8Layout: the unsigned quants are 2^shift too large; lut is the table   *)
(* of the formats whose nibbles are indices, which need no offset.         *)
x8Layout(fmt) ==
    CASE fmt = "q5_0"   -> [blockBytes |-> 176, qsOff |-> 48, qhOff |-> 16, shift |-> 4,
                            fifth |-> TRUE, xor |-> FALSE, lut |-> <<>>, e8m0 |-> FALSE]
      [] fmt = "q4_0"   -> [blockBytes |-> 144, qsOff |-> 16, qhOff |-> 0, shift |-> 3,
                            fifth |-> FALSE, xor |-> TRUE, lut |-> <<>>, e8m0 |-> FALSE]
      [] fmt = "iq4_nl" -> [blockBytes |-> 144, qsOff |-> 16, qhOff |-> 0, shift |-> 0,
                            fifth |-> FALSE, xor |-> FALSE, lut |-> kvaluesIQ4NL,
                            e8m0 |-> FALSE]
      [] fmt = "mxfp4"  -> [blockBytes |-> 136, qsOff |-> 8, qhOff |-> 0, shift |-> 0,
                            fifth |-> FALSE, xor |-> FALSE, lut |-> kvaluesFP4,
                            e8m0 |-> TRUE]

Signed(L) == L.lut # <<>>

(* q4_0 is stored with 8 in every nibble flipped.                          *)
Unflipped(L, byte) ==
    IF L.xor THEN (((byte % 16) + 8) % 16) + 16 * ((byte \div 16 + 8) % 16) ELSE byte

(* E8M0: the shift of 0x00200000 where e < 2, the exponent field above.    *)
E8M0Half(e) == IF e < 2 THEN 2097152 * 2^e ELSE (e - 1) * 2^23

x8Scales(L, b, c) == IF L.e8m0 THEN <<"f32", E8M0Half(b[c])>> ELSE F16(b, 2 * c)

(* The offset of the unsigned quants, taken off through the sum of the     *)
(* activations of row r; `row` is the row whose sum the kernel subtracts.  *)
x8Bias(L, row, r) ==
    [k \in Quants |-> IF Signed(L) \/ row # r THEN 0 ELSE -(2^L.shift)]

-----------------------------------------------------------------------------
(* Where row r finds its eight-quant groups and its scale: alone in a      *)
(* q8_K or q8_0 row (GEMV), or among the four rows of a block_q8_Kx4 or    *)
(* block_q8_0x4 (GEMM).                                                    *)
GemvY(a) == [g \in L32 |-> a.qs + 8 * g]
GemmY(a, r) == [g \in L32 |-> a.qs + 32 * g + 8 * r]

(* The terms of a K block that come through block sums: at[j] is the block *)
(* sum, or the pair of them, that the kernel multiplies with c[j].         *)
ByBlockSum(a, r, per, at, c) ==
    [k \in Quants |-> LET s == BSumAt(a, r, k) \div per
                      IN  IF \E j \in DOMAIN at : at[j] = s
                          THEN c[CHOOSE j \in DOMAIN at : at[j] = s] ELSE 0]
=============================================================================
