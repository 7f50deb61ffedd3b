------------------------------- MODULE Lanes --------------------------------
(***************************************************************************)
(* The lane arithmetic the row-dot kernels of src/kernels/internal/asm are *)
(* written in, and the linear form a kernel computes.                      *)
(*                                                                         *)
(* A block of weights is a function from byte offsets to bytes.  A row dot *)
(* of one block is linear in the activations, so what a kernel computes is *)
(* its coefficients: which activation byte each lane of a dot instruction  *)
(* multiplies, with which weight, and under which scale.  The bit twiddling*)
(* that produces the weights is kept exactly; the order of the additions   *)
(* inside a register is not.                                               *)
(***************************************************************************)
EXTENDS Integers

CONSTANT Grid(_, _, _)   \* byte n of entry i of the codebook of format f

L4  == 0 .. 3
L8  == 0 .. 7
L16 == 0 .. 15
L32 == 0 .. 31

(***************************************************************************)
(* Bytes and bit fields.                                                   *)
(***************************************************************************)

(* n bits of x from bit lo: the shift right and the mask of the code.      *)
Bits(x, lo, n) == (x \div 2^lo) % 2^n

(* A byte read as signed: SDOT and VPMADDUBSW's second operand.            *)
I8(x) == IF x > 127 THEN x - 256 ELSE x

U16(b, o) == b[o] + 256 * b[o + 1]

(* Byte m of the vector at o after a logical shift right by s < 8 of its   *)
(* lanes of `width` bytes: USHR.16B has width 1, VPSRLW 2, LSRW 4.  With a *)
(* wide lane the low bits of the next byte come in from above, and only    *)
(* the mask that follows removes them.                                     *)
Shr(b, o, m, s, width) ==
    LET next == IF (m + 1) % width = 0 THEN 0 ELSE b[o + m + 1]
    IN  ((b[o + m] + 256 * next) \div 2^s) % 256

(* UBFX: n bits from bit lo of the little-endian word at o, n <= 9.         *)
Field(b, o, lo, n) ==
    LET q == o + lo \div 8
        above == IF (lo % 8) + n > 8 THEN b[q + 1] ELSE 0
    IN  ((b[q] + 256 * above) \div 2^(lo % 8)) % 2^n

(* A raw half-precision value: the kernels convert it and multiply by it.  *)
F16(b, o) == <<"f16", b[o], b[o + 1]>>

(***************************************************************************)
(* The linear form of one block.                                           *)
(*                                                                         *)
(*   dots  one record per dot instruction: lane i multiplies the           *)
(*         activation byte at y + i by the weight w[i]; the sum is scaled  *)
(*         by the integer s and by the activation scale at offset yd       *)
(*   den   what the integer total of the dots is divided by                *)
(*   bias  the coefficient of quant k that comes from sums of activations  *)
(*         instead, over bden                                              *)
(*   mins  the same under the second block scale, dmin                     *)
(*   d     the block scale (raw bits)                                      *)
(*   act   the largest magnitude an activation may have in a dot that      *)
(*         saturates its pair sums at 16 bits; 0 when dots do not saturate *)
(*   ld    the loads from the weight block, ldy those from the activations *)
(*         besides the dots' own, as <<offset, bytes>>                     *)
(*   words the sets of dots whose pair sums are added up in 16 bits before *)
(*         they are widened                                                *)
(***************************************************************************)
DotOn(y, yd, w, s) == [y |-> y, yd |-> yd, w |-> w, s |-> s]
Dot(y, w, s) == DotOn(y, 0, w, s)

Quants == 0 .. 255
NoSums == [k \in Quants |-> 0]

Form(dots, d, ld) ==
    [dots |-> dots, den |-> 1, bias |-> NoSums, bden |-> 1,
     mins |-> NoSums, dmin |-> <<>>, d |-> d, act |-> 0, ld |-> ld, ldy |-> {},
     words |-> {}]

(* c[i] times the 16-quant activation sum i, for every i.                  *)
Sums16(c) == [k \in Quants |-> c[k \div 16]]
(* Mutant: the second load of the sums reaches past the block.             *)
BSums_TooWide == {<<260, 16>>, <<276, 32>>}

BSums == {<<260, 16>>, <<276, 16>>}

(* VPMADDUBSW reads one operand unsigned.  Unsigned weights take any       *)
(* activation; signed ones go in as magnitudes, their signs moved to the   *)
(* activations by VPSIGNB, which cannot negate -128.                       *)
UnsignedPairs(f) == [f EXCEPT !.act = 128]
SignedPairs(f)   == [f EXCEPT !.act = 127]

-----------------------------------------------------------------------------
(* The tables both architectures read.                                     *)

(* Loads of 16 bytes at each offset of S, and smaller ones.                *)
Ld(n, S) == {<<o, n>> : o \in S}

(* A byte of sign bits, spread over eight lanes by TBL and CMTST.          *)
SignBit(byte, i) == IF Bits(byte, i, 1) = 1 THEN -1 ELSE 1

(* The table of 7-bit sign codes, expanded to bytes of +1 and -1.          *)
ksignsIQ2XS ==
    <<0, 129, 130, 3, 132, 5, 6, 135, 136, 9, 10, 139, 12, 141, 142, 15,
      144, 17, 18, 147, 20, 149, 150, 23, 24, 153, 154, 27, 156, 29, 30, 159,
      160, 33, 34, 163, 36, 165, 166, 39, 40, 169, 170, 43, 172, 45, 46, 175,
      48, 177, 178, 51, 180, 53, 54, 183, 184, 57, 58, 187, 60, 189, 190, 63,
      192, 65, 66, 195, 68, 197, 198, 71, 72, 201, 202, 75, 204, 77, 78, 207,
      80, 209, 210, 83, 212, 85, 86, 215, 216, 89, 90, 219, 92, 221, 222, 95,
      96, 225, 226, 99, 228, 101, 102, 231, 232, 105, 106, 235, 108, 237, 238, 111,
      240, 113, 114, 243, 116, 245, 246, 119, 120, 249, 250, 123, 252, 125, 126, 255>>

kevenSigns(code, i) == SignBit(ksignsIQ2XS[1 + code], i)

(* The codebooks, by the bytes that occur in each.                         *)
iq3xxsGrid == {4, 12, 20, 28, 36, 44, 52, 62}
iq3sGrid   == {1, 3, 5, 7, 9, 11, 13, 15}
iq2xxsGrid == {8, 25, 43}
iq2xsGrid  == {8, 25, 43}
iq2sGrid   == {8, 25, 43}
iq1sGrid   == {-1, 0, 1}

Codebook == [iq3_xxs |-> [size |-> 256, bytes |-> iq3xxsGrid],
             iq3_s   |-> [size |-> 512, bytes |-> iq3sGrid],
             iq2_xxs |-> [size |-> 256, bytes |-> iq2xxsGrid],
             iq2_xs  |-> [size |-> 512, bytes |-> iq2xsGrid],
             iq2_s   |-> [size |-> 1024, bytes |-> iq2sGrid],
             iq1     |-> [size |-> 2048, bytes |-> iq1sGrid]]

ASSUME GridAssumption ==
    \A f \in DOMAIN Codebook : \A i \in 0 .. Codebook[f].size - 1, n \in L8 :
        Grid(f, i, n) \in Codebook[f].bytes

kvaluesIQ4NL == <<-127, -104, -83, -65, -49, -35, -22, -10,
                  1, 13, 25, 38, 53, 69, 89, 113>>
kvaluesFP4 == <<0, 1, 2, 3, 4, 6, 8, 12, 0, -1, -2, -3, -4, -6, -8, -12>>

(* UE4M3 in units of 2^-10: codes 0 and 0x7f are zero, bit 7 is dropped.   *)
ue4m3ToF32(x) ==
    LET exp == Bits(x, 3, 4)
        man == x % 8
    IN  CASE x = 0 \/ x = 127 -> 0
          [] x \notin {0, 127} /\ exp = 0 -> man
          [] OTHER -> (8 + man) * 2^(exp - 1)

One(ib, m) == 1

-----------------------------------------------------------------------------
(* Activation blocks: bytes of the block, offset of its quants, how many   *)
(* of each row it holds, how many rows, in runs of how many, and the bytes *)
(* of a row's scale.  Several q8_0 blocks may stand side by side.          *)
Activations ==
    LET plain(bytes, qs, n) == [bytes |-> bytes, qs |-> qs, n |-> n,
                                rows |-> 1, run |-> n, d |-> 0]
        q8_0x4(run) == [bytes |-> 136, qs |-> 8, n |-> 32, rows |-> 4, run |-> run, d |-> 2]
    IN  [q8_0 |-> plain(34, 2, 32), q8_1 |-> plain(36, 4, 32), q8_K |-> plain(292, 4, 256),
         q8_0x4by4 |-> q8_0x4(4), q8_0x4by8 |-> q8_0x4(8),
         q8_Kx4 |-> [bytes |-> 1168, qs |-> 16, n |-> 256, rows |-> 4, run |-> 8, d |-> 4]]

(* The byte offset of quant k of row r, and of the scale of its block: for *)
(* four rows, where the quantizers of the GEMM's activations store them.   *)
QuantAt(a, r, k) == a.bytes * (k \div a.n) + a.qs + a.rows * a.run * ((k % a.n) \div a.run)
                    + a.run * r + (k % a.run)
ScaleAt(a, r, k) == a.bytes * (k \div a.n) + a.d * r

(* The 16-quant block sum that covers quant k of row r: in order in q8_K,  *)
(* by quarter and then by row in q8_Kx4.                                   *)
BSumAt(a, r, k) == IF a.rows = 1 THEN k \div 16
                   ELSE 16 * (k \div 64) + 4 * r + ((k \div 16) % 4)
=============================================================================
