------------------------------ MODULE MCQuants ------------------------------
(* Small instance of Quants: a few blocks of bytes with no pattern a       *)
(* decoder could follow by accident, and the extreme bytes.                *)
EXTENDS Quants, FiniteSets

(* Byte h of the bytes of a codebook, in order.                            *)
Nth(S, h) == CHOOSE x \in S : Cardinality({y \in S : y < x}) = h % Cardinality(S)

Sorted == [f \in DOMAIN Codebook |->
              [h \in 0 .. Cardinality(Codebook[f].bytes) - 1 |-> Nth(Codebook[f].bytes, h)]]

MCGrid(f, e, n) ==
    Sorted[f][(11 * e + 5 * n + (e \div 7) * (n + 1) + n * n)
              % Cardinality(Codebook[f].bytes)]

(* The first blocks of a row are all zeros, all ones and alternating.       *)
MCRow(r, n, o) ==
    CASE n = 1 -> 0
      [] n = 2 -> 255
      [] n = 3 -> 85 * (1 + ((o + r) % 2))
      [] OTHER -> (37 * o + 11 * n + 101 * r + (o \div 4) * (n + r)
                   + (o \div 9) * (7 * n + o)) % 256
=============================================================================
