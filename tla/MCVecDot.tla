------------------------------ MODULE MCVecDot ------------------------------
(* Small instance of VecDot: blocks of a few bytes, memories that end      *)
(* before, at and after the last byte of each range.                       *)
EXTENDS VecDot

Kind(arch, loop, tile) ==
    [arch |-> arch, loop |-> loop, tile |-> tile, per |-> 2, xb |-> 3, yb |-> 5]

MCKernels == {Kind("arm64", 1, "none"), Kind("arm64", 2, "none"), Kind("arm64", 1, "tile"),
              Kind("amd64", 1, "none"), Kind("amd64", 1, "four")}

(* Rows at 24 or later with a gap or none between them; results at 0, or   *)
(* near the end of memory.                                                 *)
MCCalls ==
    {[n |-> n, s |-> s, bs |-> bs, x |-> x0, bx |-> bx, y |-> y0, by |-> by, nrc |-> nrc] :
        n \in {0, 1, 2, 4, 5, 6, 8, 10}, s \in {0, 56, 68}, bs \in {2, 3}, x0 \in {24, 57},
        bx \in {0, 15}, y0 \in {30, 52}, by \in {0, 20}, nrc \in 1 .. 2}
=============================================================================
