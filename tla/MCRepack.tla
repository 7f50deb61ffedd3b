------------------------------ MODULE MCRepack ------------------------------
(* Repack on small calls: row groups of two, column groups of two, chunks  *)
(* of two blocks, and buffers that end at the last unit of memory or one   *)
(* before or behind it.                                                    *)
EXTENDS Repack

CONSTANT Deep   \* whether the AVX2 GEMV gets several passes of several chunks

Call(n, r, c, d, e) ==
    LET width == Cols * (c \div Cols)
        bs == IF width = 0 THEN 1 ELSE width + d
        out == (Rows * (r \div Rows) - 1) * bs + width
    IN  [nb |-> n, nr |-> r, nc |-> c, bs |-> bs,
         s  |-> IF e = "s" THEN Size - out + 1 ELSE IF out < 0 THEN 0 ELSE Size - out,
         vx |-> Size - n * (c \div Cols) + (IF e = "vx" THEN 1 ELSE 0),
         vy |-> Size - n * (r \div Rows) + (IF e = "vy" THEN 1 ELSE 0)]

GemmCalls == {Call(n, r, c, d, e) : n \in 0 .. 5, r \in {1, 2, 4, 7}, c \in {1, 2, 5},
                                    d \in {0, 1}, e \in {"fits", "s", "vx", "vy"}}

GemvCall(n, c, e) ==
    LET width == Cols * (c \div Cols)
    IN  [nb |-> n, nr |-> 1, nc |-> c, bs |-> IF width = 0 THEN 1 ELSE width,
         s  |-> Size - width + (IF e = "s" THEN 1 ELSE 0),
         vx |-> Size - n * (c \div Cols) + (IF e = "vx" THEN 1 ELSE 0),
         vy |-> Size - n + (IF e = "vy" THEN 1 ELSE 0)]

GemvCalls == {GemvCall(n, c, e) : n \in 0 .. 5, c \in {1, 2, 4, 7, 10},
                                  e \in {"fits", "s", "vx", "vy"}}

MCCalls(k) ==
    CASE k \in Gemm -> GemmCalls
      [] k = "gemv_q8_avx2" ->
           {c \in GemvCalls : Deep \/ c.nb <= Chunk \/ c.nc < 2 * Together * Cols}
      [] OTHER -> GemvCalls

MCKernels == Gemv \cup Gemm
MCAVX2 == {"gemv_q8_avx2"}
=============================================================================
