---------------------------- MODULE RepackProofs ----------------------------
(***************************************************************************)
(* The repack kernels, for every value of the constants of Repack: any     *)
(* calls, any size of a group, a pass and a chunk, any memory.             *)
(***************************************************************************)
EXTENDS Repack, NaturalsInduction, WellFoundedInduction, TLAPS

Nest == {"rows", "chunk", "cols", "block", "store", "next"}
InChunk == {"cols", "block", "store", "next"}
Paced == {"gemv_q8_avx2", "gemv_q8_vnni"}    \* those that take several groups a pass

RowsDone == nrGroups - y
ColsDone == ncGroups - x

\* In the nest there are groups left, and the row cursors are where the row
\* groups done put them.
InRows ==
    /\ ncGroups >= 1 /\ BoundsOk
    /\ y \in 1 .. nrGroups
    /\ ap = call.vy + RowsDone * nb
    /\ rp = call.s + (RowsDone * Rows) * call.bs
    /\ kernel \in ChecksFirst => nb >= 1

\* The blocks of the row: a second chunk comes only after a full one.
InBlocks ==
    /\ off \in Nat /\ left \in Nat /\ off + left = nb
    /\ left = 0 => nb = 0
    /\ off # 0 => nb > Chunk

\* In a chunk: the scratch holds it, the weights are those of the next column
\* group, and the output cursor is there too, or for the x64 GEMV behind it.
InTiles ==
    /\ cnt \in 0 .. left /\ (cnt = 0 => left = 0)
    /\ Chunked => cnt <= Chunk /\ scratch = Prepared(cnt)
    /\ cnt # left => nb > Chunk
    /\ x \in 0 .. ncGroups /\ (x = 0 <=> pc = "next")
    /\ wp = call.vx + ColsDone * nb
    /\ kernel \notin Paced => sp = rp + Cols * ColsDone
    /\ \E z \in 0 .. ColsDone : sp = rp + Cols * z

Shape ==
    /\ kernel \in Kernels /\ call \in Calls(kernel)
    /\ pc \in Nest \cup {"entry", "trap", "done"}
    /\ pc = "entry" => touched = {}
    /\ pc \in Nest => InRows
    /\ pc \in Nest \ {"rows"} => InBlocks
    /\ pc \in InChunk => InTiles
    /\ pc = "block" => b \in 1 .. cnt
    /\ pc = "store" => b = 0

-----------------------------------------------------------------------------
(* Numbers. *)

LEMMA Products ==
    ASSUME NEW a \in Nat, NEW b1 \in Nat, NEW c \in Nat, a <= b1
    PROVE  a * c \in Nat /\ b1 * c \in Nat /\ a * c <= b1 * c
<1> DEFINE d == b1 - a
<1>1. d \in Nat /\ b1 = a + d
  OBVIOUS
<1>2. a * c \in Nat /\ d * c \in Nat /\ b1 * c \in Nat
  BY <1>1
<1>3. b1 * c = a * c + d * c
  BY <1>1
<1> QED
  BY <1>2, <1>3

LEMMA Sums ==
    ASSUME NEW a \in Int, NEW b1 \in Int, NEW c \in Int
    PROVE  /\ a * c \in Int /\ c * a = a * c
           /\ (a + b1) * c = a * c + b1 * c
           /\ (a - b1) * c = a * c - b1 * c
OBVIOUS

LEMMA Scaled ==
    ASSUME NEW a \in Nat, NEW e \in Nat, NEW c \in Nat, NEW d \in Nat, a + e <= c
    PROVE  /\ a * d \in Nat /\ e * d \in Nat /\ c * d \in Nat
           /\ a * d + e * d <= c * d
           /\ (a + e) * d = a * d + e * d
           /\ d * a = a * d /\ d * e = e * d /\ d * c = c * d
<1>1. /\ a * d \in Nat /\ e * d \in Nat
      /\ d * a = a * d /\ d * e = e * d /\ d * c = c * d
  BY Products
<1>2. (a + e) * d = a * d + e * d
  BY Sums
<1>3. a + e \in Nat
  OBVIOUS
<1>4. c * d \in Nat /\ (a + e) * d <= c * d
  BY ONLY <1>3, c \in Nat, d \in Nat, a + e <= c, Products
<1> QED
  BY <1>1, <1>2, <1>4

LEMMA Quotient ==
    ASSUME NEW a \in Nat, NEW d \in Nat \ {0}
    PROVE  /\ a \div d \in Nat /\ a % d \in 0 .. d - 1
           /\ a = (a \div d) * d + (a % d)
OBVIOUS

\* Rows of a length that holds their columns: a place has one row and one column.
LEMMA OnePlace ==
    ASSUME NEW d \in Nat, NEW u \in Nat, NEW v \in 0 .. d - 1,
           NEW p \in Nat, NEW q \in 0 .. d - 1, u * d + v = p * d + q
    PROVE  u = p /\ v = q
<1>1. ASSUME NEW e \in Nat, NEW f \in Nat, e < f, NEW g \in 0 .. d - 1
      PROVE  e * d + g < f * d
  <2>1. (e + 1) * d \in Nat /\ f * d \in Nat /\ (e + 1) * d <= f * d
    BY <1>1, Products
  <2>2. (e + 1) * d = e * d + 1 * d
    BY Sums
  <2> QED
    BY <2>1, <2>2, <1>1
<1>2. ~(u < p)
  <2> SUFFICES ASSUME u < p PROVE FALSE
    OBVIOUS
  <2>1. u * d + v < p * d
    BY <1>1
  <2>2. u * d \in Int /\ p * d \in Int
    BY Sums
  <2> QED
    BY <2>1, <2>2
<1>3. ~(p < u)
  <2> SUFFICES ASSUME p < u PROVE FALSE
    OBVIOUS
  <2>1. p * d + q < u * d
    BY <1>1
  <2>2. u * d \in Int /\ p * d \in Int
    BY Sums
  <2> QED
    BY <2>1, <2>2
<1>4. u = p
  BY <1>2, <1>3
<1>5. u * d \in Int
  BY Sums
<1> QED
  BY <1>4, <1>5

LEMMA QuotientIs ==
    ASSUME NEW d \in Nat \ {0}, NEW u \in Nat, NEW v \in 0 .. d - 1,
           NEW a, a = u * d + v
    PROVE  a \div d = u /\ a % d = v
<1>1. u * d \in Nat
  BY Products
<1>2. a \in Nat
  BY <1>1
<1>3. /\ a \div d \in Nat /\ a % d \in 0 .. d - 1
      /\ a = (a \div d) * d + (a % d)
  BY <1>2, Quotient
<1>4. u * d + v = (a \div d) * d + (a % d)
  BY <1>3
<1> QED
  BY ONLY <1>3, <1>4, d \in Nat, u \in Nat, v \in 0 .. d - 1, OnePlace, Zenon

-----------------------------------------------------------------------------
(* The call. *)

LEMMA Sizes == /\ Size \in Nat /\ Rows \in Nat /\ Cols \in Nat
               /\ Together \in Nat /\ Chunk \in Nat
               /\ Rows >= 1 /\ Cols >= 1 /\ Together >= 1 /\ Chunk >= 1 /\ Size >= 1
BY SizesAssumption

LEMMA CallTypes ==
    ASSUME kernel \in Kernels, call \in Calls(kernel)
    PROVE  /\ nb \in Nat /\ call.nr \in Nat /\ call.nc \in Nat
           /\ call.s \in Nat /\ call.vx \in Nat /\ call.vy \in Nat
           /\ call.bs \in Nat /\ call.bs >= 1
           /\ nrGroups \in Nat /\ ncGroups \in Nat
           /\ kernel \in Gemv => nrGroups = 1
           /\ Cols * ncGroups <= call.bs
<1>1. /\ nb \in Nat /\ call.nr \in Nat /\ call.nc \in Nat
      /\ call.s \in Nat /\ call.vx \in Nat /\ call.vy \in Nat
      /\ call.bs \in Nat /\ call.bs >= 1
      /\ Cols * (call.nc \div Cols) <= call.bs
  BY CallsAssumption DEF nb
<1>2. Rows \in Nat \ {0} /\ Cols \in Nat \ {0}
  BY SizesAssumption
<1>3. call.nr \div Rows \in Nat /\ call.nc \div Cols \in Nat
  BY <1>1, <1>2, Quotient
<1> QED
  BY <1>1, <1>3 DEF nrGroups, ncGroups

LEMMA HeightFits ==
    ASSUME y \in Nat, y >= 1
    PROVE  /\ Height \in {1, 2} /\ Height <= y
           /\ kernel \in Gemv => Height = 1
BY DEF Height, Gemv

LEMMA WidthFits ==
    ASSUME x \in Nat, x >= 1
    PROVE  /\ Width \in Nat /\ Width >= 1 /\ Width <= x
           /\ kernel \notin Paced => Width = 1
BY Sizes DEF Width, GroupsOf, Paced

\* The tile: as many rows and columns as its groups have.
TileHeight == IF kernel \in Gemv THEN 1 ELSE Height * Rows
OutRows == IF kernel \in Gemv THEN 1 ELSE Rows * nrGroups
OutCols == Cols * ncGroups

\* Where a tile's rows and columns lie in the output.
LEMMA TileFits ==
    ASSUME Shape, pc \in Nest, NEW z \in Nat, z + Width <= ncGroups,
           x \in Nat, x >= 1
    PROVE  /\ RowsDone \in Nat /\ RowsDone * Rows \in Nat /\ Cols * z \in Nat
           /\ OutRows \in Nat /\ OutCols \in Nat
           /\ Width * Cols \in Nat
           /\ \A i \in TileRows : i \in Nat /\ RowsDone * Rows + i \in 0 .. OutRows - 1
           /\ \A j \in TileCols : j \in Nat /\ Cols * z + j \in 0 .. OutCols - 1
<1>1. /\ nrGroups \in Nat /\ ncGroups \in Nat
      /\ kernel \in Gemv => nrGroups = 1
  BY CallTypes DEF Shape
<1>2. y \in 1 .. nrGroups
  BY DEF Shape, InRows
<1>3. Height \in {1, 2} /\ Height <= y
  BY <1>1, <1>2, HeightFits
<1>4. Width \in Nat /\ Width >= 1
  BY WidthFits
<1>5. RowsDone \in Nat /\ RowsDone + Height <= nrGroups
  BY <1>1, <1>2, <1>3 DEF RowsDone
<1>6. /\ RowsDone * Rows \in Nat /\ nrGroups * Rows \in Nat
      /\ (RowsDone + Height) * Rows <= nrGroups * Rows
      /\ (RowsDone + Height) * Rows = RowsDone * Rows + Height * Rows
      /\ Height * Rows \in Nat /\ Rows * nrGroups = nrGroups * Rows
  <2>1. Height \in Nat
    BY <1>3
  <2> QED
    BY ONLY <1>1, <1>5, <2>1, Sizes, Scaled
<1>7. /\ z * Cols \in Nat /\ ncGroups * Cols \in Nat /\ Width * Cols \in Nat
      /\ z * Cols + Width * Cols <= ncGroups * Cols
      /\ Cols * z = z * Cols /\ Cols * ncGroups = ncGroups * Cols
  BY ONLY <1>1, <1>4, Sizes, z \in Nat, z + Width <= ncGroups, Scaled
<1>8. OutCols \in Nat /\ OutRows \in Nat
  BY <1>1, <1>6, <1>7 DEF OutCols, OutRows
<1>9. ASSUME NEW i \in TileRows
      PROVE  i \in Nat /\ RowsDone * Rows + i \in 0 .. OutRows - 1
  <2>1. CASE kernel \in Gemv
    <3>1. i = 0 /\ RowsDone = 0
      BY <2>1, <1>1, <1>2, <1>9 DEF TileRows, RowsDone
    <3>2. RowsDone * Rows = 0
      BY <3>1, Sizes
    <3> QED
      BY <2>1, <3>1, <3>2 DEF OutRows
  <2>2. CASE kernel \notin Gemv
    <3>1. i \in 0 .. Height * Rows - 1
      BY <2>2, <1>9 DEF TileRows
    <3> QED
      BY <2>2, <3>1, <1>6 DEF OutRows
  <2> QED
    BY <2>1, <2>2
<1>10. ASSUME NEW j \in TileCols
       PROVE  j \in Nat /\ Cols * z + j \in 0 .. OutCols - 1
  BY <1>10, <1>7 DEF TileCols, OutCols
<1> QED
  BY <1>5, <1>6, <1>7, <1>8, <1>9, <1>10

At(k, r, c) == k.s + r * k.bs + c

\* The floats of the output, by row and column.
LEMMA OutputIs ==
    Output = {At(call, r, c) : r \in 0 .. OutRows - 1, c \in 0 .. OutCols - 1}
<1>1. (IF kernel \in Gemv THEN 0 ELSE Rows * nrGroups - 1) = OutRows - 1
  BY DEF OutRows
<1> QED
  BY <1>1 DEF Output, At, OutCols

\* What the entry checks give: the three buffers lie in memory.
LEMMA OutputInMemory ==
    ASSUME kernel \in Kernels, call \in Calls(kernel), BoundsOk, nrGroups >= 1,
           NEW r \in 0 .. OutRows - 1, NEW c \in 0 .. OutCols - 1
    PROVE  At(call, r, c) \in 0 .. Size - 1
<1>1. /\ nrGroups \in Nat /\ ncGroups \in Nat
      /\ call.s \in Nat /\ call.bs \in Nat
      /\ kernel \in Gemv => nrGroups = 1
  BY CallTypes
<1>2. nrGroups >= 1 /\ BoundsOk
  OBVIOUS
<1>3. Rows * nrGroups \in Nat /\ Rows * nrGroups >= 1
  BY <1>1, <1>2, Sizes
<1>4. OutRows \in Nat /\ r \in Nat /\ r <= OutRows - 1 /\ OutRows - 1 \in Nat
  BY <1>3 DEF OutRows
<1>5. /\ r * call.bs \in Nat /\ (OutRows - 1) * call.bs \in Nat
      /\ r * call.bs <= (OutRows - 1) * call.bs
  BY <1>1, <1>4, Products
<1>6. OutCols \in Nat /\ c \in Nat /\ c <= OutCols - 1
  BY <1>1, Sizes, Products DEF OutCols
<1>7. call.s + OutCols + (OutRows - 1) * call.bs <= Size
  <2>1. Fits(OutputEnd)
    BY <1>2 DEF BoundsOk
  <2>2. CASE kernel \in Gemv
    <3>1. OutRows - 1 = 0
      BY <2>2 DEF OutRows
    <3>2. (OutRows - 1) * call.bs = 0
      BY <3>1, <1>1
    <3>3. OutputEnd = call.s + OutCols + 0
      BY <2>2 DEF OutputEnd, OutCols
    <3> QED
      BY <2>1, <3>2, <3>3 DEF Fits
  <2>3. CASE kernel \notin Gemv
    <3>1. OutputEnd = call.s + OutCols + (OutRows - 1) * call.bs
      BY <2>3 DEF OutputEnd, OutCols, OutRows
    <3> QED
      BY <2>1, <3>1 DEF Fits
  <2> QED
    BY <2>2, <2>3
<1> QED
  BY <1>1, <1>5, <1>6, <1>7, Sizes DEF At

LEMMA WeightsInBounds ==
    ASSUME Shape, pc \in Nest, NEW z \in Nat, NEW k \in Nat,
           z < ncGroups, k < nb
    PROVE  call.vx + z * nb + k \in Buffer["weights"] \cap 0 .. Size - 1
<1>1. nb \in Nat /\ ncGroups \in Nat /\ call.vx \in Nat
  BY CallTypes DEF Shape
<1>2. Fits(call.vx + nb * ncGroups)
  BY DEF Shape, InRows, BoundsOk
<1>3. z + 1 <= ncGroups /\ 1 \in Nat
  BY <1>1
<1>4. /\ z * nb \in Nat /\ ncGroups * nb \in Nat /\ z * nb + 1 * nb <= ncGroups * nb
      /\ nb * ncGroups = ncGroups * nb
  BY ONLY <1>1, <1>3, z \in Nat, Scaled
<1>5. z * nb + k \in 0 .. nb * ncGroups - 1
  BY <1>1, <1>4
<1>6. call.vx + z * nb + k = call.vx + (z * nb + k)
  BY <1>1, <1>4
<1>7. call.vx + z * nb + k \in {call.vx + l : l \in 0 .. nb * ncGroups - 1}
  BY <1>5, <1>6
<1>8. call.vx + z * nb + k \in 0 .. Size - 1
  BY <1>1, <1>2, <1>5, <1>6, Sizes DEF Fits
<1> QED
  BY <1>7, <1>8 DEF Buffer

LEMMA ActivationsInBounds ==
    ASSUME Shape, pc \in Nest, NEW h \in 0 .. Height - 1, NEW k \in Nat, k < nb
    PROVE  ap + h * nb + k \in Buffer["activations"] \cap 0 .. Size - 1
<1>1. /\ nb \in Nat /\ nrGroups \in Nat /\ call.vy \in Nat
  BY CallTypes DEF Shape
<1>2. /\ Fits(call.vy + nb * nrGroups) /\ y \in 1 .. nrGroups
      /\ ap = call.vy + RowsDone * nb
  BY DEF Shape, InRows, BoundsOk
<1>3. Height \in {1, 2} /\ Height <= y
  BY <1>1, <1>2, HeightFits
<1>4. RowsDone \in Nat /\ h \in Nat /\ RowsDone + h + 1 <= nrGroups
  BY <1>1, <1>2, <1>3 DEF RowsDone
<1> DEFINE q == RowsDone + h
<1>5. q \in Nat /\ q + 1 <= nrGroups /\ 1 \in Nat
  BY <1>4
<1>6. /\ RowsDone * nb \in Nat /\ h * nb \in Nat /\ q * nb = RowsDone * nb + h * nb
  <2>1. RowsDone + h <= q
    BY <1>4
  <2> QED
    BY ONLY <1>1, <1>4, <1>5, <2>1, Scaled
<1> HIDE DEF q
<1>7. /\ q * nb \in Nat /\ nrGroups * nb \in Nat /\ q * nb + 1 * nb <= nrGroups * nb
      /\ nb * nrGroups = nrGroups * nb
  BY ONLY <1>1, <1>5, Scaled
<1>8. q * nb + k \in 0 .. nb * nrGroups - 1
  BY <1>1, <1>7
<1>9. ap + h * nb + k = call.vy + (q * nb + k)
  BY <1>1, <1>2, <1>6
<1>10. ap + h * nb + k \in {call.vy + l : l \in 0 .. nb * nrGroups - 1}
  BY <1>8, <1>9
<1>11. ap + h * nb + k \in 0 .. Size - 1
  BY <1>1, <1>2, <1>8, <1>9, Sizes DEF Fits
<1> QED
  BY <1>10, <1>11 DEF Buffer

-----------------------------------------------------------------------------
(* The nests keep their shape. *)

LEMMA SameCall ==
    ASSUME UNCHANGED <<kernel, call>>
    PROVE  /\ nb' = nb /\ nrGroups' = nrGroups /\ ncGroups' = ncGroups
           /\ BoundsOk' <=> BoundsOk
           /\ Buffer' = Buffer /\ Output' = Output
           /\ OutRows' = OutRows /\ OutCols' = OutCols /\ Empty' = Empty
<1>1. nb' = nb /\ nrGroups' = nrGroups /\ ncGroups' = ncGroups
  BY DEF nb, nrGroups, ncGroups
<1>2. OutputEnd' = OutputEnd
  BY <1>1 DEF OutputEnd
<1>3. BoundsOk' <=> BoundsOk
  BY <1>1, <1>2 DEF BoundsOk, Fits
<1>4. Output' = Output
  BY <1>1 DEF Output
<1>5. Buffer' = Buffer
  BY <1>1, <1>4 DEF Buffer
<1> QED
  BY <1>1, <1>3, <1>4, <1>5 DEF OutRows, OutCols, Empty

LEMMA SameRows ==
    ASSUME UNCHANGED <<kernel, call, y, ap, rp>>
    PROVE  /\ InRows' <=> InRows
           /\ RowsDone' = RowsDone /\ Height' = Height /\ Chunked' = Chunked
           /\ TileRows' = TileRows
<1>1. /\ nb' = nb /\ nrGroups' = nrGroups /\ ncGroups' = ncGroups
      /\ BoundsOk' <=> BoundsOk
  BY SameCall
<1>2. RowsDone' = RowsDone /\ Height' = Height
  BY <1>1 DEF RowsDone, Height
<1>3. InRows' <=> InRows
  BY <1>1, <1>2 DEF InRows
<1>4. Chunked' = Chunked
  BY <1>2 DEF Chunked
<1>5. TileRows' = TileRows
  BY <1>2 DEF TileRows
<1> QED
  BY <1>2, <1>3, <1>4, <1>5

LEMMA SameBlocks ==
    ASSUME UNCHANGED <<kernel, call, left, off>>
    PROVE  InBlocks' <=> InBlocks
BY SameCall DEF InBlocks

LEMMA InitShape == Init => Shape
BY DEF Init, Shape, Nest, InChunk

LEMMA StartShape ==
    ASSUME Shape, NEW trap \in BOOLEAN, NEW done \in BOOLEAN, Start(trap, done),
           BoundsOk \/ trap \/ done, ~Empty \/ trap \/ done,
           kernel \in ChecksFirst => nb # 0 \/ trap \/ done
    PROVE  Shape'
<1>1. /\ nb \in Nat /\ nrGroups \in Nat /\ ncGroups \in Nat
      /\ call.s \in Nat /\ call.vy \in Nat /\ call.bs \in Nat
  BY CallTypes DEF Shape
<1>2. /\ nb' = nb /\ nrGroups' = nrGroups /\ ncGroups' = ncGroups
      /\ BoundsOk' <=> BoundsOk
  BY SameCall DEF Start
<1>3. pc' \in {"trap", "done", "rows"} /\ (pc' = "rows" => ~trap /\ ~done)
  BY DEF Start
<1>4. ASSUME pc' \in Nest PROVE InRows'
  <2>1. ~trap /\ ~done
    BY <1>3, <1>4 DEF Nest
  <2>2. BoundsOk /\ nrGroups >= 1 /\ ncGroups >= 1 /\ (kernel \in ChecksFirst => nb >= 1)
    BY <1>1, <2>1 DEF Empty
  <2>3. y' = nrGroups /\ ap' = call.vy /\ rp' = call.s /\ kernel' = kernel /\ call' = call
    BY DEF Start
  <2>4. RowsDone' = 0
    BY <1>1, <1>2, <2>3 DEF RowsDone
  <2>5. 0 * nb = 0 /\ 0 * Rows = 0 /\ 0 * call.bs = 0
    BY <1>1, Sizes
  <2>6. /\ ap' = call'.vy + RowsDone' * nb'
        /\ rp' = call'.s + (RowsDone' * Rows) * call'.bs
    BY <1>1, <1>2, <2>3, <2>4, <2>5
  <2>7. y' \in 1 .. nrGroups'
    BY <1>1, <1>2, <2>2, <2>3
  <2> QED
    BY <1>2, <2>2, <2>3, <2>6, <2>7 DEF InRows
<1>5. /\ kernel' \in Kernels /\ call' \in Calls(kernel')
  BY DEF Start, Shape
<1> QED
  BY <1>3, <1>4, <1>5 DEF Shape, Nest, InChunk

LEMMA prologueShape == ASSUME Shape, prologue PROVE Shape'
<1>1. Start(~Empty /\ ~BoundsOk, Empty) /\ kernel \notin ChecksFirst
  BY DEF prologue
<1> DEFINE trap == ~Empty /\ ~BoundsOk
           done == Empty
<1>2. trap \in BOOLEAN /\ done \in BOOLEAN
  BY DEF Empty
<1>3. BoundsOk \/ trap \/ done
  OBVIOUS
<1>4. ~Empty \/ trap \/ done
  OBVIOUS
<1>5. Start(trap, done)
  BY <1>1
<1> HIDE DEF trap, done
<1> QED
  BY <1>1, <1>2, <1>3, <1>4, <1>5, StartShape

LEMMA x64RepackPrologueShape == ASSUME Shape, x64RepackPrologue PROVE Shape'
<1> DEFINE trap == ~BoundsOk
           done == Empty \/ nb = 0
<1>2. trap \in BOOLEAN /\ done \in BOOLEAN
  BY DEF Empty, BoundsOk
<1>3. BoundsOk \/ trap \/ done
  OBVIOUS
<1>4. ~Empty \/ trap \/ done
  OBVIOUS
<1>5. Start(trap, done)
  BY DEF x64RepackPrologue
<1>6. nb # 0 \/ trap \/ done
  OBVIOUS
<1> HIDE DEF trap, done
<1> QED
  BY <1>2, <1>3, <1>4, <1>5, <1>6, StartShape

LEMMA rowsShape == ASSUME Shape, rows PROVE Shape'
<1>1. /\ pc = "rows" /\ pc' = "chunk" /\ left' = nb /\ off' = 0
      /\ UNCHANGED <<kernel, call, y, ap, rp>>
  BY DEF rows, cursors
<1>2. nb \in Nat /\ nb' = nb
  BY <1>1, CallTypes, SameCall DEF Shape
<1>3. InRows /\ InRows'
  BY <1>1, SameRows DEF Shape, Nest
<1>4. InBlocks'
  BY <1>1, <1>2 DEF InBlocks
<1> QED
  BY <1>1, <1>3, <1>4 DEF Shape, Nest, InChunk

LEMMA chunkShape == ASSUME Shape, chunk PROVE Shape'
<1>1. /\ pc = "chunk" /\ pc' = "cols" /\ cnt' = ChunkSize
      /\ x' = ncGroups /\ wp' = call.vx /\ sp' = rp
      /\ scratch' = (IF Chunked THEN Prepared(cnt') ELSE <<>>)
      /\ UNCHANGED <<kernel, call, y, ap, rp, left, off>>
  BY DEF chunk
<1>2. /\ nb' = nb /\ ncGroups' = ncGroups /\ nb \in Nat /\ ncGroups \in Nat
      /\ call.vx \in Nat /\ call.s \in Nat /\ call.bs \in Nat
  BY <1>1, CallTypes, SameCall DEF Shape
<1>3. /\ InRows /\ InRows' /\ Chunked' = Chunked /\ Height' = Height
  BY <1>1, SameRows DEF Shape, Nest
<1>4. InBlocks /\ InBlocks'
  BY <1>1, SameBlocks DEF Shape, Nest
<1>5. /\ cnt' \in 0 .. left' /\ (cnt' = 0 => left' = 0)
      /\ Chunked' => cnt' <= Chunk
  BY <1>1, <1>3, <1>4, Sizes DEF ChunkSize, InBlocks
<1>6. cnt' # left' => nb' > Chunk
  BY <1>1, <1>2, <1>4, Sizes DEF ChunkSize, InBlocks
<1>7. Chunked' => scratch' = Prepared(cnt)'
  BY <1>1, <1>2, <1>3 DEF Prepared
<1>8. x' \in 0 .. ncGroups' /\ x' # 0
  BY <1>1, <1>2, <1>3 DEF InRows
<1>9. ColsDone' = 0
  BY <1>1, <1>2 DEF ColsDone
<1>10. 0 * nb = 0 /\ Cols * 0 = 0
  BY <1>2, Sizes
<1>11. wp' = call'.vx + ColsDone' * nb'
  BY <1>1, <1>2, <1>9, <1>10
<1>12. rp \in Int
  <2>1. RowsDone \in Int
    BY <1>3, CallTypes DEF RowsDone, InRows, Shape
  <2>2. RowsDone * Rows \in Int
    BY <2>1, Sizes
  <2>3. (RowsDone * Rows) * call.bs \in Int
    BY <2>2, <1>2, Sums
  <2> QED
    BY <1>2, <1>3, <2>3 DEF InRows
<1>13. sp' = rp' + Cols * ColsDone' /\ 0 \in 0 .. ColsDone'
  BY <1>1, <1>9, <1>10, <1>12
<1>14. \E z \in 0 .. ColsDone' : sp' = rp' + Cols * z
  BY <1>9, <1>13
<1>15. InTiles'
  BY <1>1, <1>5, <1>6, <1>7, <1>8, <1>11, <1>13, <1>14 DEF InTiles
<1> QED
  BY <1>1, <1>3, <1>4, <1>15 DEF Shape, Nest, InChunk

LEMMA SameTiles ==
    ASSUME UNCHANGED <<kernel, call, y, x, ap, rp, wp, sp, left, off, cnt, scratch>>,
           pc \in InChunk \ {"next"}, pc' \in InChunk \ {"next"}
    PROVE  /\ InTiles' <=> InTiles
           /\ ColsDone' = ColsDone /\ Width' = Width /\ TileCols' = TileCols
<1>1. nb' = nb /\ ncGroups' = ncGroups /\ Height' = Height /\ Chunked' = Chunked
  BY SameCall, SameRows
<1>2. ColsDone' = ColsDone /\ Width' = Width
  BY <1>1 DEF ColsDone, Width
<1>3. Prepared(cnt)' = Prepared(cnt)
  BY <1>1 DEF Prepared
<1>4. InTiles' <=> InTiles
  BY <1>1, <1>2, <1>3 DEF InTiles
<1> QED
  BY <1>2, <1>4 DEF TileCols

LEMMA colsShape == ASSUME Shape, cols PROVE Shape'
<1>1. /\ pc = "cols" /\ b' = cnt
      /\ pc' = (IF cnt = 0 /\ kernel \notin ChecksFirst THEN "store" ELSE "block")
      /\ UNCHANGED <<kernel, call, y, x, ap, rp, wp, sp, left, off, cnt, scratch>>
  BY DEF cols, cursors
<1>2. InRows /\ InBlocks /\ InTiles
  BY <1>1 DEF Shape, Nest, InChunk
<1>3. pc' \in {"block", "store"}
  BY <1>1
<1>4. InRows' /\ InBlocks' /\ InTiles'
  BY <1>1, <1>2, <1>3, SameRows, SameBlocks, SameTiles DEF InChunk
<1>5. /\ pc' = "block" => b' \in 1 .. cnt'
      /\ pc' = "store" => b' = 0
  BY <1>1, <1>2 DEF InRows, InBlocks, InTiles
<1> QED
  BY <1>1, <1>3, <1>4, <1>5 DEF Shape, Nest, InChunk

LEMMA blockShape == ASSUME Shape, block PROVE Shape'
<1>1. /\ pc = "block" /\ b' = b - 1
      /\ pc' = (IF b' = 0 THEN "store" ELSE "block")
      /\ UNCHANGED <<kernel, call, y, x, ap, rp, wp, sp, left, off, cnt, scratch>>
  BY DEF block, cursors
<1>2. InRows /\ InBlocks /\ InTiles /\ b \in 1 .. cnt
  BY <1>1 DEF Shape, Nest, InChunk
<1>3. pc' \in {"block", "store"}
  BY <1>1
<1>4. InRows' /\ InBlocks' /\ InTiles'
  BY <1>1, <1>2, <1>3, SameRows, SameBlocks, SameTiles DEF InChunk
<1>5. /\ pc' = "block" => b' \in 1 .. cnt'
      /\ pc' = "store" => b' = 0
  BY <1>1, <1>2 DEF InBlocks, InTiles
<1> QED
  BY <1>1, <1>3, <1>4, <1>5 DEF Shape, Nest, InChunk

\* A tile is stored where the column groups done put it, in either kind of nest.
LEMMA StoresThere ==
    ASSUME Shape, pc \in InChunk \ {"next"}
    PROVE  /\ StoreAt = rp + Cols * ColsDone
           /\ Width \in Nat /\ Width >= 1 /\ ColsDone \in Nat
           /\ ColsDone + Width <= ncGroups
           /\ x \in Nat /\ x >= 1 /\ Width <= x
<1>1. InTiles /\ ncGroups \in Nat
  BY CallTypes DEF Shape
<1>2. x \in Nat /\ x >= 1 /\ x <= ncGroups
  BY <1>1 DEF InTiles, InChunk
<1>3. Width \in Nat /\ Width >= 1 /\ Width <= x
  BY <1>2, WidthFits
<1>4. StoreAt = rp + Cols * ColsDone
  BY <1>1 DEF StoreAt, Sought, InTiles, ColsDone, Paced
<1> QED
  BY <1>1, <1>2, <1>3, <1>4 DEF ColsDone

LEMMA storeShape == ASSUME Shape, store PROVE Shape'
<1>1. /\ pc = "store"
      /\ sp' = (IF kernel \in Paced THEN StoreAt ELSE StoreAt + Cols)
      /\ x' = x - Width /\ wp' = wp + Width * nb
      /\ pc' = (IF x' = 0 THEN "next" ELSE "cols")
      /\ UNCHANGED <<kernel, call, y, ap, rp, left, off, cnt, scratch>>
  BY DEF store, Paced
<1>2. /\ nb' = nb /\ ncGroups' = ncGroups /\ nb \in Nat /\ ncGroups \in Nat
      /\ call.vx \in Nat /\ call.s \in Nat /\ call.bs \in Nat
  BY <1>1, CallTypes, SameCall DEF Shape
<1>3. InRows /\ InBlocks /\ InTiles
  BY <1>1 DEF Shape, Nest, InChunk
<1>4. InRows' /\ InBlocks' /\ Chunked' = Chunked /\ Height' = Height
  BY <1>1, <1>3, SameRows, SameBlocks
<1>5. /\ StoreAt = rp + Cols * ColsDone
      /\ Width \in Nat /\ Width >= 1 /\ ColsDone \in Nat
      /\ ColsDone + Width <= ncGroups
      /\ x \in Nat /\ x >= 1 /\ Width <= x
  BY <1>1, StoresThere DEF InChunk
<1>6. ColsDone' = ColsDone + Width
  BY <1>1, <1>2, <1>5 DEF ColsDone
<1>7. x' \in 0 .. ncGroups' /\ (x' = 0 <=> pc' = "next")
  BY <1>1, <1>2, <1>5 DEF ColsDone
<1>8. wp' = call'.vx + ColsDone' * nb'
  <2>1. (ColsDone + Width) * nb = ColsDone * nb + Width * nb
        /\ ColsDone * nb \in Int /\ Width * nb \in Int
    BY <1>2, <1>5, Sums
  <2>2. wp = call.vx + ColsDone * nb
    BY <1>3 DEF InTiles
  <2> QED
    BY <1>1, <1>2, <1>6, <2>1, <2>2
<1>9. kernel' \notin Paced => sp' = rp' + Cols * ColsDone'
  <2> SUFFICES ASSUME kernel' \notin Paced PROVE sp' = rp' + Cols * ColsDone'
    OBVIOUS
  <2>1. Width = 1 /\ kernel \notin Paced
    BY <1>1, <1>5, WidthFits
  <2>2. Cols * (ColsDone + 1) = Cols * ColsDone + Cols /\ Cols * ColsDone \in Int
    BY <1>5, Sizes
  <2>3. rp \in Int
    BY <1>1, <1>2, <1>3, Sizes DEF InRows, RowsDone
  <2> QED
    BY <1>1, <1>5, <1>6, <2>1, <2>2, <2>3, Sizes
<1>10. \E z \in 0 .. ColsDone' : sp' = rp' + Cols * z
  <2>1. CASE kernel \in Paced
    <3>1. sp' = rp' + Cols * ColsDone /\ ColsDone \in 0 .. ColsDone'
      BY <2>1, <1>1, <1>5, <1>6
    <3> QED
      BY <3>1
  <2>2. CASE kernel \notin Paced
    <3>1. sp' = rp' + Cols * ColsDone' /\ ColsDone' \in 0 .. ColsDone'
      BY <2>2, <1>1, <1>5, <1>6, <1>9
    <3> QED
      BY <3>1
  <2> QED
    BY <2>1, <2>2
<1>11. Prepared(cnt)' = Prepared(cnt)
  BY <1>1, <1>2, <1>4 DEF Prepared
<1>12. InTiles'
  BY <1>1, <1>2, <1>3, <1>4, <1>7, <1>8, <1>9, <1>10, <1>11 DEF InTiles
<1>13. pc' \in {"next", "cols"}
  BY <1>1
<1> QED
  BY <1>1, <1>4, <1>12, <1>13 DEF Shape, Nest, InChunk

LEMMA nextChunkShape == ASSUME Shape, nextChunk PROVE Shape'
<1>1. /\ pc = "next" /\ left # cnt /\ left' = left - cnt /\ off' = off + cnt
      /\ pc' = "chunk"
      /\ UNCHANGED <<kernel, call, y, ap, rp>>
  BY DEF nextChunk, cursors
<1>2. nb' = nb /\ nb \in Nat
  BY <1>1, CallTypes, SameCall DEF Shape
<1>3. InRows /\ InBlocks /\ InTiles
  BY <1>1 DEF Shape, Nest, InChunk
<1>4. InRows'
  BY <1>1, <1>3, SameRows
<1>5. InBlocks'
  BY <1>1, <1>2, <1>3 DEF InBlocks, InTiles
<1> QED
  BY <1>1, <1>4, <1>5 DEF Shape, Nest, InChunk

LEMMA nextRowsShape == ASSUME Shape, nextRows PROVE Shape'
<1>1. /\ pc = "next" /\ left = cnt /\ y' = y - Height
      /\ ap' = ap + Height * nb /\ rp' = rp + Height * Rows * call.bs
      /\ pc' = (IF y' = 0 THEN "done" ELSE "rows")
      /\ UNCHANGED <<kernel, call>>
  BY DEF nextRows
<1>2. /\ nb' = nb /\ nrGroups' = nrGroups /\ ncGroups' = ncGroups
      /\ BoundsOk' <=> BoundsOk
      /\ nb \in Nat /\ nrGroups \in Nat /\ ncGroups \in Nat
      /\ call.s \in Nat /\ call.vy \in Nat /\ call.bs \in Nat
  BY <1>1, CallTypes, SameCall DEF Shape
<1>3. InRows
  BY <1>1 DEF Shape, Nest, InChunk
<1>4. y \in 1 .. nrGroups /\ Height \in {1, 2} /\ Height <= y
  BY <1>2, <1>3, HeightFits DEF InRows
<1>5. /\ RowsDone' = RowsDone + Height /\ RowsDone \in Int
  BY <1>1, <1>2, <1>4 DEF RowsDone
<1>6. ap' = call'.vy + RowsDone' * nb'
  <2>1. /\ (RowsDone + Height) * nb = RowsDone * nb + Height * nb
        /\ RowsDone * nb \in Int /\ Height * nb \in Int
    BY <1>2, <1>4, <1>5, Sums
  <2>2. ap = call.vy + RowsDone * nb
    BY <1>3 DEF InRows
  <2> QED
    BY <1>1, <1>2, <1>5, <2>1, <2>2
<1>7. rp' = call'.s + (RowsDone' * Rows) * call'.bs
  <2>1. /\ (RowsDone + Height) * Rows = RowsDone * Rows + Height * Rows
        /\ RowsDone * Rows \in Int /\ Height * Rows \in Int
    BY <1>4, <1>5, Sizes, Sums
  <2>2. /\ (RowsDone * Rows + Height * Rows) * call.bs
           = (RowsDone * Rows) * call.bs + (Height * Rows) * call.bs
        /\ (RowsDone * Rows) * call.bs \in Int /\ (Height * Rows) * call.bs \in Int
    BY <1>2, <2>1, Sums
  <2>3. rp = call.s + (RowsDone * Rows) * call.bs
    BY <1>3 DEF InRows
  <2> QED
    BY <1>1, <1>2, <1>5, <2>1, <2>2, <2>3
<1>8. y' # 0 => y' \in 1 .. nrGroups'
  BY <1>1, <1>2, <1>4
<1>9. pc' = "rows" => InRows'
  BY <1>1, <1>2, <1>3, <1>6, <1>7, <1>8 DEF InRows
<1>10. pc' \in {"done", "rows"}
  BY <1>1
<1> QED
  BY <1>1, <1>9, <1>10 DEF Shape, Nest, InChunk

LEMMA stutterShape == ASSUME Shape, UNCHANGED vars PROVE Shape'
<1>1. /\ kernel' = kernel /\ call' = call /\ pc' = pc
      /\ y' = y /\ x' = x /\ ap' = ap /\ rp' = rp /\ wp' = wp /\ sp' = sp
      /\ left' = left /\ off' = off /\ cnt' = cnt /\ scratch' = scratch
      /\ b' = b /\ touched' = touched
  BY DEF vars, cursors
<1>2. nb' = nb /\ nrGroups' = nrGroups /\ ncGroups' = ncGroups
  BY <1>1, SameCall
<1>3. /\ InRows' <=> InRows
      /\ Height' = Height /\ Chunked' = Chunked
  BY <1>1, SameRows
<1>4. InBlocks' <=> InBlocks
  BY <1>1, SameBlocks
<1>5. ColsDone' = ColsDone /\ Prepared(cnt)' = Prepared(cnt)
  BY <1>1, <1>2, <1>3 DEF ColsDone, Prepared
<1>6. InTiles' <=> InTiles
  BY <1>1, <1>2, <1>3, <1>5 DEF InTiles
<1> QED
  BY <1>1, <1>3, <1>4, <1>6 DEF Shape

LEMMA StepShape == Shape /\ [Next]_vars => Shape'
<1> SUFFICES ASSUME Shape, [Next]_vars PROVE Shape'
  OBVIOUS
<1> QED
  BY stutterShape, prologueShape, x64RepackPrologueShape, rowsShape, chunkShape, colsShape,
     blockShape, storeShape, nextChunkShape, nextRowsShape DEF Next

-----------------------------------------------------------------------------
(* Every access is in the buffers. *)

InBounds(T) == \A t \in T : t[2] \in Buffer[t[1]] \cap 0 .. Size - 1

LEMMA TileCells ==
    ASSUME Shape, pc \in Nest, NEW z \in Nat, z + Width <= ncGroups,
           x \in Nat, x >= 1, NEW i \in TileRows, NEW j \in TileCols
    PROVE  /\ Cell(rp + Cols * z, i, j) = At(call, RowsDone * Rows + i, Cols * z + j)
           /\ RowsDone * Rows + i \in 0 .. OutRows - 1
           /\ Cols * z + j \in 0 .. OutCols - 1
<1>1. /\ RowsDone * Rows \in Nat /\ Cols * z \in Nat /\ i \in Nat /\ j \in Nat
      /\ RowsDone * Rows + i \in 0 .. OutRows - 1
      /\ Cols * z + j \in 0 .. OutCols - 1
  BY TileFits
<1>2. rp = call.s + (RowsDone * Rows) * call.bs
  BY DEF Shape, InRows
<1>3. kernel \in Kernels /\ call \in Calls(kernel)
  BY DEF Shape
<1> DEFINE r == RowsDone * Rows
           c == Cols * z
           o == rp + Cols * z
<1>4. r \in Nat /\ c \in Nat /\ o = call.s + r * call.bs + c
  BY <1>1, <1>2
<1> HIDE DEF r, c, o
<1>5. Cell(o, i, j) = At(call, r + i, c + j)
  <2>1. call.s \in Nat /\ call.bs \in Nat /\ i \in Nat /\ j \in Nat
    BY <1>1, <1>3, CallTypes
  <2>2. /\ (r + i) * call.bs = r * call.bs + i * call.bs
        /\ r * call.bs \in Int /\ i * call.bs \in Int
    BY ONLY <1>4, <2>1, Sums
  <2> QED
    BY ONLY <1>4, <2>1, <2>2 DEF Cell, At
<1> QED
  BY <1>1, <1>5 DEF r, c, o

LEMMA FloatsInBounds ==
    ASSUME Shape, pc \in Nest, NEW z \in Nat, z + Width <= ncGroups,
           x \in Nat, x >= 1
    PROVE  InBounds(Floats(rp + Cols * z))
<1> SUFFICES ASSUME NEW i \in TileRows, NEW j \in TileCols
             PROVE  Cell(rp + Cols * z, i, j) \in Buffer["output"] \cap 0 .. Size - 1
  BY DEF InBounds, Floats, Cells
<1> DEFINE r == RowsDone * Rows + i
           c == Cols * z + j
<1>1. /\ Cell(rp + Cols * z, i, j) = At(call, r, c)
      /\ r \in 0 .. OutRows - 1 /\ c \in 0 .. OutCols - 1
  BY TileCells
<1> HIDE DEF r, c
<1>2. At(call, r, c) \in 0 .. Size - 1
  <2>1. nrGroups >= 1 /\ BoundsOk
    BY CallTypes DEF Shape, InRows
  <2> QED
    BY <1>1, <2>1, OutputInMemory DEF Shape
<1>3. At(call, r, c) \in Output
  BY <1>1, OutputIs
<1> QED
  BY <1>1, <1>2, <1>3 DEF Buffer

LEMMA chunkInBounds == ASSUME Shape, chunk PROVE InBounds(touched')
<1>1. /\ pc = "chunk"
      /\ touched' = IF Chunked
                    THEN {<<"activations", ap + h * nb + off + k>> :
                             h \in 0 .. Height - 1, k \in 0 .. ChunkSize - 1}
                    ELSE {}
  BY DEF chunk
<1>2. /\ off \in Nat /\ left \in Nat /\ off + left = nb
  BY <1>1 DEF Shape, Nest, InBlocks
<1>3. ChunkSize \in 0 .. left
  BY <1>1, <1>2, Sizes DEF ChunkSize
<1>4. nb \in Nat /\ ap \in Int /\ Height \in Int
  <2>1. /\ nb \in Nat /\ nrGroups \in Nat /\ call.vy \in Nat
    BY CallTypes DEF Shape
  <2>2. y \in 1 .. nrGroups /\ ap = call.vy + RowsDone * nb
    BY <1>1 DEF Shape, Nest, InRows
  <2>3. RowsDone \in Int
    BY <2>1, <2>2 DEF RowsDone
  <2>4. RowsDone * nb \in Int
    BY <2>1, <2>3, Sums
  <2> QED
    BY <2>1, <2>2, <2>4, HeightFits
<1>5. ASSUME NEW h \in 0 .. Height - 1, NEW k \in 0 .. ChunkSize - 1
      PROVE  ap + h * nb + off + k \in Buffer["activations"] \cap 0 .. Size - 1
  <2>1. off + k \in Nat /\ off + k < nb
    BY <1>2, <1>3, <1>4, <1>5
  <2>2. ap + h * nb + (off + k) \in Buffer["activations"] \cap 0 .. Size - 1
    BY <1>1, <1>5, <2>1, ActivationsInBounds DEF Nest
  <2>3. h * nb \in Int
    BY <1>4, <1>5, Sums
  <2>4. ap + h * nb + (off + k) = ap + h * nb + off + k
    BY <1>2, <1>3, <1>4, <1>5, <2>3
  <2> QED
    BY <2>2, <2>4
<1> QED
  BY <1>1, <1>5 DEF InBounds

LEMMA colsInBounds == ASSUME Shape, cols PROVE InBounds(touched')
<1>1. pc = "cols" /\ (touched' = {} \/ touched' = Floats(ReloadFrom))
  BY DEF cols
<1>2. /\ StoreAt = rp + Cols * ColsDone
      /\ Width \in Nat /\ ColsDone \in Nat
      /\ ColsDone + Width <= ncGroups
      /\ x \in Nat /\ x >= 1 /\ Width <= x
  BY <1>1, StoresThere DEF InChunk
<1>3. InTiles /\ ncGroups \in Nat
  BY <1>1, CallTypes DEF Shape, Nest, InChunk
<1>4. ReloadFrom = sp \/ ReloadFrom = StoreAt
  BY DEF ReloadFrom, StoreAt
<1>5. PICK z \in 0 .. ColsDone : ReloadFrom = rp + Cols * z
  <2>1. ColsDone \in 0 .. ColsDone
    BY <1>2
  <2> QED
    BY <1>2, <1>3, <1>4, <2>1 DEF InTiles
<1>6. z \in Nat /\ z + Width <= ncGroups
  BY <1>2, <1>3, <1>5
<1>7. InBounds(Floats(ReloadFrom))
  BY <1>1, <1>2, <1>5, <1>6, FloatsInBounds DEF Nest
<1>8. InBounds({})
  BY DEF InBounds
<1> QED
  BY <1>1, <1>7, <1>8

LEMMA storeInBounds == ASSUME Shape, store PROVE InBounds(touched')
<1>1. pc = "store" /\ touched' = Floats(StoreAt)
  BY DEF store
<1>2. /\ StoreAt = rp + Cols * ColsDone
      /\ ColsDone \in Nat /\ ColsDone + Width <= ncGroups
      /\ x \in Nat /\ x >= 1
  BY <1>1, StoresThere DEF InChunk
<1> QED
  BY <1>1, <1>2, FloatsInBounds DEF Nest

\* The activation a block reads: the scratch holds what the row holds.
LEMMA ActivationIs ==
    ASSUME Shape, pc = "block", NEW h \in 0 .. Height - 1
    PROVE  /\ Activation(h) = ap + h * nb + off + (cnt - b)
           /\ off \in Nat /\ cnt - b \in Nat /\ off + (cnt - b) < nb
           /\ ap \in Int /\ h * nb \in Int /\ nb \in Nat
<1>1. InRows /\ InBlocks /\ InTiles /\ b \in 1 .. cnt
  BY DEF Shape, Nest, InChunk
<1>2. off \in Nat /\ cnt - b \in 0 .. cnt - 1 /\ off + (cnt - b) < nb
  BY <1>1 DEF InBlocks, InTiles
<1>3. nb \in Nat /\ ap \in Int /\ Height \in Int
  <2>1. /\ nb \in Nat /\ nrGroups \in Nat /\ call.vy \in Nat
    BY CallTypes DEF Shape
  <2>2. y \in 1 .. nrGroups /\ ap = call.vy + RowsDone * nb
    BY <1>1 DEF InRows
  <2>3. RowsDone \in Int
    BY <2>1, <2>2 DEF RowsDone
  <2>4. RowsDone * nb \in Int
    BY <2>1, <2>3, Sums
  <2> QED
    BY <2>1, <2>2, <2>4, HeightFits
<1>4. h * nb \in Int
  BY <1>3, Sums
<1>5. CASE Chunked
  <2>1. scratch = Prepared(cnt)
    BY <1>1, <1>5 DEF InTiles
  <2>2. scratch[h][cnt - b] = ap + h * nb + off + (cnt - b)
    BY <1>2, <2>1 DEF Prepared
  <2> QED
    BY <1>2, <1>3, <1>4, <1>5, <2>2 DEF Activation
<1>6. CASE ~Chunked
  BY <1>2, <1>3, <1>4, <1>6 DEF Activation
<1> QED
  BY <1>5, <1>6

LEMMA WeightsIs ==
    ASSUME Shape, pc = "block", NEW g \in 0 .. Width - 1
    PROVE  /\ Weights(g) = call.vx + (ColsDone + g) * nb + (off + (cnt - b))
           /\ ColsDone + g \in Nat /\ ColsDone + g < ncGroups
<1>1. /\ Width \in Nat /\ ColsDone \in Nat /\ ColsDone + Width <= ncGroups
  BY StoresThere DEF InChunk
<1>2. /\ nb \in Nat /\ ncGroups \in Nat /\ call.vx \in Nat
  BY CallTypes DEF Shape
<1>3. InBlocks /\ InTiles /\ b \in 1 .. cnt
  BY DEF Shape, Nest, InChunk
<1>4. off \in Nat /\ cnt - b \in Nat
  BY <1>3 DEF InBlocks, InTiles
<1>5. /\ (ColsDone + g) * nb = ColsDone * nb + g * nb
      /\ ColsDone * nb \in Int /\ g * nb \in Int
  BY <1>1, <1>2, Sums
<1>6. wp = call.vx + ColsDone * nb
  BY <1>3 DEF InTiles
<1> QED
  BY <1>1, <1>2, <1>4, <1>5, <1>6 DEF Weights

LEMMA blockInBounds == ASSUME Shape, block PROVE InBounds(touched')
<1>1. /\ pc = "block"
      /\ touched' = {<<"activations", Activation(h)>> : h \in 0 .. Height - 1}
                    \cup {<<"weights", Weights(g)>> : g \in 0 .. Width - 1}
  BY DEF block
<1>2. ASSUME NEW h \in 0 .. Height - 1
      PROVE  Activation(h) \in Buffer["activations"] \cap 0 .. Size - 1
  <2>1. /\ Activation(h) = ap + h * nb + off + (cnt - b)
        /\ off \in Nat /\ cnt - b \in Nat /\ off + (cnt - b) < nb
        /\ ap \in Int /\ h * nb \in Int
    BY <1>1, ActivationIs
  <2>2. Activation(h) = ap + h * nb + (off + (cnt - b)) /\ off + (cnt - b) \in Nat
    BY <2>1
  <2>3. ap + h * nb + (off + (cnt - b)) \in Buffer["activations"] \cap 0 .. Size - 1
    BY <1>1, <2>1, <2>2, ActivationsInBounds DEF Nest
  <2> QED
    BY <2>2, <2>3
<1>3. ASSUME NEW g \in 0 .. Width - 1
      PROVE  Weights(g) \in Buffer["weights"] \cap 0 .. Size - 1
  <2>1. /\ Weights(g) = call.vx + (ColsDone + g) * nb + (off + (cnt - b))
        /\ ColsDone + g \in Nat /\ ColsDone + g < ncGroups
    BY <1>1, WeightsIs
  <2>2. off + (cnt - b) \in Nat /\ off + (cnt - b) < nb
    <3>1. InBlocks /\ InTiles /\ b \in 1 .. cnt
      BY <1>1 DEF Shape, Nest, InChunk
    <3> QED
      BY <3>1 DEF InBlocks, InTiles
  <2> QED
    BY <1>1, <2>1, <2>2, WeightsInBounds DEF Nest
<1> QED
  BY <1>1, <1>2, <1>3 DEF InBounds

LEMMA ShapeBoundsChunk ==
    Shape => (Chunked /\ pc \in {"cols", "block", "store"} => cnt <= Chunk)
BY DEF Shape, InChunk, InTiles

LEMMA StepInBounds == Shape /\ InBounds(touched) /\ [Next]_vars => InBounds(touched)'
<1> SUFFICES ASSUME Shape, InBounds(touched), [Next]_vars PROVE InBounds(touched)'
  OBVIOUS
<1>1. kernel' = kernel /\ call' = call
  BY DEF Next, prologue, x64RepackPrologue, Start, rows, chunk, cols, block, store,
         nextChunk, nextRows, vars
<1>2. Buffer' = Buffer
  BY <1>1, SameCall
<1>3. InBounds(touched)' <=> InBounds(touched')
  BY <1>2 DEF InBounds
<1>4. ASSUME touched' = touched \/ touched' = {} PROVE InBounds(touched')
  BY <1>4 DEF InBounds
<1>5. CASE chunk
  BY <1>5, chunkInBounds, <1>3
<1>6. CASE cols
  BY <1>6, colsInBounds, <1>3
<1>7. CASE block
  BY <1>7, blockInBounds, <1>3
<1>8. CASE store
  BY <1>8, storeInBounds, <1>3
<1>9. CASE prologue \/ x64RepackPrologue \/ rows \/ nextChunk \/ nextRows \/ UNCHANGED vars
  BY <1>9, <1>3, <1>4 DEF prologue, x64RepackPrologue, Start, rows, nextChunk, nextRows, vars
<1> QED
  BY <1>5, <1>6, <1>7, <1>8, <1>9 DEF Next

-----------------------------------------------------------------------------
(* What the sums are. *)

\* The first n products of row r with column c.
Part(k, r, c, n) ==
    [m \in 1 .. n |-> <<k.vy + (r \div Rows) * k.nb + m - 1, r % Rows,
                        k.vx + (c \div Cols) * k.nb + m - 1, c % Cols>>]

FirstRow == RowsDone * Rows
FirstCol == Cols * ColsDone

Current(r) == FirstRow <= r /\ r < (RowsDone + Height) * Rows
Stored(c) == pc = "next" \/ (pc \in InChunk /\ c < FirstCol)

\* What a float of the output holds: the whole sum in the rows done, the sum
\* up to this chunk in the columns stored, the sum of the chunks before it in
\* the others, and what the host left in the rows to come.
Is(r, c) ==
    IF r < FirstRow THEN Part(call, r, c, nb)
    ELSE CASE pc # "rows" /\ Current(r) /\ Stored(c) -> Part(call, r, c, off + cnt)
           [] pc # "rows" /\ Current(r) /\ ~Stored(c) /\ off # 0 -> Part(call, r, c, off)
           [] OTHER -> Host

Idle == Empty \/ (nb = 0 /\ kernel \in ChecksFirst)
Others == (0 .. Size - 1) \ Output

MemoryIs ==
    /\ pc = "entry" => \A a \in 0 .. Size - 1 : memory[a] = Host
    /\ pc \in Nest =>
          /\ \A r \in 0 .. OutRows - 1, c \in 0 .. OutCols - 1 : memory[At(call, r, c)] = Is(r, c)
          /\ \A a \in Others : memory[a] = Host
    /\ pc = "done" /\ Idle => \A a \in 0 .. Size - 1 : memory[a] = Host
    /\ pc = "done" /\ ~Idle =>
          /\ \A r \in 0 .. OutRows - 1, c \in 0 .. OutCols - 1 :
                memory[At(call, r, c)] = Part(call, r, c, nb)
          /\ \A a \in Others : memory[a] = Host

\* The running sums of the tile.
Running ==
    pc \in {"block", "store"} =>
        \A i \in TileRows, j \in TileCols :
            acc[i][j] = Part(call, FirstRow + i, FirstCol + j, off + (cnt - b))

\* The AVX2 GEMV finds its sums again: in its first pass over several column
\* groups the cursor has not moved, and there is no second one.
OnePass ==
    "gemv_q8_avx2" \in Kernels =>
        \A c \in Calls("gemv_q8_avx2") : c.nb <= Chunk \/ c.nc \div Cols < 2 * Together

Reloads ==
    kernel = "gemv_q8_avx2" /\ pc \in {"cols", "block", "store"} =>
        off = 0 \/ x < Together \/ (x = ncGroups /\ sp = rp)

Sound == Shape /\ MemoryIs /\ Running /\ Reloads

LEMMA NoProducts == \A k, r, c : Part(k, r, c, 0) = <<>>
BY DEF Part

LEMMA OneMore ==
    ASSUME NEW k, NEW r, NEW c, NEW n \in Nat, NEW p,
           p = <<k.vy + (r \div Rows) * k.nb + (n + 1) - 1, r % Rows,
                 k.vx + (c \div Cols) * k.nb + (n + 1) - 1, c % Cols>>
    PROVE  Append(Part(k, r, c, n), p) = Part(k, r, c, n + 1)
<1> DEFINE f(m) == <<k.vy + (r \div Rows) * k.nb + m - 1, r % Rows,
                     k.vx + (c \div Cols) * k.nb + m - 1, c % Cols>>
<1>1. /\ Part(k, r, c, n) = [m \in 1 .. n |-> f(m)]
      /\ Part(k, r, c, n + 1) = [m \in 1 .. n + 1 |-> f(m)]
  BY DEF Part
<1>2. p = f(n + 1)
  OBVIOUS
<1> HIDE DEF f
<1> DEFINE S == {f(m) : m \in 1 .. n}
<1>3. [m \in 1 .. n |-> f(m)] \in Seq(S)
  OBVIOUS
<1>4. Append([m \in 1 .. n |-> f(m)], f(n + 1)) = [m \in 1 .. n + 1 |-> f(m)]
  BY <1>3
<1> QED
  BY <1>1, <1>2, <1>4

\* A row that is not done and not to come is one of the tile's.
LEMMA TileRow ==
    ASSUME Shape, pc \in Nest, NEW r \in 0 .. OutRows - 1
    PROVE  /\ FirstRow \in Nat
           /\ Current(r) => r - FirstRow \in TileRows
           /\ r - FirstRow \in TileRows => Current(r)
<1>1. /\ nrGroups \in Nat
      /\ kernel \in Gemv => nrGroups = 1
  BY CallTypes DEF Shape
<1>2. y \in 1 .. nrGroups
  BY DEF Shape, InRows
<1>3. /\ Height \in {1, 2} /\ Height <= y
      /\ kernel \in Gemv => Height = 1
  BY <1>1, <1>2, HeightFits
<1>4. RowsDone \in Nat /\ RowsDone + Height <= nrGroups /\ Height \in Nat
  BY <1>1, <1>2, <1>3 DEF RowsDone
<1>5. /\ RowsDone * Rows \in Nat /\ Height * Rows \in Nat
      /\ (RowsDone + Height) * Rows = RowsDone * Rows + Height * Rows
  BY ONLY <1>1, <1>4, Sizes, Scaled
<1>6. CASE kernel \in Gemv
  <2>1. RowsDone = 0 /\ Height = 1
    BY <1>1, <1>2, <1>3, <1>6 DEF RowsDone
  <2>2. RowsDone * Rows = 0 /\ Height * Rows = Rows
    BY <2>1, Sizes
  <2>3. TileRows = 0 .. 0 /\ r = 0
    BY <1>6 DEF TileRows, OutRows
  <2> QED
    BY <1>5, <2>2, <2>3, Sizes DEF Current, FirstRow
<1>7. CASE kernel \notin Gemv
  <2>1. TileRows = 0 .. Height * Rows - 1
    BY <1>7 DEF TileRows
  <2>2. r \in Int
    OBVIOUS
  <2> QED
    BY <1>5, <2>1, <2>2 DEF Current, FirstRow
<1> QED
  BY <1>6, <1>7

\* A float of the output has one row and one column.
LEMMA OneFloat ==
    ASSUME kernel \in Kernels, call \in Calls(kernel),
           NEW r \in Nat, NEW c \in 0 .. OutCols - 1,
           NEW p \in Nat, NEW q \in 0 .. OutCols - 1, At(call, r, c) = At(call, p, q)
    PROVE  r = p /\ c = q
<1>1. call.s \in Nat /\ call.bs \in Nat /\ OutCols <= call.bs /\ OutCols \in Int
  BY CallTypes, Sizes DEF OutCols
<1>2. c \in 0 .. call.bs - 1 /\ q \in 0 .. call.bs - 1
  BY <1>1
<1>3. r * call.bs + c = p * call.bs + q
  <2>1. r * call.bs \in Int /\ p * call.bs \in Int
    BY <1>1, Sums
  <2> QED
    BY <1>1, <1>2, <2>1 DEF At
<1> QED
  BY ONLY <1>1, <1>2, <1>3, r \in Nat, p \in Nat, OnePlace

LEMMA InitSound == Init => MemoryIs /\ Running /\ Reloads
BY DEF Init, MemoryIs, Nest, Running, Reloads

LEMMA StartMemory ==
    ASSUME Shape, MemoryIs, NEW trap \in BOOLEAN, NEW done \in BOOLEAN, Start(trap, done),
           BoundsOk \/ trap \/ done, ~Empty \/ trap \/ done, done => Idle
    PROVE  MemoryIs' /\ Running' /\ Reloads'
<1>1. /\ pc = "entry" /\ kernel' = kernel /\ call' = call /\ memory' = memory
      /\ y' = nrGroups
      /\ pc' = CASE trap -> "trap" [] done /\ ~trap -> "done" [] OTHER -> "rows"
  BY DEF Start
<1>2. /\ nb' = nb /\ nrGroups' = nrGroups
      /\ Idle' <=> Idle
  BY <1>1, SameCall DEF Idle
<1>3. \A a \in 0 .. Size - 1 : memory'[a] = Host
  BY <1>1 DEF MemoryIs
<1>4. pc' \in {"trap", "done", "rows"}
  BY <1>1
<1>5. CASE pc' = "trap"
  BY <1>5 DEF MemoryIs, Nest, Running, Reloads
<1>6. CASE pc' = "done"
  <2>1. Idle'
    BY <1>1, <1>2, <1>6
  <2> QED
    BY <1>3, <1>6, <2>1 DEF MemoryIs, Nest, Running, Reloads
<1>7. CASE pc' = "rows"
  <2>1. BoundsOk /\ ~Empty
    BY <1>1, <1>7
  <2>2. kernel \in Kernels /\ call \in Calls(kernel)
    BY DEF Shape
  <2>3. nrGroups \in Nat /\ nrGroups >= 1
    BY <2>1, <2>2, CallTypes DEF Empty
  <2>4. FirstRow' = 0
    <3>1. RowsDone' = 0
      BY <1>1, <1>2, <2>3 DEF RowsDone
    <3> QED
      BY <3>1, Sizes DEF FirstRow
  <2>5. ASSUME NEW r \in 0 .. OutRows - 1, NEW c \in 0 .. OutCols - 1
        PROVE  memory'[At(call, r, c)] = Is(r, c)'
    <3>1. At(call, r, c) \in 0 .. Size - 1
      BY <2>1, <2>2, <2>3, <2>5, OutputInMemory
    <3>2. ~(r < FirstRow')
      BY <2>4, <2>5
    <3>3. Is(r, c)' = Host
      BY <1>7, <3>2 DEF Is
    <3> QED
      BY <1>3, <3>1, <3>3
  <2>6. OutRows' = OutRows /\ OutCols' = OutCols /\ Others' = Others
    BY <1>1, SameCall DEF Others
  <2>7. \A a \in Others : memory'[a] = Host
    BY <1>3 DEF Others
  <2> QED
    BY <1>1, <1>7, <2>5, <2>6, <2>7 DEF MemoryIs, Nest, Running, Reloads
<1> QED
  BY <1>4, <1>5, <1>6, <1>7

LEMMA prologueMemory ==
    ASSUME Shape, MemoryIs, prologue
    PROVE  MemoryIs' /\ Running' /\ Reloads'
<1> DEFINE trap == ~Empty /\ ~BoundsOk
           done == Empty
<1>1. trap \in BOOLEAN /\ done \in BOOLEAN
  BY DEF Empty
<1>2. BoundsOk \/ trap \/ done
  OBVIOUS
<1>3. ~Empty \/ trap \/ done
  OBVIOUS
<1>4. Start(trap, done)
  BY DEF prologue
<1>5. done => Idle
  BY DEF Idle
<1> HIDE DEF trap, done
<1> QED
  BY <1>1, <1>2, <1>3, <1>4, <1>5, StartMemory

LEMMA x64RepackPrologueMemory ==
    ASSUME Shape, MemoryIs, x64RepackPrologue
    PROVE  MemoryIs' /\ Running' /\ Reloads'
<1> DEFINE trap == ~BoundsOk
           done == Empty \/ nb = 0
<1>1. trap \in BOOLEAN /\ done \in BOOLEAN
  BY DEF Empty
<1>2. BoundsOk \/ trap \/ done
  OBVIOUS
<1>3. ~Empty \/ trap \/ done
  OBVIOUS
<1>4. Start(trap, done)
  BY DEF x64RepackPrologue
<1>5. done => Idle
  BY DEF Idle, x64RepackPrologue
<1> HIDE DEF trap, done
<1> QED
  BY <1>1, <1>2, <1>3, <1>4, <1>5, StartMemory

LEMMA SameMemory ==
    ASSUME MemoryIs, pc \in Nest, pc' \in Nest,
           kernel' = kernel, call' = call, memory' = memory,
           \A r \in 0 .. OutRows - 1, c \in 0 .. OutCols - 1 : Is(r, c)' = Is(r, c)
    PROVE  MemoryIs'
<1>1. OutRows' = OutRows /\ OutCols' = OutCols /\ Others' = Others
  BY SameCall DEF Others
<1>2. pc' \notin {"entry", "done"}
  BY DEF Nest
<1> QED
  BY <1>1, <1>2 DEF MemoryIs

LEMMA rowsMemory ==
    ASSUME Shape, MemoryIs, rows
    PROVE  MemoryIs' /\ Running' /\ Reloads'
<1>1. /\ pc = "rows" /\ pc' = "chunk" /\ off' = 0
      /\ kernel' = kernel /\ call' = call /\ memory' = memory
      /\ y' = y /\ ap' = ap /\ rp' = rp
  BY DEF rows, cursors
<1>2. FirstRow' = FirstRow /\ Height' = Height /\ RowsDone' = RowsDone /\ nb' = nb
  BY <1>1, SameRows, SameCall DEF FirstRow
<1>3. ASSUME NEW r, NEW c PROVE Is(r, c)' = Is(r, c)
  <2>1. ~Stored(c)'
    BY <1>1 DEF Stored, InChunk
  <2>2. CASE r < FirstRow
    BY <1>1, <1>2, <2>2 DEF Is
  <2>3. CASE ~(r < FirstRow)
    BY <1>1, <1>2, <2>1, <2>3 DEF Is
  <2> QED
    BY <2>2, <2>3
<1> QED
  BY <1>1, <1>3, SameMemory DEF Nest, Running, Reloads

LEMMA chunkMemory ==
    ASSUME Shape, MemoryIs, chunk
    PROVE  MemoryIs' /\ Running' /\ Reloads'
<1>1. /\ pc = "chunk" /\ pc' = "cols" /\ off' = off
      /\ kernel' = kernel /\ call' = call /\ memory' = memory
      /\ y' = y /\ ap' = ap /\ rp' = rp /\ x' = ncGroups /\ sp' = rp
  BY DEF chunk
<1>2. /\ FirstRow' = FirstRow /\ Height' = Height /\ RowsDone' = RowsDone
      /\ nb' = nb /\ ncGroups' = ncGroups
  BY <1>1, SameRows, SameCall DEF FirstRow
<1>3. FirstCol' = 0
  <2>1. ncGroups \in Nat
    BY CallTypes DEF Shape
  <2>2. ColsDone' = 0
    BY <1>1, <1>2, <2>1 DEF ColsDone
  <2> QED
    BY <2>2, Sizes DEF FirstCol
<1>4. ASSUME NEW r \in 0 .. OutRows - 1, NEW c \in 0 .. OutCols - 1
      PROVE  Is(r, c)' = Is(r, c)
  <2>1. ~Stored(c)
    BY <1>1 DEF Stored, InChunk
  <2>2. ~Stored(c)'
    BY <1>1, <1>3, <1>4 DEF Stored
  <2>3. Current(r)' <=> Current(r)
    BY <1>2 DEF Current
  <2> QED
    BY <1>1, <1>2, <2>1, <2>2, <2>3 DEF Is
<1> QED
  BY <1>1, <1>2, <1>4, SameMemory DEF Nest, Running, Reloads

LEMMA nextChunkMemory ==
    ASSUME Shape, MemoryIs, nextChunk
    PROVE  MemoryIs' /\ Running' /\ Reloads'
<1>1. /\ pc = "next" /\ pc' = "chunk" /\ off' = off + cnt /\ left # cnt
      /\ kernel' = kernel /\ call' = call /\ memory' = memory
      /\ y' = y /\ ap' = ap /\ rp' = rp
  BY DEF nextChunk, cursors
<1>2. FirstRow' = FirstRow /\ Height' = Height /\ RowsDone' = RowsDone /\ nb' = nb
  BY <1>1, SameRows, SameCall DEF FirstRow
<1>3. off' # 0
  BY <1>1 DEF Shape, Nest, InChunk, InBlocks, InTiles
<1>4. ASSUME NEW r, NEW c PROVE Is(r, c)' = Is(r, c)
  <2>1. Stored(c)
    BY <1>1 DEF Stored
  <2>2. ~Stored(c)'
    BY <1>1 DEF Stored, InChunk
  <2>3. Current(r)' <=> Current(r)
    BY <1>2 DEF Current
  <2> QED
    BY <1>1, <1>2, <1>3, <2>1, <2>2, <2>3 DEF Is
<1> QED
  BY <1>1, <1>4, SameMemory DEF Nest, Running, Reloads

LEMMA nextRowsMemory ==
    ASSUME Shape, MemoryIs, nextRows
    PROVE  MemoryIs' /\ Running' /\ Reloads'
<1>1. /\ pc = "next" /\ left = cnt /\ y' = y - Height
      /\ pc' = (IF y' = 0 THEN "done" ELSE "rows")
      /\ kernel' = kernel /\ call' = call /\ memory' = memory
  BY DEF nextRows
<1>2. /\ nb' = nb /\ nrGroups' = nrGroups /\ ncGroups' = ncGroups
      /\ OutRows' = OutRows /\ OutCols' = OutCols /\ Others' = Others
      /\ Empty' = Empty
  BY <1>1, SameCall DEF Others
<1>3. InRows /\ InBlocks
  BY <1>1 DEF Shape, Nest
<1>4. nrGroups \in Nat /\ ncGroups \in Nat /\ (kernel \in Gemv => nrGroups = 1)
  BY CallTypes DEF Shape
<1>5. y \in 1 .. nrGroups /\ Height \in {1, 2} /\ Height <= y
  BY <1>3, <1>4, HeightFits DEF InRows
<1>6. RowsDone' = RowsDone + Height /\ RowsDone \in Nat /\ Height \in Nat
  BY <1>1, <1>2, <1>4, <1>5 DEF RowsDone
<1>7. FirstRow' = (RowsDone + Height) * Rows /\ FirstRow' \in Nat /\ FirstRow \in Nat
  <2>1. RowsDone + Height \in Nat
    BY <1>6
  <2> QED
    BY <1>6, <2>1, Sizes, Products DEF FirstRow
<1>8. off + cnt = nb
  BY <1>1, <1>3 DEF InBlocks
\* The rows of the row group are done, and those to come are the host's.
<1>9. ASSUME NEW r \in 0 .. OutRows - 1, NEW c \in 0 .. OutCols - 1
      PROVE  memory[At(call, r, c)] = IF r < FirstRow' THEN Part(call, r, c, nb) ELSE Host
  <2>1. memory[At(call, r, c)] = Is(r, c)
    BY <1>1, <1>9 DEF MemoryIs, Nest
  <2>2. Stored(c) /\ r \in Nat
    BY <1>1, <1>9 DEF Stored
  <2>3. CASE r < FirstRow
    <3>1. RowsDone * Rows <= (RowsDone + Height) * Rows
      BY ONLY <1>6, Sizes, Products
    <3>2. r < FirstRow'
      BY <1>7, <2>2, <2>3, <3>1 DEF FirstRow
    <3> QED
      BY <2>1, <2>3, <3>2 DEF Is
  <2>4. CASE ~(r < FirstRow) /\ r < FirstRow'
    <3>1. Current(r)
      BY <1>7, <2>2, <2>4 DEF Current
    <3>2. Is(r, c) = Part(call, r, c, off + cnt)
      BY <1>1, <2>2, <2>4, <3>1 DEF Is
    <3> QED
      BY <1>8, <2>1, <2>4, <3>2
  <2>5. CASE ~(r < FirstRow) /\ ~(r < FirstRow')
    <3>1. ~Current(r)
      BY <1>7, <2>5 DEF Current
    <3> QED
      BY <2>1, <2>5, <3>1 DEF Is
  <2> QED
    BY <2>3, <2>4, <2>5
<1>10. \A a \in Others : memory[a] = Host
  BY <1>1 DEF MemoryIs, Nest
<1>11. CASE y' = 0
  <2>1. pc' = "done"
    BY <1>1, <1>11
  <2>2. RowsDone + Height = nrGroups
    BY <1>1, <1>4, <1>5, <1>11 DEF RowsDone
  <2>3. OutRows <= FirstRow' /\ OutRows \in Nat
    <3>1. nrGroups * Rows = Rows * nrGroups /\ (nrGroups = 1 => nrGroups * Rows = Rows)
      BY <1>4, Sizes
    <3> QED
      BY <1>4, <1>7, <2>2, <3>1, Sizes DEF OutRows
  <2>4. ASSUME NEW r \in 0 .. OutRows - 1, NEW c \in 0 .. OutCols - 1
        PROVE  memory[At(call, r, c)] = Part(call, r, c, nb)
    <3>1. r < FirstRow'
      BY <1>7, <2>3, <2>4
    <3> QED
      BY <1>9, <2>4, <3>1
  <2>5. ~Idle'
    <3>1. nrGroups >= 1 /\ ncGroups >= 1 /\ (kernel \in ChecksFirst => nb >= 1)
      BY <1>3, <1>4, <1>5 DEF InRows
    <3> QED
      BY <1>1, <1>2, <3>1 DEF Idle, Empty
  <2> QED
    BY <1>1, <1>2, <1>10, <2>1, <2>4, <2>5 DEF MemoryIs, Nest, Running, Reloads
<1>12. CASE y' # 0
  <2>1. pc' = "rows"
    BY <1>1, <1>12
  <2>2. ASSUME NEW r \in 0 .. OutRows - 1, NEW c \in 0 .. OutCols - 1
        PROVE  memory'[At(call, r, c)] = Is(r, c)'
    <3>1. Is(r, c)' = IF r < FirstRow' THEN Part(call, r, c, nb) ELSE Host
      BY <1>1, <1>2, <2>1 DEF Is
    <3> QED
      BY <1>1, <1>9, <2>2, <3>1
  <2> QED
    BY <1>1, <1>2, <1>10, <2>1, <2>2 DEF MemoryIs, Nest, Running, Reloads
<1> QED
  BY <1>11, <1>12

\* The tile is loaded from where its sums are.
LEMMA ReloadsThere ==
    ASSUME Shape, Reloads, pc = "cols", off # 0
    PROVE  ReloadFrom = rp + Cols * ColsDone
<1>1. StoreAt = rp + Cols * ColsDone /\ ColsDone \in Nat
  BY StoresThere DEF InChunk
<1>2. CASE kernel = "gemv_q8_avx2" /\ Width = Together
  <2>1. x \in Nat /\ ncGroups \in Nat /\ Width <= x
    BY CallTypes, StoresThere DEF Shape, InChunk
  <2>2. ~(x < Together)
    BY <1>2, <2>1, Sizes
  <2>3. x = ncGroups /\ sp = rp
    BY <1>2, <2>2 DEF Reloads
  <2>4. ColsDone = 0
    BY <2>1, <2>3 DEF ColsDone
  <2>5. rp \in Int
    <3>1. RowsDone \in Int /\ call.s \in Nat /\ call.bs \in Nat
      BY CallTypes DEF Shape, Nest, InRows, RowsDone
    <3> QED
      BY <3>1, Sizes DEF Shape, Nest, InRows
  <2>6. Cols * ColsDone = 0
    BY <2>4, Sizes
  <2>7. ReloadFrom = sp
    BY <1>2 DEF ReloadFrom
  <2> QED
    BY <2>3, <2>5, <2>6, <2>7
<1>3. CASE ~(kernel = "gemv_q8_avx2" /\ Width = Together)
  BY <1>1, <1>3 DEF ReloadFrom, StoreAt
<1> QED
  BY <1>2, <1>3

LEMMA colsMemory ==
    ASSUME Shape, MemoryIs, Reloads, cols
    PROVE  MemoryIs' /\ Running' /\ Reloads'
<1>1. /\ pc = "cols" /\ pc' \in {"block", "store"} /\ b' = cnt /\ cnt' = cnt
      /\ kernel' = kernel /\ call' = call /\ memory' = memory /\ off' = off
      /\ y' = y /\ ap' = ap /\ rp' = rp /\ x' = x /\ sp' = sp
      /\ acc' = [i \in TileRows |-> [j \in TileCols |->
                    IF off = 0 THEN <<>> ELSE memory[Cell(ReloadFrom, i, j)]]]
  BY DEF cols, cursors
<1>2. /\ FirstRow' = FirstRow /\ Height' = Height /\ RowsDone' = RowsDone
      /\ nb' = nb /\ ncGroups' = ncGroups
      /\ ColsDone' = ColsDone /\ FirstCol' = FirstCol
      /\ TileRows' = TileRows
  BY <1>1, SameRows, SameCall DEF FirstRow, FirstCol, ColsDone
<1>3. TileCols' = TileCols
  BY <1>1 DEF TileCols, Width
<1>4. ASSUME NEW r, NEW c PROVE Is(r, c)' = Is(r, c)
  <2>1. Stored(c)' <=> Stored(c)
    BY <1>1, <1>2 DEF Stored, InChunk
  <2>2. Current(r)' <=> Current(r)
    BY <1>2 DEF Current
  <2> QED
    BY <1>1, <1>2, <2>1, <2>2 DEF Is
<1>5. MemoryIs'
  BY <1>1, <1>4, SameMemory DEF Nest
<1>6. Reloads'
  BY <1>1, <1>2 DEF Reloads
<1>7. off \in Nat /\ cnt \in Nat
  BY <1>1 DEF Shape, Nest, InChunk, InBlocks, InTiles
<1>8. ASSUME NEW i \in TileRows, NEW j \in TileCols
      PROVE  acc'[i][j] = Part(call, FirstRow + i, FirstCol + j, off)
  <2>1. CASE off = 0
    BY <1>1, <1>8, <2>1, NoProducts
  <2>2. CASE off # 0
    <3>1. ReloadFrom = rp + Cols * ColsDone
      BY <1>1, <2>2, ReloadsThere
    <3>2. /\ x \in Nat /\ x >= 1 /\ ColsDone \in Nat /\ ColsDone + Width <= ncGroups
      BY <1>1, StoresThere DEF InChunk
    <3>3. /\ Cell(rp + Cols * ColsDone, i, j) = At(call, FirstRow + i, FirstCol + j)
          /\ FirstRow + i \in 0 .. OutRows - 1
          /\ FirstCol + j \in 0 .. OutCols - 1
      BY <1>1, <1>8, <3>2, TileCells DEF Nest, FirstRow, FirstCol
    <3> DEFINE r == FirstRow + i
               c == FirstCol + j
    <3>4. r \in 0 .. OutRows - 1 /\ c \in 0 .. OutCols - 1
      BY <3>3
    <3>5. i \in Nat /\ j \in Nat /\ FirstRow \in Nat /\ FirstCol \in Nat
      BY <1>1, <1>8, <3>2, TileFits DEF Nest, FirstRow, FirstCol
    <3>6. r - FirstRow \in TileRows
      BY <1>8, <3>5
    <3>7. Current(r)
      BY <1>1, <3>4, <3>6, TileRow DEF Nest
    <3>8. ~(r < FirstRow) /\ ~Stored(c)
      BY <1>1, <3>5 DEF Stored
    <3>9. memory[At(call, r, c)] = Is(r, c)
      BY <1>1, <3>4 DEF MemoryIs, Nest
    <3>10. Is(r, c) = Part(call, r, c, off)
      BY <1>1, <2>2, <3>7, <3>8 DEF Is
    <3> QED
      BY <1>1, <1>8, <2>2, <3>1, <3>3, <3>9, <3>10
  <2> QED
    BY <2>1, <2>2
<1>9. Running'
  <2>1. off' + (cnt' - b') = off
    BY <1>1, <1>7
  <2> QED
    BY <1>1, <1>2, <1>3, <1>8, <2>1 DEF Running
<1> QED
  BY <1>5, <1>6, <1>9

LEMMA blockMemory ==
    ASSUME Shape, MemoryIs, Running, Reloads, block
    PROVE  MemoryIs' /\ Running' /\ Reloads'
<1>1. /\ pc = "block" /\ pc' \in {"block", "store"} /\ b' = b - 1 /\ cnt' = cnt
      /\ kernel' = kernel /\ call' = call /\ memory' = memory /\ off' = off
      /\ y' = y /\ ap' = ap /\ rp' = rp /\ x' = x /\ sp' = sp
      /\ acc' = [i \in TileRows |-> [j \in TileCols |->
                    Append(acc[i][j], <<Activation(i \div Rows), i % Rows,
                                        Weights(j \div Cols), j % Cols>>)]]
  BY DEF block, cursors
<1>2. /\ FirstRow' = FirstRow /\ Height' = Height /\ RowsDone' = RowsDone
      /\ nb' = nb /\ ncGroups' = ncGroups
      /\ ColsDone' = ColsDone /\ FirstCol' = FirstCol
      /\ TileRows' = TileRows
  BY <1>1, SameRows, SameCall DEF FirstRow, FirstCol, ColsDone
<1>3. TileCols' = TileCols
  BY <1>1 DEF TileCols, Width
<1>4. ASSUME NEW r, NEW c PROVE Is(r, c)' = Is(r, c)
  <2>1. Stored(c)' <=> Stored(c)
    BY <1>1, <1>2 DEF Stored, InChunk
  <2>2. Current(r)' <=> Current(r)
    BY <1>2 DEF Current
  <2> QED
    BY <1>1, <1>2, <2>1, <2>2 DEF Is
<1>5. MemoryIs'
  BY <1>1, <1>4, SameMemory DEF Nest
<1>6. Reloads'
  BY <1>1, <1>2 DEF Reloads
<1>7. /\ off \in Nat /\ cnt \in Nat /\ b \in 1 .. cnt
  BY <1>1 DEF Shape, Nest, InChunk, InBlocks, InTiles
<1>8. /\ Width \in Nat /\ Width >= 1 /\ ColsDone \in Nat
      /\ ColsDone + Width <= ncGroups /\ x \in Nat /\ x >= 1
  BY <1>1, StoresThere DEF InChunk
<1>9. /\ RowsDone \in Nat /\ nb \in Nat /\ call.vx \in Nat /\ call.vy \in Nat
      /\ ap = call.vy + RowsDone * nb
      /\ Height \in {1, 2} /\ (kernel \in Gemv => Height = 1)
  <2>1. /\ nb \in Nat /\ call.vx \in Nat /\ call.vy \in Nat /\ nrGroups \in Nat
    BY CallTypes DEF Shape
  <2>2. y \in 1 .. nrGroups /\ ap = call.vy + RowsDone * nb
    BY <1>1 DEF Shape, Nest, InRows
  <2> QED
    BY <2>1, <2>2, HeightFits DEF RowsDone
<1> DEFINE n == off + (cnt - b)
<1>10. n \in Nat
  BY <1>7
<1>11. ASSUME NEW i \in TileRows, NEW j \in TileCols
       PROVE  acc'[i][j] = Part(call, FirstRow + i, FirstCol + j, n + 1)
  <2> DEFINE h == i \div Rows
             g == j \div Cols
  <2>1. i \in Nat /\ j \in Nat
    BY <1>1, <1>8, <1>11, TileFits DEF Nest
  <2>2. /\ h \in Nat /\ i % Rows \in 0 .. Rows - 1 /\ i = h * Rows + (i % Rows)
        /\ g \in Nat /\ j % Cols \in 0 .. Cols - 1 /\ j = g * Cols + (j % Cols)
    BY <2>1, SizesAssumption, Quotient
  <2> HIDE DEF h, g
  <2>3. h \in 0 .. Height - 1
    <3>1. CASE kernel \in Gemv
      <4>1. i = 0
        BY <1>11, <3>1 DEF TileRows
      <4>2. h * Rows \in Nat /\ h * Rows = 0
        <5>1. h * Rows \in Nat
          BY ONLY <2>2, Sizes, Products
        <5> QED
          BY <2>2, <4>1, <5>1
      <4>3. ~(h >= 1)
        <5> SUFFICES ASSUME h >= 1 PROVE FALSE
          OBVIOUS
        <5>1. 1 * Rows <= h * Rows
          BY ONLY <2>2, h >= 1, Sizes, Products
        <5> QED
          BY <4>2, <5>1, Sizes
      <4> QED
        BY <1>9, <2>2, <3>1, <4>3
    <3>2. CASE kernel \notin Gemv
      <4>1. i < Height * Rows /\ Height \in Nat /\ Height * Rows \in Nat
        <5>1. Height \in Nat
          BY <1>9
        <5>2. Height * Rows \in Nat
          BY <5>1, Sizes, Products
        <5> QED
          BY <1>11, <3>2, <5>1, <5>2 DEF TileRows
      <4>2. ~(Height <= h)
        <5> SUFFICES ASSUME Height <= h PROVE FALSE
          OBVIOUS
        <5>1. Height * Rows <= h * Rows /\ h * Rows \in Nat
          BY ONLY <2>2, <4>1, Height <= h, Sizes, Products
        <5> QED
          BY <2>2, <4>1, <5>1
      <4> QED
        BY <2>2, <4>1, <4>2
    <3> QED
      BY <3>1, <3>2
  <2>4. g \in 0 .. Width - 1
    <3>1. j < Width * Cols /\ Width * Cols \in Nat
      BY <1>8, <1>11, Sizes, Products DEF TileCols
    <3>2. ~(Width <= g)
      <4> SUFFICES ASSUME Width <= g PROVE FALSE
        OBVIOUS
      <4>1. Width * Cols <= g * Cols /\ g * Cols \in Nat
        BY ONLY <1>8, <2>2, Width <= g, Sizes, Products
      <4> QED
        BY <2>2, <3>1, <4>1
    <3> QED
      BY <1>8, <2>2, <3>2
  <2>5. /\ (FirstRow + i) \div Rows = RowsDone + h /\ (FirstRow + i) % Rows = i % Rows
    <3>1. (RowsDone + h) * Rows = RowsDone * Rows + h * Rows
          /\ RowsDone * Rows \in Nat /\ h * Rows \in Nat
      BY ONLY <1>9, <2>2, Sizes, Sums, Products
    <3>2. FirstRow + i = (RowsDone + h) * Rows + (i % Rows)
      BY <2>1, <2>2, <3>1 DEF FirstRow
    <3>3. RowsDone + h \in Nat /\ Rows \in Nat \ {0}
      BY <1>9, <2>2, SizesAssumption
    <3> DEFINE a == FirstRow + i
               u == RowsDone + h
               v == i % Rows
    <3>4. a = u * Rows + v /\ u \in Nat /\ v \in 0 .. Rows - 1
      BY <2>2, <3>2, <3>3
    <3> HIDE DEF a, u, v
    <3>5. a \div Rows = u /\ a % Rows = v
      BY ONLY <3>3, <3>4, QuotientIs
    <3> QED
      BY <3>5 DEF a, u, v
  <2>6. /\ (FirstCol + j) \div Cols = ColsDone + g /\ (FirstCol + j) % Cols = j % Cols
    <3>1. (ColsDone + g) * Cols = ColsDone * Cols + g * Cols
          /\ ColsDone * Cols \in Nat /\ g * Cols \in Nat
          /\ Cols * ColsDone = ColsDone * Cols
      BY ONLY <1>8, <2>2, Sizes, Sums, Products
    <3>2. FirstCol + j = (ColsDone + g) * Cols + (j % Cols)
      BY <2>1, <2>2, <3>1 DEF FirstCol
    <3>3. ColsDone + g \in Nat /\ Cols \in Nat \ {0}
      BY <1>8, <2>2, SizesAssumption
    <3> DEFINE a == FirstCol + j
               u == ColsDone + g
               v == j % Cols
    <3>4. a = u * Cols + v /\ u \in Nat /\ v \in 0 .. Cols - 1
      BY <2>2, <3>2, <3>3
    <3> HIDE DEF a, u, v
    <3>5. a \div Cols = u /\ a % Cols = v
      BY ONLY <3>3, <3>4, QuotientIs
    <3> QED
      BY <3>5 DEF a, u, v
  <2>7. Activation(h) = call.vy + (RowsDone + h) * nb + (n + 1) - 1
    <3>1. /\ Activation(h) = ap + h * nb + off + (cnt - b)
          /\ ap \in Int /\ h * nb \in Int
      BY <1>1, <2>3, ActivationIs
    <3>2. /\ (RowsDone + h) * nb = RowsDone * nb + h * nb
          /\ RowsDone * nb \in Int
      BY ONLY <1>9, <2>2, Sums
    <3> QED
      BY <1>7, <1>9, <3>1, <3>2
  <2>8. Weights(g) = call.vx + (ColsDone + g) * nb + (n + 1) - 1
    <3>1. Weights(g) = call.vx + (ColsDone + g) * nb + n
      BY <1>1, <2>4, WeightsIs
    <3>2. (ColsDone + g) * nb \in Int
      BY <1>8, <1>9, <2>2, Sums
    <3> QED
      BY <1>9, <1>10, <3>1, <3>2
  <2>9. acc[i][j] = Part(call, FirstRow + i, FirstCol + j, n)
    BY <1>1, <1>11 DEF Running
  <2>10. acc'[i][j] = Append(acc[i][j], <<Activation(h), i % Rows, Weights(g), j % Cols>>)
    BY <1>1, <1>11 DEF h, g
  <2>11. nb = call.nb
    BY DEF nb
  <2> DEFINE r == FirstRow + i
             c == FirstCol + j
             p == <<Activation(h), i % Rows, Weights(g), j % Cols>>
  <2>12. p = <<call.vy + (r \div Rows) * call.nb + (n + 1) - 1, r % Rows,
               call.vx + (c \div Cols) * call.nb + (n + 1) - 1, c % Cols>>
    BY ONLY <2>5, <2>6, <2>7, <2>8, <2>11
  <2> HIDE DEF r, c, p, n
  <2>13. Append(Part(call, r, c, n), p) = Part(call, r, c, n + 1)
    BY ONLY <1>10, <2>12, OneMore
  <2>14. acc'[i][j] = Append(Part(call, r, c, n), p)
    BY <2>9, <2>10 DEF r, c, p
  <2> QED
    BY <2>13, <2>14 DEF r, c
<1>12. off' + (cnt' - b') = n + 1
  BY <1>1, <1>7
<1>13. Running'
  BY <1>1, <1>2, <1>3, <1>11, <1>12 DEF Running
<1> QED
  BY <1>5, <1>6, <1>13

\* A tile's floats, and those of the output that are not among them.
LEMMA storedCells ==
    ASSUME Shape, pc = "store", Running,
           memory' = [a \in 0 .. Size - 1 |->
                         IF a \in Cells(StoreAt)
                         THEN LET c == CHOOSE c \in TileRows \X TileCols :
                                           Cell(StoreAt, c[1], c[2]) = a
                              IN  acc[c[1]][c[2]]
                         ELSE memory[a]]
    PROVE  /\ \A i \in TileRows, j \in TileCols :
                  memory'[At(call, FirstRow + i, FirstCol + j)]
                      = Part(call, FirstRow + i, FirstCol + j, off + cnt)
           /\ \A r \in 0 .. OutRows - 1, c \in 0 .. OutCols - 1 :
                  \/ r - FirstRow \in TileRows /\ c - FirstCol \in TileCols
                  \/ memory'[At(call, r, c)] = memory[At(call, r, c)]
           /\ \A a \in Others : memory'[a] = memory[a]
<1>1. /\ StoreAt = rp + Cols * ColsDone
      /\ ColsDone \in Nat /\ ColsDone + Width <= ncGroups
      /\ x \in Nat /\ x >= 1
  BY StoresThere DEF InChunk
<1> DEFINE at == StoreAt
<1>2. ASSUME NEW i \in TileRows, NEW j \in TileCols
      PROVE  /\ Cell(at, i, j) = At(call, FirstRow + i, FirstCol + j)
             /\ FirstRow + i \in 0 .. OutRows - 1
             /\ FirstCol + j \in 0 .. OutCols - 1
  BY <1>1, <1>2, TileCells DEF Nest, FirstRow, FirstCol
<1>3. ASSUME NEW r \in 0 .. OutRows - 1, NEW c \in 0 .. OutCols - 1
      PROVE  At(call, r, c) \in 0 .. Size - 1 /\ At(call, r, c) \in Output
  <2>1. nrGroups >= 1 /\ BoundsOk /\ kernel \in Kernels /\ call \in Calls(kernel)
    BY CallTypes DEF Shape, Nest, InRows
  <2>2. At(call, r, c) \in 0 .. Size - 1
    BY <1>3, <2>1, OutputInMemory
  <2> QED
    BY <1>3, <2>2, OutputIs
<1>4. /\ FirstRow \in Nat /\ FirstCol \in Nat
      /\ \A i \in TileRows : i \in Nat
      /\ \A j \in TileCols : j \in Nat
  BY <1>1, TileFits DEF Nest, FirstRow, FirstCol
<1>5. off \in Nat /\ cnt \in Nat /\ b = 0
  BY DEF Shape, Nest, InChunk, InBlocks, InTiles
<1> HIDE DEF at
<1>6. ASSUME NEW i \in TileRows, NEW j \in TileCols
      PROVE  memory'[At(call, FirstRow + i, FirstCol + j)]
                 = Part(call, FirstRow + i, FirstCol + j, off + cnt)
  <2> DEFINE a == At(call, FirstRow + i, FirstCol + j)
             P(c) == Cell(at, c[1], c[2]) = a
             c == CHOOSE d \in TileRows \X TileCols : P(d)
  <2>1. a = Cell(at, i, j) /\ a \in 0 .. Size - 1
    BY <1>2, <1>3, <1>6
  <2>2. a \in Cells(at)
    BY <1>6, <2>1 DEF Cells
  <2>3. <<i, j>> \in TileRows \X TileCols /\ P(<<i, j>>)
    BY <1>6, <2>1
  <2>4. c \in TileRows \X TileCols /\ P(c)
    BY <2>3
  <2>5. memory'[a] = acc[c[1]][c[2]]
    BY <2>1, <2>2 DEF at
  <2> HIDE DEF c
  <2> DEFINE k == c[1]
             l == c[2]
  <2>6. k \in TileRows /\ l \in TileCols /\ Cell(at, k, l) = a
    BY <2>4
  <2> HIDE DEF k, l
  <2>7. /\ Cell(at, k, l) = At(call, FirstRow + k, FirstCol + l)
        /\ FirstRow + k \in 0 .. OutRows - 1 /\ FirstCol + l \in 0 .. OutCols - 1
    BY <1>2, <2>6
  <2>8. FirstRow + k = FirstRow + i /\ FirstCol + l = FirstCol + j
    <3>1. At(call, FirstRow + k, FirstCol + l) = At(call, FirstRow + i, FirstCol + j)
      BY <2>6, <2>7
    <3>2. /\ FirstRow + i \in Nat /\ FirstCol + j \in 0 .. OutCols - 1
          /\ FirstRow + k \in Nat
      BY <1>2, <1>4, <1>6, <2>6
    <3>3. kernel \in Kernels /\ call \in Calls(kernel)
      BY DEF Shape
    <3> DEFINE r1 == FirstRow + k
               c1 == FirstCol + l
               r2 == FirstRow + i
               c2 == FirstCol + j
    <3>4. /\ r1 \in Nat /\ r2 \in Nat /\ c1 \in 0 .. OutCols - 1 /\ c2 \in 0 .. OutCols - 1
          /\ At(call, r1, c1) = At(call, r2, c2)
      BY <2>7, <3>1, <3>2
    <3> HIDE DEF r1, c1, r2, c2
    <3>5. r1 = r2 /\ c1 = c2
      BY ONLY <3>3, <3>4, OneFloat
    <3> QED
      BY <3>5 DEF r1, c1, r2, c2
  <2>9. acc[k][l] = Part(call, FirstRow + k, FirstCol + l, off + (cnt - b))
    BY <2>6 DEF Running
  <2>10. off + (cnt - b) = off + cnt
    BY <1>5
  <2>11. memory'[a] = acc[k][l]
    BY <2>5 DEF k, l
  <2> QED
    BY <2>8, <2>9, <2>10, <2>11
<1>7. ASSUME NEW a \in 0 .. Size - 1, a \notin Cells(at) PROVE memory'[a] = memory[a]
  BY <1>7 DEF at
<1>8. ASSUME NEW r \in 0 .. OutRows - 1, NEW c \in 0 .. OutCols - 1,
             ~(r - FirstRow \in TileRows /\ c - FirstCol \in TileCols)
      PROVE  memory'[At(call, r, c)] = memory[At(call, r, c)]
  <2>1. At(call, r, c) \notin Cells(at)
    <3> SUFFICES ASSUME At(call, r, c) \in Cells(at) PROVE FALSE
      OBVIOUS
    <3>1. PICK i \in TileRows, j \in TileCols : At(call, r, c) = Cell(at, i, j)
      BY DEF Cells
    <3> DEFINE r1 == FirstRow + i
               c1 == FirstCol + j
    <3>2. /\ At(call, r, c) = At(call, r1, c1)
          /\ r1 \in Nat /\ r \in Nat /\ c1 \in 0 .. OutCols - 1
      BY <1>2, <1>4, <1>8, <3>1
    <3>3. kernel \in Kernels /\ call \in Calls(kernel)
      BY DEF Shape
    <3> HIDE DEF r1, c1
    <3>4. r = r1 /\ c = c1
      BY ONLY <1>8, <3>2, <3>3, OneFloat
    <3>5. r - FirstRow = i /\ c - FirstCol = j
      BY <1>4, <3>4 DEF r1, c1
    <3> QED
      BY <1>8, <3>5
  <2> QED
    BY <1>3, <1>7, <1>8, <2>1
<1>9. ASSUME NEW a \in Others PROVE memory'[a] = memory[a]
  <2>1. a \in 0 .. Size - 1 /\ a \notin Output
    BY <1>9 DEF Others
  <2>2. a \notin Cells(at)
    BY <1>2, <1>3, <2>1 DEF Cells
  <2> QED
    BY <1>7, <2>1, <2>2
<1> QED
  BY <1>6, <1>8, <1>9

LEMMA storeMemory ==
    ASSUME Shape, MemoryIs, Running, Reloads, OnePass, store
    PROVE  MemoryIs' /\ Running' /\ Reloads'
<1>1. /\ pc = "store" /\ pc' = (IF x' = 0 THEN "next" ELSE "cols")
      /\ cnt' = cnt /\ kernel' = kernel /\ call' = call /\ off' = off
      /\ y' = y /\ ap' = ap /\ rp' = rp /\ x' = x - Width
      /\ memory' = [a \in 0 .. Size - 1 |->
                       IF a \in Cells(StoreAt)
                       THEN LET c == CHOOSE c \in TileRows \X TileCols :
                                         Cell(StoreAt, c[1], c[2]) = a
                            IN  acc[c[1]][c[2]]
                       ELSE memory[a]]
  BY DEF store
<1>2. /\ FirstRow' = FirstRow /\ Height' = Height /\ RowsDone' = RowsDone
      /\ nb' = nb /\ ncGroups' = ncGroups
      /\ OutRows' = OutRows /\ OutCols' = OutCols /\ Others' = Others
  BY <1>1, SameRows, SameCall DEF FirstRow, Others
<1>3. /\ Width \in Nat /\ Width >= 1 /\ ColsDone \in Nat
      /\ ColsDone + Width <= ncGroups /\ x \in Nat /\ x >= 1 /\ Width <= x
  BY <1>1, StoresThere DEF InChunk
<1>4. ncGroups \in Nat
  BY CallTypes DEF Shape
<1>5. /\ \A i \in TileRows, j \in TileCols :
             memory'[At(call, FirstRow + i, FirstCol + j)]
                 = Part(call, FirstRow + i, FirstCol + j, off + cnt)
      /\ \A r \in 0 .. OutRows - 1, c \in 0 .. OutCols - 1 :
             \/ r - FirstRow \in TileRows /\ c - FirstCol \in TileCols
             \/ memory'[At(call, r, c)] = memory[At(call, r, c)]
      /\ \A a \in Others : memory'[a] = memory[a]
  BY <1>1, storedCells
<1>6. /\ FirstCol \in Nat /\ Width * Cols \in Nat /\ FirstCol' = FirstCol + Width * Cols
      /\ (x' = 0 => FirstCol' = OutCols) /\ OutCols \in Nat
  <2>1. ColsDone' = ColsDone + Width
    BY <1>1, <1>2, <1>3, <1>4 DEF ColsDone
  <2>2. /\ ColsDone * Cols \in Nat /\ Width * Cols \in Nat /\ ncGroups * Cols \in Nat
        /\ (ColsDone + Width) * Cols = ColsDone * Cols + Width * Cols
        /\ Cols * ColsDone = ColsDone * Cols /\ Cols * ncGroups = ncGroups * Cols
    BY ONLY <1>3, <1>4, Sizes, Scaled
  <2>3. Cols * (ColsDone + Width) = (ColsDone + Width) * Cols
    BY <1>3, Sizes
  <2>4. x' = 0 => ColsDone + Width = ncGroups
    BY <1>1, <1>3, <1>4 DEF ColsDone
  <2>5. FirstCol' = Cols * (ColsDone + Width)
    BY <2>1 DEF FirstCol
  <2> QED
    BY <2>2, <2>3, <2>4, <2>5 DEF FirstCol, OutCols
<1>7. pc' \in {"next", "cols"} /\ (pc' = "next" => x' = 0)
  BY <1>1
<1>8. TileCols = 0 .. Width * Cols - 1
  BY DEF TileCols
<1>9. FirstRow \in Nat
  BY <1>1, <1>3, TileFits DEF Nest, FirstRow
<1>10. ASSUME NEW r \in 0 .. OutRows - 1, NEW c \in 0 .. OutCols - 1
       PROVE  memory'[At(call, r, c)] = Is(r, c)'
  <2>1. memory[At(call, r, c)] = Is(r, c)
    BY <1>1, <1>10 DEF MemoryIs, Nest
  <2>2. Current(r)' <=> Current(r)
    BY <1>2 DEF Current
  <2>3. /\ Current(r) => r - FirstRow \in TileRows
        /\ r - FirstRow \in TileRows => Current(r)
    BY <1>1, <1>10, TileRow DEF Nest
  <2>4. r \in Nat /\ c \in Nat /\ c < OutCols
    BY <1>6, <1>10
  <2>5. Stored(c)' <=> c < FirstCol + Width * Cols
    BY <1>6, <1>7, <2>4 DEF Stored, InChunk
  <2>6. Stored(c) <=> c < FirstCol
    BY <1>1 DEF Stored, InChunk
  <2>7. CASE r - FirstRow \in TileRows /\ c - FirstCol \in TileCols
    <3> DEFINE i == r - FirstRow
               j == c - FirstCol
    <3>1. FirstRow + i = r /\ FirstCol + j = c
      BY <1>6, <1>9, <2>4
    <3>2. memory'[At(call, FirstRow + i, FirstCol + j)]
              = Part(call, FirstRow + i, FirstCol + j, off + cnt)
      BY <1>5, <2>7
    <3>3. memory'[At(call, r, c)] = Part(call, r, c, off + cnt)
      BY <3>1, <3>2
    <3>4. Stored(c)' /\ Current(r)' /\ ~(r < FirstRow)
      <4>1. c < FirstCol + Width * Cols
        BY <1>6, <1>8, <2>4, <2>7
      <4> QED
        BY <2>2, <2>3, <2>5, <2>7, <4>1, <1>9, <2>4 DEF Current
    <3>5. Is(r, c)' = Part(call, r, c, off + cnt)
      BY <1>1, <1>2, <1>7, <3>4 DEF Is
    <3> QED
      BY <3>3, <3>5
  <2>8. CASE ~(r - FirstRow \in TileRows /\ c - FirstCol \in TileCols)
    <3>1. memory'[At(call, r, c)] = memory[At(call, r, c)]
      BY <1>5, <1>10, <2>8
    <3>2. Is(r, c)' = Is(r, c)
      <4>1. CASE ~Current(r)
        BY <1>1, <1>2, <1>7, <2>2, <4>1 DEF Is
      <4>2. CASE Current(r)
        <5>1. c - FirstCol \notin TileCols
          BY <2>3, <2>8, <4>2
        <5>2. Stored(c)' <=> Stored(c)
          BY <1>6, <1>8, <2>4, <2>5, <2>6, <5>1
        <5> QED
          BY <1>1, <1>2, <1>7, <2>2, <5>2 DEF Is
      <4> QED
        BY <4>1, <4>2
    <3> QED
      BY <2>1, <3>1, <3>2
  <2> QED
    BY <2>7, <2>8
<1>11. \A a \in Others : memory'[a] = Host
  BY <1>1, <1>5 DEF MemoryIs, Nest
<1>12. MemoryIs'
  BY <1>1, <1>2, <1>7, <1>10, <1>11 DEF MemoryIs, Nest
<1>13. Running'
  BY <1>7 DEF Running
<1>14. ASSUME kernel' = "gemv_q8_avx2", off # 0 PROVE x' < Together
  <2>1. ncGroups < 2 * Together
    <3>1. nb > Chunk /\ kernel = "gemv_q8_avx2"
      BY <1>1, <1>14 DEF Shape, Nest, InBlocks
    <3>2. kernel \in Kernels /\ call \in Calls("gemv_q8_avx2") /\ nb = call.nb /\ ncGroups = call.nc \div Cols
      BY <3>1 DEF Shape, nb, ncGroups
    <3> QED
      BY <3>1, <3>2, CallTypes, Sizes DEF OnePass, Shape
  <2>2. CASE x < Together
    BY <1>1, <1>3, <2>2, Sizes
  <2>3. CASE ~(x < Together)
    <3>1. Width = Together
      BY <1>1, <1>3, <1>14, <2>3, Sizes DEF Width, GroupsOf
    <3>2. x <= ncGroups
      BY <1>3, <1>4 DEF ColsDone
    <3> QED
      BY <1>1, <1>3, <1>4, <2>1, <3>1, <3>2, Sizes
  <2> QED
    BY <2>2, <2>3
<1>15. Reloads'
  BY <1>1, <1>14 DEF Reloads
<1> QED
  BY <1>12, <1>13, <1>15

LEMMA stutterMemory ==
    ASSUME MemoryIs, Running, Reloads, UNCHANGED vars
    PROVE  MemoryIs' /\ Running' /\ Reloads'
<1>1. /\ kernel' = kernel /\ call' = call /\ pc' = pc
      /\ y' = y /\ x' = x /\ ap' = ap /\ rp' = rp /\ sp' = sp
      /\ off' = off /\ cnt' = cnt /\ b' = b /\ acc' = acc /\ memory' = memory
  BY DEF vars, cursors
<1>2. /\ FirstRow' = FirstRow /\ Height' = Height /\ RowsDone' = RowsDone
      /\ nb' = nb /\ ncGroups' = ncGroups
      /\ OutRows' = OutRows /\ OutCols' = OutCols /\ Others' = Others
      /\ ColsDone' = ColsDone /\ FirstCol' = FirstCol /\ TileRows' = TileRows
  BY <1>1, SameRows, SameCall DEF FirstRow, FirstCol, ColsDone, Others
<1>3. TileCols' = TileCols
  BY <1>1 DEF TileCols, Width
<1>4. Idle' <=> Idle
  BY <1>1, <1>2, SameCall DEF Idle
<1>5. ASSUME NEW r, NEW c PROVE Is(r, c)' = Is(r, c)
  <2>1. Stored(c)' <=> Stored(c)
    BY <1>1, <1>2 DEF Stored
  <2>2. Current(r)' <=> Current(r)
    BY <1>2 DEF Current
  <2> QED
    BY <1>1, <1>2, <2>1, <2>2 DEF Is
<1>6. MemoryIs'
  BY <1>1, <1>2, <1>4, <1>5 DEF MemoryIs
<1>7. Running'
  BY <1>1, <1>2, <1>3 DEF Running
<1>8. Reloads'
  BY <1>1, <1>2 DEF Reloads
<1> QED
  BY <1>6, <1>7, <1>8

LEMMA StepSound == OnePass /\ Sound /\ [Next]_vars => Sound'
<1> SUFFICES ASSUME OnePass, Sound, [Next]_vars PROVE Sound'
  OBVIOUS
<1>1. Shape /\ MemoryIs /\ Running /\ Reloads
  BY DEF Sound
<1>2. Shape'
  BY <1>1, StepShape
<1>3. MemoryIs' /\ Running' /\ Reloads'
  BY <1>1, stutterMemory, prologueMemory, x64RepackPrologueMemory, rowsMemory, chunkMemory,
     colsMemory, blockMemory, storeMemory, nextChunkMemory, nextRowsMemory DEF Next
<1> QED
  BY <1>2, <1>3 DEF Sound

LEMMA SoundSums == Sound => SumsInOrder
<1> SUFFICES ASSUME Sound, pc = "done", NEW a \in 0 .. Size - 1
             PROVE  memory[a] = IF Idle \/ a \notin Output THEN Host
                                ELSE SumOf((a - call.s) \div call.bs, (a - call.s) % call.bs)
  BY DEF SumsInOrder, Idle
<1>1. Shape /\ MemoryIs
  BY DEF Sound
<1>2. CASE Idle
  BY <1>1, <1>2 DEF MemoryIs
<1>3. CASE ~Idle /\ a \notin Output
  BY <1>1, <1>3 DEF MemoryIs, Others
<1>4. CASE ~Idle /\ a \in Output
  <2>1. PICK r \in 0 .. OutRows - 1, c \in 0 .. OutCols - 1 : a = At(call, r, c)
    BY <1>4, OutputIs
  <2>2. memory[a] = Part(call, r, c, nb)
    BY <1>1, <1>4, <2>1 DEF MemoryIs
  <2>3. /\ call.s \in Nat /\ call.bs \in Nat \ {0}
        /\ OutCols <= call.bs /\ OutCols \in Int
    BY <1>1, CallTypes, Sizes DEF Shape, OutCols
  <2>4. r \in Nat /\ c \in 0 .. call.bs - 1
    BY <2>1, <2>3
  <2>5. r * call.bs \in Int
    BY <2>3, <2>4, Sums
  <2> DEFINE o == a - call.s
  <2>6. o = r * call.bs + c
    BY <2>1, <2>3, <2>4, <2>5 DEF At
  <2> HIDE DEF o
  <2>7. o \div call.bs = r /\ o % call.bs = c
    BY ONLY <2>3, <2>4, <2>6, QuotientIs
  <2>8. SumOf(r, c) = Part(call, r, c, nb)
    BY DEF SumOf, Part, nb
  <2>9. (a - call.s) \div call.bs = r /\ (a - call.s) % call.bs = c
    BY <2>7 DEF o
  <2> QED
    BY <1>4, <2>2, <2>8, <2>9
<1> QED
  BY <1>2, <1>3, <1>4

-----------------------------------------------------------------------------
(* Theorems. *)

\* The inductive invariant: the cursors of the nest follow from the groups and
\* the blocks done.
THEOREM ShapeInvariant == Spec => []Shape
<1> QED
  BY InitShape, StepShape, PTL DEF Spec

\* The entry checks cover every access of the fourteen nests: whatever the
\* arguments, the sizes of the groups and the chunk, and the memory.
THEOREM NothingPastTheBuffers == Spec => []RepackInBounds
<1>1. Init => InBounds(touched)
  BY DEF Init, InBounds
<1>2. Shape /\ InBounds(touched) => RepackInBounds
  BY ShapeBoundsChunk DEF InBounds, RepackInBounds
<1> QED
  BY ShapeInvariant, <1>1, <1>2, StepInBounds, PTL DEF Spec


\* Every float of the output is the sum of its row's and column's blocks, each
\* once and in order, and the rest of memory is the host's, whatever nest,
\* chunk or pass a float falls into; for the AVX2 GEMV, while a row is one chunk
\* or its column groups are less than two passes.
THEOREM SumsAreInOrder ==
    ASSUME OnePass
    PROVE  Spec => []SumsInOrder
<1>1. OnePass
  OBVIOUS
<1>2. Init => Sound
  BY InitShape, InitSound DEF Sound
<1>3. Sound /\ [Next]_vars => Sound'
  BY <1>1, StepSound
<1> QED
  BY <1>2, <1>3, SoundSums, PTL DEF Spec
=============================================================================
