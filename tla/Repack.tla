------------------------------- MODULE Repack -------------------------------
(***************************************************************************)
(* The repack kernels of src/kernels/internal/asm: products of rows of     *)
(* activations with weights whose columns are interleaved in groups.  A    *)
(* GEMV has one row; a GEMM takes its rows in groups of four.              *)
(*                                                                         *)
(* All of them walk row groups, column groups and the blocks of a row.     *)
(* They differ in the order of the entry checks, in how many groups one    *)
(* tile takes, and in whether the blocks come in chunks: a chunk's         *)
(* activations are prepared once on the frame, and the sums of a chunk are *)
(* carried to the next one in the output itself.                           *)
(*                                                                         *)
(* Addresses are counted in blocks for the weights and the activations,    *)
(* and in floats for the output.  A float of the output is the sequence of *)
(* products added to it, so two sums are equal when they were added in the *)
(* same order.                                                             *)
(***************************************************************************)
EXTENDS Integers, Sequences

CONSTANTS Kernels,     \* the kernels to run
          Calls(_),    \* the calls made to each of them
          Size,        \* the bound of memory
          Rows,        \* rows of a row group (4)
          Cols,        \* columns of a column group (4 or 8)
          Together,    \* column groups of a pass of the x64 GEMV (4)
          Chunk        \* blocks of a chunk (256, 512)

ASSUME SizesAssumption == {Size, Rows, Cols, Together, Chunk} \subseteq Nat \ {0}

Gemv == {"gemv_q8_a64", "gemv_q8_avx2", "gemv_q8_vnni",
         "gemv_kx8_a64", "gemv_kx8_x64", "gemv_x8_a64", "gemv_x8_x64"}
Gemm == {"gemm_q8_sdot", "gemm_q8_smmla", "gemm_q8_x64",
         "gemm_kx8_a64", "gemm_kx8_x64", "gemm_x8_a64", "gemm_x8_x64"}

(* Those that check the buffers before they look for an empty problem, and *)
(* have no block loop that runs zero times.                                *)
ChecksFirst == {"gemv_kx8_x64", "gemm_kx8_x64"}

ASSUME KernelsAssumption == Kernels \subseteq Gemv \cup Gemm

(* The rows of the output do not overlap.                                  *)
ASSUME CallsAssumption ==
    \A k \in Kernels : \A c \in Calls(k) :
        /\ {c.nb, c.nr, c.nc, c.s, c.vx, c.vy} \subseteq Nat
        /\ c.bs \in Nat \ {0}
        /\ Cols * (c.nc \div Cols) <= c.bs

VARIABLES kernel, call,   \* the kernel and its arguments
          pc,
          y, x,           \* row and column groups left
          ap, rp,         \* the row group's activations and output
          wp, sp,         \* the column group's weights and output
          left, off, cnt, \* blocks left, done, and in this chunk
          scratch,        \* the chunk's prepared activations
          b,              \* blocks left of the chunk in this tile
          acc,            \* the running sums of the tile
          memory,         \* the floats of memory
          touched         \* what the last step read or wrote

cursors == <<y, x, ap, rp, wp, sp>>
vars == <<kernel, call, pc, cursors, left, off, cnt, scratch, b, acc, memory, touched>>

Host == <<"host">>     \* what memory holds before the call

-----------------------------------------------------------------------------
(* The arguments.                                                          *)

nb == call.nb
nrGroups == IF kernel \in Gemv THEN 1 ELSE call.nr \div Rows
ncGroups == call.nc \div Cols
Empty == nrGroups = 0 \/ ncGroups = 0

(* A pointer before the start of memory is a huge unsigned number.         *)
Fits(end) == end \in 0 .. Size

(* Mutant: the columns of the last row are not counted.                    *)
OutputEnd_LastRow == call.s + (IF kernel \in Gemv THEN 0 ELSE (Rows * nrGroups - 1) * call.bs)

OutputEnd == call.s + Cols * ncGroups
             + (IF kernel \in Gemv THEN 0 ELSE (Rows * nrGroups - 1) * call.bs)

BoundsOk == /\ Fits(OutputEnd)
            /\ Fits(call.vx + nb * ncGroups)
            /\ Fits(call.vy + nb * nrGroups)

-----------------------------------------------------------------------------
(* The shape of a tile.                                                    *)

(* The SMMLA nest takes row groups in pairs; a last single one, and every  *)
(* row group without I8MM, goes through the SDOT nest.                     *)
Height == IF kernel = "gemm_q8_smmla" /\ y >= 2 THEN 2 ELSE 1

Chunked == \/ kernel \in {"gemm_q8_x64", "gemv_q8_avx2", "gemv_q8_vnni"}
           \/ kernel = "gemm_q8_smmla" /\ Height = 2

GroupsOf(k, groups) == IF k \in {"gemv_q8_avx2", "gemv_q8_vnni"} /\ groups >= Together
                       THEN Together ELSE 1
Width == GroupsOf(kernel, x)

TileRows == 0 .. (IF kernel \in Gemv THEN 1 ELSE Height * Rows) - 1
TileCols == 0 .. Width * Cols - 1

(* A float of the tile, with its output at o.                              *)
Cell(o, i, j) == o + i * call.bs + j
Cells(o) == {Cell(o, i, j) : i \in TileRows, j \in TileCols}
Floats(o) == {<<"output", a>> : a \in Cells(o)}

-----------------------------------------------------------------------------
Init == /\ kernel \in Kernels
        /\ call \in Calls(kernel)
        /\ pc = "entry"
        /\ y = 0 /\ x = 0 /\ ap = 0 /\ rp = 0 /\ wp = 0 /\ sp = 0
        /\ left = 0 /\ off = 0 /\ cnt = 0 /\ b = 0
        /\ scratch = <<>> /\ acc = <<>>
        /\ memory = [a \in 0 .. Size - 1 |-> Host]
        /\ touched = {}

(* The prologue ends at once, traps, or sets the row cursors.              *)
Start(trap, done) ==
    /\ pc = "entry"
    /\ pc' = CASE trap -> "trap" [] done /\ ~trap -> "done" [] OTHER -> "rows"
    /\ y' = nrGroups /\ ap' = call.vy /\ rp' = call.s
    /\ UNCHANGED <<kernel, call, x, wp, sp, left, off, cnt, scratch, b, acc,
                   memory, touched>>

prologue == /\ kernel \notin ChecksFirst
            /\ Start(~Empty /\ ~BoundsOk, Empty)

x64RepackPrologue == /\ kernel \in ChecksFirst
                     /\ Start(~BoundsOk, Empty \/ nb = 0)

(* The next row group, or pair of them.                                    *)
rows == /\ pc = "rows"
        /\ pc' = "chunk"
        /\ left' = nb
        /\ off' = 0
        /\ touched' = {}
        /\ UNCHANGED <<kernel, call, cursors, cnt, scratch, b, acc, memory>>

(* Prepare a chunk of every row group's activations, and go back to the    *)
(* first column group.                                                     *)
(* Mutant: both row groups of a pair are prepared from the first.          *)
Prepared_FirstGroup(n) == [h \in 0 .. Height - 1 |-> [k \in 0 .. n - 1 |-> ap + off + k]]

Prepared(n) == [h \in 0 .. Height - 1 |-> [k \in 0 .. n - 1 |-> ap + h * nb + off + k]]

ChunkSize == IF Chunked /\ left > Chunk THEN Chunk ELSE left

chunk == /\ pc = "chunk"
         /\ pc' = "cols"
         /\ cnt' = ChunkSize
         /\ scratch' = IF Chunked THEN Prepared(cnt') ELSE <<>>
         /\ touched' = IF Chunked
                       THEN {<<"activations", ap + h * nb + off + k>> :
                                h \in 0 .. Height - 1, k \in 0 .. cnt' - 1}
                       ELSE {}
         /\ x' = ncGroups /\ wp' = call.vx /\ sp' = rp
         /\ UNCHANGED <<kernel, call, y, ap, rp, left, off, b, acc, memory>>

(* The output of the tile.  The x64 GEMV computes it from the groups done, *)
(* except where the AVX2 pass over several groups reloads its sums: it     *)
(* reads from where the cursor was left.                                   *)
Sought == rp + Cols * (ncGroups - x)

ReloadFrom == IF \/ kernel = "gemv_q8_vnni"
                 \/ kernel = "gemv_q8_avx2" /\ Width # Together
              THEN Sought ELSE sp
StoreAt == IF kernel \in {"gemv_q8_avx2", "gemv_q8_vnni"} THEN Sought ELSE sp

(* Start a tile: from zero in the first chunk, from the output after it.   *)
cols == /\ pc = "cols"
        /\ pc' = IF cnt = 0 /\ kernel \notin ChecksFirst THEN "store" ELSE "block"
        /\ b' = cnt
        /\ LET from == ReloadFrom
           IN  /\ acc' = [i \in TileRows |-> [j \in TileCols |->
                              IF off = 0 THEN <<>> ELSE memory[Cell(from, i, j)]]]
               /\ touched' = IF off = 0 THEN {} ELSE Floats(from)
        /\ UNCHANGED <<kernel, call, cursors, left, off, cnt, scratch, memory>>

(* Add one block's products.                                               *)
Activation(h) == IF Chunked THEN scratch[h][cnt - b] ELSE ap + h * nb + off + (cnt - b)
Weights(g) == wp + g * nb + off + (cnt - b)

block == /\ pc = "block"
         /\ acc' = [i \in TileRows |-> [j \in TileCols |->
                       Append(acc[i][j], <<Activation(i \div Rows), i % Rows,
                                           Weights(j \div Cols), j % Cols>>)]]
         /\ touched' = {<<"activations", Activation(h)>> : h \in 0 .. Height - 1}
                       \cup {<<"weights", Weights(g)>> : g \in 0 .. Width - 1}
         /\ b' = b - 1
         /\ pc' = IF b' = 0 THEN "store" ELSE "block"
         /\ UNCHANGED <<kernel, call, cursors, left, off, cnt, scratch, memory>>

(* Store the tile, and go on to the next column group.                     *)
store == /\ pc = "store"
         /\ LET at == StoreAt
            IN  /\ memory' = [a \in 0 .. Size - 1 |->
                      IF a \in Cells(at)
                      THEN LET c == CHOOSE c \in TileRows \X TileCols :
                                        Cell(at, c[1], c[2]) = a
                           IN  acc[c[1]][c[2]]
                      ELSE memory[a]]
                /\ touched' = Floats(at)
                /\ sp' = IF kernel \in {"gemv_q8_avx2", "gemv_q8_vnni"} THEN at
                         ELSE at + Cols
         /\ x' = x - Width
         /\ wp' = wp + Width * nb
         /\ pc' = IF x' = 0 THEN "next" ELSE "cols"
         /\ UNCHANGED <<kernel, call, y, ap, rp, left, off, cnt, scratch, b, acc>>

(* The next chunk of the row group; after the last, the next row group.    *)
nextChunk == /\ pc = "next"
             /\ left # cnt
             /\ left' = left - cnt
             /\ off' = off + cnt
             /\ pc' = "chunk"
             /\ touched' = {}
             /\ UNCHANGED <<kernel, call, cursors, cnt, scratch, b, acc, memory>>

nextRows == /\ pc = "next"
            /\ left = cnt
            /\ y' = y - Height
            /\ ap' = ap + Height * nb
            /\ rp' = rp + Height * Rows * call.bs
            /\ pc' = IF y' = 0 THEN "done" ELSE "rows"
            /\ touched' = {}
            /\ UNCHANGED <<kernel, call, x, wp, sp, left, off, cnt, scratch, b, acc, memory>>

Next == prologue \/ x64RepackPrologue \/ rows \/ chunk \/ cols \/ block \/ store
        \/ nextChunk \/ nextRows

Spec == Init /\ [][Next]_vars
-----------------------------------------------------------------------------
(* Properties.                                                             *)

Output == {call.s + i * call.bs + j : i \in 0 .. (IF kernel \in Gemv THEN 0 ELSE Rows * nrGroups - 1),
                                      j \in 0 .. Cols * ncGroups - 1}
Buffer == [output      |-> Output,
           weights     |-> {call.vx + k : k \in 0 .. nb * ncGroups - 1},
           activations |-> {call.vy + k : k \in 0 .. nb * nrGroups - 1}]

(* No step reads or writes outside the three buffers of the call, they lie *)
(* in memory, and a chunk never outgrows the scratch of the frame: the     *)
(* entry checks cover every access of the nests, with rows or columns that *)
(* do not fill a group and with no blocks at all.                          *)
RepackInBounds ==
    /\ \A t \in touched : t[2] \in Buffer[t[1]] \cap 0 .. Size - 1
    /\ Chunked /\ pc \in {"cols", "block", "store"} => cnt <= Chunk

(* The product of row r with column c: all blocks, in order.               *)
SumOf(r, c) ==
    [k \in 1 .. nb |-> <<call.vy + (r \div Rows) * nb + k - 1, r % Rows,
                         call.vx + (c \div Cols) * nb + k - 1, c % Cols>>]

(* When a kernel returns, every float of the output is the sum of its own  *)
(* row's and column's blocks, each once, in the order of the row: whatever *)
(* nest, chunk or pass it fell into.  Nothing else has changed.            *)
SumsInOrder ==
    pc = "done" =>
        \A a \in 0 .. Size - 1 :
            memory[a] = IF Empty \/ (nb = 0 /\ kernel \in ChecksFirst) \/ a \notin Output THEN Host
                        ELSE SumOf((a - call.s) \div call.bs, (a - call.s) % call.bs)
=============================================================================
