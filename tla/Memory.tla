------------------------------- MODULE Memory -------------------------------
(***************************************************************************)
(* The KV cache of a llama.cpp context, as llama_api.cc uses it            *)
(* (llama_memory_clear, llama_memory_seq_rm, llama_memory_seq_cp and what  *)
(* llama_decode adds).  llama.cpp is a submodule outside this repository:  *)
(* the module is external, modelled from its calls.                        *)
(*                                                                         *)
(* A memory is a set of cells.  A cell carries a token at a position and   *)
(* belongs to one or more sequences.  With a unified buffer a copy of a    *)
(* sequence is metadata: its cells gain the destination.  Otherwise each   *)
(* sequence has a stream of its own and a copy duplicates the cells.       *)
(***************************************************************************)
EXTENDS Integers, Sequences, FiniteSets

CONSTANTS
    NSeqMax,    \* n_seq_max of llama_ctx_new
    NCtx,       \* n_ctx: cells of the whole cache
    Unified,    \* kv_unified
    Token       \* the vocabulary, without the end-of-generation tokens

ASSUME SizesAssumption ==
    /\ NSeqMax \in Nat \ {0}
    /\ NCtx \in Nat \ {0}
    /\ Unified \in BOOLEAN

SeqIds == 0 .. NSeqMax - 1

\* llama_n_ctx_seq: the window of one sequence.
NCtxSeq == IF Unified THEN NCtx ELSE NCtx \div NSeqMax

Cell == [pos : Nat, tok : Token, seqs : SUBSET SeqIds]

CellsOf(mem, s) == {c \in mem : s \in c.seqs}

\* What a sequence holds: its tokens with their positions.
Held(mem, s) == {<<c.pos, c.tok>> : c \in CellsOf(mem, s)}

\* The cells a text occupies at its positions, counted from 0.
Placed(text) == {<<i - 1, text[i]>> : i \in DOMAIN text}

\* llama_memory_seq_rm(mem, s, from, -1)
SeqRm(mem, s, from) ==
    LET hit == {c \in CellsOf(mem, s) : c.pos >= from}
    IN  (mem \ hit) \cup
        {[c EXCEPT !.seqs = @ \ {s}] : c \in {d \in hit : d.seqs # {s}}}

\* llama_memory_seq_cp(mem, src, dst, -1, -1)
SeqCp(mem, src, dst) ==
    LET from == CellsOf(mem, src)
    IN  IF Unified
        THEN (mem \ from) \cup {[c EXCEPT !.seqs = @ \cup {dst}] : c \in from}
        ELSE mem \cup {[c EXCEPT !.seqs = {dst}] : c \in from}

\* The cells of toks, decoded at positions first, first + 1, ... of sequence s.
NewCells(s, first, toks) ==
    {[pos |-> first + i - 1, tok |-> toks[i], seqs |-> {s}] : i \in DOMAIN toks}

\* llama_decode finds a cell for every row of the batch, or refuses it whole.
HasRoom(mem, new) ==
    IF Unified
    THEN Cardinality(mem) + Cardinality(new) <= NCtx
    ELSE \A s \in SeqIds :
            Cardinality(CellsOf(mem, s)) + Cardinality(CellsOf(new, s)) <= NCtxSeq
=============================================================================
