----------------------------- MODULE LlamaMemory -----------------------------
(***************************************************************************)
(* The memory of a llama.cpp context as ARTICHOKE uses it (kv_unified): a  *)
(* pool of cells, each one token at one position, shared by the sequences  *)
(* that see it.  External: llama.cpp is a submodule, and this module says   *)
(* of each call what src/artichoke/mod.rs relies on.  Positions count from *)
(* 1 here (from 0 in the code).                                            *)
(***************************************************************************)
EXTENDS Integers, FiniteSets

\* What sequence s holds: its tokens, each with its position.
Holds(cells, s) == {<<c.pos, c.tok>> : c \in {d \in cells : s \in d.seqs}}

\* The same, up to a position: what the model has seen at that row.
HoldsUpTo(cells, s, last) == {h \in Holds(cells, s) : h[1] <= last}

\* llama_memory_seq_cp(mem, from, to, -1, -1), for every `to` of a set.
SeqCp(cells, from, to) ==
    {IF from \in c.seqs THEN [c EXCEPT !.seqs = @ \cup to] ELSE c : c \in cells}

\* llama_memory_seq_rm(mem, s, first, -1): a cell nobody holds is free.
SeqRm(cells, seqs, first) ==
    LET cut(c) == IF c.pos >= first THEN [c EXCEPT !.seqs = @ \ seqs] ELSE c
    IN  {c \in {cut(d) : d \in cells} : c.seqs # {}}

\* llama_decode of a batch of (token, position, sequence, slot) entries: each
\* takes a cell of its own.
CellOf(e) == [pos |-> e.pos, tok |-> e.tok, seqs |-> {e.seq}]

Decoded(cells, batch) == cells \cup {CellOf(e) : e \in batch}
==============================================================================
