----------------------------- MODULE SparseImage -----------------------------
(***************************************************************************)
(* The images that fastboot flashes: app/fastboot/flash/sparse_format.h.   *)
(*                                                                         *)
(* The unit is the cell, a 32-bit word: headers, fill seeds and data are   *)
(* whole cells.  A cell is <<tag, n, m>>: a word of the file header, of a  *)
(* chunk header (its tag is the chunk type) or of data.                    *)
(***************************************************************************)
EXTENDS Integers, Sequences, SequencesExt

CONSTANTS
    FileHdr,       \* sizeof(struct sparse_header) in cells
    ChunkHdr,      \* sizeof(struct chunk_header)
    SparseBlock    \* blk_sz of the images

ASSUME SizesAssumption == {FileHdr, ChunkHdr, SparseBlock} \subseteq Nat \ {0}

NoCell == <<"none", 0, 0>>

\* An image: a sequence of chunks [type, size].  Its encoding, and what an
\* image of n cells that is not sparse looks like.
Payload(c, i) ==
    CASE c[i].type = "RAW"   -> [j \in 1..c[i].size * SparseBlock |-> <<"data", i, j>>]
      [] c[i].type = "FILL"  -> << <<"data", i, 0>> >>
      [] c[i].type = "CRC"   -> << <<"data", i, 0>> >>
      [] OTHER -> <<>>

TotalBlocks(c) == FoldSeq(LAMBDA ch, n : n + ch.size, 0, c)

Encoded(c) ==
    [k \in 1..FileHdr |-> <<"file", Len(c), TotalBlocks(c)>>]
    \o FlattenSeq([i \in 1..Len(c) |->
            [k \in 1..ChunkHdr |-> <<c[i].type, c[i].size, 0>>] \o Payload(c, i)])

BulkImage(n) == [k \in 1..n |-> <<"data", 0, k>>]

\* What an image means: the cells of its chunks, one after the other.
Expansion(c) ==
    FlattenSeq([i \in 1..Len(c) |->
        CASE c[i].type = "RAW" -> Payload(c, i)
          [] c[i].type = "FILL" -> [k \in 1..c[i].size * SparseBlock |-> <<"data", i, 0>>]
          [] c[i].type = "DONT_CARE" -> [k \in 1..c[i].size * SparseBlock |-> NoCell]
          [] OTHER -> <<>>])
=============================================================================
