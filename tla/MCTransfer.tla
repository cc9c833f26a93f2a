------------------------------ MODULE MCTransfer ------------------------------
(***************************************************************************)
(* Module Transfer for TLC.                                                *)
(***************************************************************************)
EXTENDS Transfer

Chunk(type, size) == [type |-> type, size |-> size]

const_Chunks ==
    {Chunk("RAW", 0), Chunk("RAW", 1), Chunk("RAW", 3), Chunk("RAW", 5),
     Chunk("FILL", 3), Chunk("DONT_CARE", 2), Chunk("CRC", 0), Chunk("BAD", 0)}

const_Images == {<<a>> : a \in const_Chunks} \cup (const_Chunks \X const_Chunks)
                \cup {<<Chunk("RAW", 1), b, c>> : b, c \in const_Chunks}

\* Zeroes, and what a download left that failed in the middle of a chunk.
const_Leftovers ==
    {[phase |-> "SPARSE_HEADER", status |-> "OK", buf |-> <<>>, total |-> 0, processed |-> 0,
      remain |-> 0, off |-> 0, unhandle |-> <<>>],
     [phase |-> "CHUNK_DATA", status |-> "EMMC_ERR", buf |-> << <<"data", 1, 1>> >>, total |-> 3,
      processed |-> 2, remain |-> 5, off |-> 7, unhandle |-> <<NoCell>>]}
=============================================================================
