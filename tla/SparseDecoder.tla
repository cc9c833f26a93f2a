---------------------------- MODULE SparseDecoder ----------------------------
(***************************************************************************)
(* app/fastboot/flash/sparse_state_machine.c and bulk_process.c: an image  *)
(* that arrives in packets is decoded and written to a partition.          *)
(*                                                                         *)
(* Each pass of the loop in write_sparse_data is a step, and so is each    *)
(* call of bio_write.                                                      *)
(***************************************************************************)
EXTENDS SparseImage

CONSTANTS
    Block,      \* STORAGE_BLOCK_SIZE
    FillPiece   \* FILLED_DATA_CACHE_SIZE

ASSUME BlockAssumption == {Block, FillPiece} \subseteq Nat \ {0}

VARIABLES
    dec,    \* the static unsparse_status and m_unsparse_data, see Decoder
    bulk,   \* the static bulk_status: [status, off]
    disk    \* the partition: what is at each offset

decvars == <<dec, bulk, disk>>

Phases == {"SPARSE_HEADER", "CHUNK_HEADER", "CHUNK_DATA", "CHUNK_FILL", "CHUNK_CRC"}

\* init_unsparse_status.  m_unsparse_data keeps what an earlier image left.
init_unsparse_status(old) ==
    [old EXCEPT !.phase = "SPARSE_HEADER", !.status = "OK", !.buf = <<>>]

\* bio_write: all of it, or less.  With `n` cells written of `cells`.
Written(offset, cells, n) ==
    [o \in DOMAIN disk |-> IF o \in offset + 1..offset + n THEN cells[o - offset] ELSE disk[o]]

bio_write(offset, cells, ok) ==
    \E n \in 0..Len(cells) :
        /\ ok <=> n = Len(cells)
        /\ disk' = Written(offset, cells, n)
-----------------------------------------------------------------------------
\* What is left of the packet after its first n cells.
Rest(n) == SubSeq(dec.buf, n + 1, Len(dec.buf))

\* A packet shorter than the file header leaves the loop where it is, for ever.
wait_sparse_header ==
    /\ dec.phase = "SPARSE_HEADER"
    /\ Len(dec.buf) >= FileHdr
    /\ dec' = [dec EXCEPT !.phase = "CHUNK_HEADER", !.total = dec.buf[1][2],
                          !.buf = Rest(FileHdr),
                          !.processed = 0, !.remain = 0, !.off = 0, !.unhandle = <<>>]
    /\ UNCHANGED disk

PhaseOf(type) ==
    CASE type = "RAW" -> "CHUNK_DATA"
      [] type = "FILL" -> "CHUNK_FILL"
      [] type = "CRC" -> "CHUNK_CRC"
      [] OTHER -> "CHUNK_HEADER"

\* The end of a packet that is too short for a chunk header.
Unhandled == dec.buf

\* With a header that is split over two packets the first part waits in
\* unhandle_buf.
wait_chunk_header ==
    LET need == ChunkHdr - Len(dec.unhandle)
        hdr  == Head(dec.unhandle \o dec.buf)
        size == hdr[2] * SparseBlock
    IN /\ dec.phase = "CHUNK_HEADER"
       /\ \/ /\ dec.processed >= dec.total
             /\ dec' = [dec EXCEPT !.buf = <<>>]
          \/ /\ dec.processed < dec.total
             /\ Len(dec.buf) < need
             /\ dec' = [dec EXCEPT !.unhandle = Unhandled, !.buf = <<>>]
          \/ /\ dec.processed < dec.total
             /\ Len(dec.buf) >= need
             /\ hdr[1] \notin {"RAW", "FILL", "CRC", "DONT_CARE"}
             /\ dec' = [dec EXCEPT !.status = "UNKNOWN_SPARSE_CHUNK_TYPE",
                                   !.unhandle = <<>>, !.remain = size]
          \/ /\ dec.processed < dec.total
             /\ Len(dec.buf) >= need
             /\ hdr[1] \in {"RAW", "FILL", "CRC", "DONT_CARE"}
             /\ dec' = [dec EXCEPT !.phase = PhaseOf(hdr[1]), !.buf = Rest(need),
                                   !.unhandle = <<>>, !.processed = @ + 1,
                                   !.remain = IF hdr[1] = "DONT_CARE" THEN 0 ELSE size,
                                   !.off = @ + IF hdr[1] = "DONT_CARE" THEN size ELSE 0]
       /\ UNCHANGED disk

\* The loop of CHUNK_FILL writes piece by piece; the seed stays the first cell of
\* buf until the last one.
wait_chunk_fill ==
    LET n == IF dec.remain > FillPiece THEN FillPiece ELSE dec.remain
    IN /\ dec.phase = "CHUNK_FILL"
       /\ \/ /\ n = 0
             /\ dec' = [dec EXCEPT !.phase = "CHUNK_HEADER", !.buf = Rest(1)]
             /\ UNCHANGED disk
          \/ /\ n > 0
             /\ \E ok \in BOOLEAN :
                  /\ bio_write(dec.off, [k \in 1..n |-> Head(dec.buf)], ok)
                  /\ dec' = IF ok THEN [dec EXCEPT !.off = @ + n, !.remain = @ - n]
                                  ELSE [dec EXCEPT !.status = "EMMC_ERR"]

wait_chunk_crc ==
    /\ dec.phase = "CHUNK_CRC"
    /\ dec' = [dec EXCEPT !.phase = "CHUNK_HEADER", !.buf = Rest(1), !.remain = 0]
    /\ UNCHANGED disk

\* Whole chunk, or the whole storage blocks of a part of it; a rest shorter than a
\* storage block is left for the caller to put before the next packet.
wait_chunk_data ==
    LET size == Len(dec.buf)
        n == IF size >= dec.remain THEN dec.remain ELSE size - (size % Block)
    IN /\ dec.phase = "CHUNK_DATA"
       /\ \/ /\ size < dec.remain /\ size < Block
             /\ dec' = [dec EXCEPT !.status = "SPARSE_INCOMPLETE"]
             /\ UNCHANGED disk
          \/ /\ size >= dec.remain \/ size >= Block
             /\ \E ok \in BOOLEAN :
                  /\ bio_write(dec.off, SubSeq(dec.buf, 1, n), ok)
                  /\ dec' = IF ~ok THEN [dec EXCEPT !.status = "EMMC_ERR"]
                            ELSE [dec EXCEPT !.off = @ + n, !.remain = @ - n, !.buf = Rest(n),
                                    !.phase = IF n = dec.remain THEN "CHUNK_HEADER" ELSE @]

\* The body of the loop in write_sparse_data, which ends when there is nothing
\* left of the packet or something is wrong.
write_sparse_data_internal ==
    /\ dec.buf # <<>>
    /\ dec.status = "OK"
    /\ \/ wait_sparse_header
       \/ wait_chunk_header
       \/ wait_chunk_fill
       \/ wait_chunk_crc
       \/ wait_chunk_data
    /\ UNCHANGED bulk

Decoded == dec.buf = <<>> \/ dec.status # "OK"

write_bulk_data(data) ==
    \E ok \in BOOLEAN :
        /\ bio_write(bulk.off, data, ok)
        /\ bulk' = IF ok THEN [bulk EXCEPT !.off = @ + Len(data)]
                         ELSE [bulk EXCEPT !.status = "EMMC_ERR"]
        /\ UNCHANGED dec
=============================================================================
