---------------------------- MODULE FlashInMemory ----------------------------
(***************************************************************************)
(* app/fastboot/flash/flash_commands.c, cmd_flash_bio_sparse_img: the      *)
(* "flash:" command decodes a sparse image that was downloaded as a whole. *)
(* The total_sz of a chunk is right for its type.                          *)
(***************************************************************************)
EXTENDS SparseImage

\* The loop over the chunks of the image `data` for a partition of `size` cells,
\* as far as no check and no write fails: the position in data, total_blocks, and
\* what is written.
FlashChunks(data, size) ==
    LET total_chunks == data[1][2]
        total_blks == data[1][3]
        walk[n \in 0..total_chunks] ==
            IF n = 0 THEN [pos |-> FileHdr, blocks |-> 0, written |-> <<>>, failed |-> FALSE]
            ELSE
              LET w   == walk[n - 1]
                  hdr == data[w.pos + 1]
                  pos == w.pos + ChunkHdr
                  len == hdr[2] * SparseBlock
                  fits == /\ hdr[2] <= size \div SparseBlock
                          /\ SparseBlock * (hdr[2] + w.blocks) <= size
                          /\ hdr[2] <= total_blks - w.blocks
                  step(skip, cells) ==
                      [pos |-> pos + skip, blocks |-> w.blocks + hdr[2],
                       written |-> w.written \o cells, failed |-> FALSE]
              IN IF w.failed \/ ~fits THEN [w EXCEPT !.failed = TRUE]
                 ELSE CASE hdr[1] = "RAW" -> step(len, SubSeq(data, pos + 1, pos + len))
                        [] hdr[1] = "DONT_CARE" -> step(0, [k \in 1..len |-> NoCell])
                        [] hdr[1] = "FILL" -> step(1, [k \in 1..len |-> data[pos + 1]])
                        [] OTHER -> [w EXCEPT !.failed = TRUE]
    IN walk[total_chunks]

\* "okay": the answer is OKAY.  A CRC chunk is refused, as its total_sz is not that
\* of a header alone.
cmd_flash_bio_sparse_img(data, size) ==
    LET end == FlashChunks(data, size)
    IN [okay |-> data[1][3] * SparseBlock <= size /\ ~end.failed /\ end.blocks = data[1][3],
        written |-> end.written]
=============================================================================
