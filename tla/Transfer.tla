------------------------------- MODULE Transfer -------------------------------
(***************************************************************************)
(* app/fastboot/flash/transfer_parallel.c: download_data reads an image    *)
(* from usb into two buffers in turn while the thread write_storage_proc   *)
(* decodes them and writes them to storage.                                *)
(***************************************************************************)
EXTENDS SparseDecoder, FlashInMemory, AutoEvent

CONSTANTS
    Page,        \* SYSOB_CACHE_PAGE, the size of a buffer, in cells
    MaxSize,     \* max_size of the partition
    Images,      \* sparse images the host sends: sequences of chunks
    BulkSizes,   \* lengths of the other images
    Leftovers    \* what an earlier download may have left in the statics

ASSUME PageAssumption == Page \in Nat /\ Page >= FileHdr /\ Page % Block = 0

VARIABLES
    image,              \* what the host sends: [sparse, chunks, cells]
    read,               \* bytes_already_read
    padding, content,   \* of dual_cache[0] and [1]: the cells in use
    content_available, cache_available,
    thrR_end_ev, thrW_end_ev,
    flipIdxR, flipIdxW,
    status_usb, status_storage,
    first_run,          \* write_data_ctx->first_run
    is_sparse,          \* static in write_data
    reader, writer,     \* where the two threads are
    ret                 \* what download_data returns

events == <<content_available, cache_available, thrR_end_ev, thrW_end_ev>>
shared == <<padding, content, flipIdxR, flipIdxW, status_usb, status_storage>>
flash_vars == <<decvars, image, read, events, shared, first_run, is_sparse, reader, writer, ret>>

Caches == {0, 1}
cache_shift(pre) == 1 - pre
FAIL(status) == status \notin {"OK", "SPARSE_INCOMPLETE"}
Blank == [o \in 1..MaxSize |-> NoCell]

init_engine_context ==
    /\ padding = [i \in Caches |-> <<>>]
    /\ content = [i \in Caches |-> <<>>]
    /\ content_available = [i \in Caches |-> event_init(FALSE)]
    /\ cache_available = [i \in Caches |-> event_init(TRUE)]
    /\ thrR_end_ev = event_init(FALSE)
    /\ thrW_end_ev = event_init(FALSE)
    /\ status_usb = "OK"
    /\ status_storage = "OK"
    /\ flipIdxR = 0
    /\ flipIdxW = 0

FlashInit ==
    /\ image \in {[sparse |-> TRUE, chunks |-> c, cells |-> Encoded(c)] : c \in Images}
            \cup {[sparse |-> FALSE, chunks |-> <<>>, cells |-> BulkImage(n)] : n \in BulkSizes}
    /\ read = 0
    /\ init_engine_context
    /\ first_run = TRUE
    /\ is_sparse \in BOOLEAN
    /\ dec \in Leftovers
    /\ bulk = [status |-> "EMMC_ERR", off |-> 1]
    /\ disk = Blank
    /\ reader = "wait"
    /\ writer = "wait"
    /\ ret = "none"
-----------------------------------------------------------------------------
\* read_usb_proc.

reader_block ==
    /\ reader \in {"wait", "last"}
    /\ MustBlock(cache_available[flipIdxW])
    /\ cache_available' = [cache_available EXCEPT ![flipIdxW] = event_wait_block(@)]
    /\ UNCHANGED <<decvars, image, read, content_available, thrR_end_ev, thrW_end_ev, shared,
                   first_run, is_sparse, reader, writer, ret>>

\* A mutant: the event stays signaled when the reader gets through.
reader_take_Manual ==
    /\ reader \in {"wait", "last"}
    /\ MayPass(cache_available[flipIdxW])
    /\ content' = [content EXCEPT ![flipIdxW] = <<>>]
    /\ reader' = IF reader = "wait" THEN "read" ELSE "signal"
    /\ UNCHANGED <<decvars, image, read, events, padding, flipIdxR, flipIdxW, status_usb,
                   status_storage, first_run, is_sparse, writer, ret>>

\* The buffer is free: it is filled, or made the empty last packet.
reader_take ==
    /\ reader \in {"wait", "last"}
    /\ MayPass(cache_available[flipIdxW])
    /\ cache_available' = [cache_available EXCEPT ![flipIdxW] = event_wait_pass(@)]
    /\ content' = [content EXCEPT ![flipIdxW] = <<>>]
    /\ reader' = IF reader = "wait" THEN "read" ELSE "signal"
    /\ UNCHANGED <<decvars, image, read, content_available, thrR_end_ev, thrW_end_ev, padding,
                   flipIdxR, flipIdxW, status_usb, status_storage, first_run, is_sparse,
                   writer, ret>>

\* usb_read delivers all it was asked for, or it is an error.
usb_read(ok) ==
    LET left == Len(image.cells) - read
        n    == IF left >= Page THEN Page ELSE left
    IN /\ reader = "read"
       /\ \/ /\ ok
             /\ content' = [content EXCEPT ![flipIdxW] = SubSeq(image.cells, read + 1, read + n)]
             /\ read' = read + n
             /\ reader' = IF FAIL(status_storage) THEN "stop1" ELSE "signal"
             /\ UNCHANGED status_usb
          \/ /\ ~ok
             /\ status_usb' = "USB_ERR"
             /\ reader' = "stop1"
             /\ UNCHANGED <<content, read>>
       /\ UNCHANGED <<decvars, image, events, padding, flipIdxR, flipIdxW, status_storage,
                      first_run, is_sparse, writer, ret>>

\* After the empty packet, sent once all has been read, comes stop_engine.
reader_signal ==
    /\ reader = "signal"
    /\ content_available' = [content_available EXCEPT ![flipIdxW] = event_signal(@)]
    /\ IF content[flipIdxW] = <<>>
       THEN reader' = "stop1" /\ UNCHANGED flipIdxW
       ELSE /\ reader' = IF read < Len(image.cells) THEN "wait" ELSE "last"
            /\ flipIdxW' = cache_shift(flipIdxW)
    /\ UNCHANGED <<decvars, image, read, cache_available, thrR_end_ev, thrW_end_ev, padding,
                   content, flipIdxR, status_usb, status_storage, first_run, is_sparse,
                   writer, ret>>

\* A mutant that tells only the caller.
stop_engine_provider_EndOnly ==
    /\ reader = "stop1"
    /\ thrW_end_ev' = event_signal(thrW_end_ev)
    /\ reader' = "join"
    /\ UNCHANGED <<decvars, image, read, content_available, cache_available, thrR_end_ev, shared,
                   first_run, is_sparse, writer, ret>>

\* stop_engine(EOP_DATA_PROVIDER), one signal after the other.
stop_engine_provider ==
    /\ \/ /\ reader = "stop1"
          /\ content_available' = [content_available EXCEPT ![0] = event_signal(@)]
          /\ reader' = "stop2"
          /\ UNCHANGED thrW_end_ev
       \/ /\ reader = "stop2"
          /\ content_available' = [content_available EXCEPT ![1] = event_signal(@)]
          /\ reader' = "stop3"
          /\ UNCHANGED thrW_end_ev
       \/ /\ reader = "stop3"
          /\ thrW_end_ev' = event_signal(thrW_end_ev)
          /\ reader' = "join"
          /\ UNCHANGED content_available
    /\ UNCHANGED <<decvars, image, read, cache_available, thrR_end_ev, shared,
                   first_run, is_sparse, writer, ret>>

\* The rest of download_data.  thrW_end_ev was signaled by this very thread.
download_data_block ==
    /\ reader = "join"
    /\ MustBlock(thrR_end_ev)
    /\ thrR_end_ev' = event_wait_block(thrR_end_ev)
    /\ UNCHANGED <<decvars, image, read, content_available, cache_available, thrW_end_ev, shared,
                   first_run, is_sparse, reader, writer, ret>>

download_data_end ==
    /\ reader = "join"
    /\ MayPass(thrR_end_ev)
    /\ MayPass(thrW_end_ev)
    /\ thrR_end_ev' = event_wait_pass(thrR_end_ev)
    /\ thrW_end_ev' = event_wait_pass(thrW_end_ev)
    /\ ret' = IF FAIL(status_storage) THEN status_storage ELSE status_usb
    /\ reader' = "done"
    /\ UNCHANGED <<decvars, image, read, content_available, cache_available, shared,
                   first_run, is_sparse, writer>>
-----------------------------------------------------------------------------
\* write_storage_proc.

writer_block ==
    /\ writer = "wait"
    /\ MustBlock(content_available[flipIdxR])
    /\ content_available' = [content_available EXCEPT ![flipIdxR] = event_wait_block(@)]
    /\ UNCHANGED <<decvars, image, read, cache_available, thrR_end_ev, thrW_end_ev, shared,
                   first_run, is_sparse, reader, writer, ret>>

writer_take ==
    /\ writer = "wait"
    /\ MayPass(content_available[flipIdxR])
    /\ content_available' = [content_available EXCEPT ![flipIdxR] = event_wait_pass(@)]
    /\ writer' = IF FAIL(status_usb) THEN "stop1" ELSE "write"
    /\ UNCHANGED <<decvars, image, read, cache_available, thrR_end_ev, thrW_end_ev, shared,
                   first_run, is_sparse, reader, ret>>

\* The packet with the rest of the one before in front of it.
Data == padding[flipIdxR] \o content[flipIdxR]

TotalLength(sparse) == IF sparse THEN Data[1][3] * SparseBlock ELSE Len(image.cells)

\* write_data up to write_sparse_data, or all of it for other images.  The result
\* is in status_storage once the writer is at "written".
write_data ==
    LET sparse == IF first_run THEN Data[1][1] = "file" ELSE is_sparse
        unsparse == IF first_run THEN init_unsparse_status(dec) ELSE dec
    IN /\ writer = "write"
       /\ is_sparse' = sparse
       /\ \/ /\ first_run /\ TotalLength(sparse) > MaxSize
             /\ status_storage' = "TOO_LARGE"
             /\ writer' = "written"
             /\ dec' = IF sparse THEN unsparse ELSE dec
             /\ bulk' = IF sparse THEN bulk ELSE [status |-> "OK", off |-> 0]
             /\ UNCHANGED <<disk, first_run>>
          \/ /\ ~(first_run /\ TotalLength(sparse) > MaxSize)
             /\ first_run' = FALSE
             /\ sparse
             /\ dec' = [unsparse EXCEPT !.buf = Data]
             /\ writer' = "decode"
             /\ UNCHANGED <<bulk, disk, status_storage>>
          \/ /\ ~(first_run /\ TotalLength(sparse) > MaxSize)
             /\ first_run' = FALSE
             /\ ~sparse
             /\ bulk' = IF first_run THEN [status |-> "OK", off |-> 0] ELSE bulk
             /\ writer' = IF Data = <<>> THEN "written" ELSE "bulk"
             /\ UNCHANGED <<dec, disk, status_storage>>
    /\ UNCHANGED <<image, read, events, padding, content, flipIdxR, flipIdxW, status_usb,
                   reader, ret>>

write_data_bulk ==
    /\ writer = "bulk"
    /\ write_bulk_data(Data)
    /\ status_storage' = bulk'.status
    /\ writer' = "written"
    /\ UNCHANGED <<image, read, events, padding, content, flipIdxR, flipIdxW, status_usb,
                   first_run, is_sparse, reader, ret>>

write_data_decode ==
    /\ writer = "decode"
    /\ write_sparse_data_internal
    /\ UNCHANGED <<image, read, events, shared, first_run, is_sparse, reader, writer, ret>>

\* A mutant that puts the rest before the packet it comes from.
RestGoesTo_Same == flipIdxR

\* The buffer whose padding takes the rest of a chunk.
RestGoesTo == cache_shift(flipIdxR)

\* write_data after write_sparse_data.
write_data_sparse_end ==
    /\ writer = "decode"
    /\ Decoded
    /\ LET rest == IF dec.status = "SPARSE_INCOMPLETE" THEN dec.buf ELSE <<>>
           now  == IF FAIL(dec.status) THEN dec.status ELSE "OK"
       IN /\ padding' = IF Data = <<>> \/ FAIL(dec.status) THEN padding
                        ELSE [padding EXCEPT ![RestGoesTo] = rest]
          /\ dec' = [dec EXCEPT !.status = now]
          /\ status_storage' = now
    /\ writer' = "written"
    /\ UNCHANGED <<bulk, disk, image, read, events, content, flipIdxR, flipIdxW, status_usb,
                   first_run, is_sparse, reader, ret>>

\* The end of the loop in write_storage_proc.
writer_next ==
    /\ writer = "written"
    /\ IF status_storage # "OK" \/ content[flipIdxR] = <<>>
       THEN writer' = "stop1" /\ UNCHANGED <<cache_available, flipIdxR>>
       ELSE /\ cache_available' = [cache_available EXCEPT ![flipIdxR] = event_signal(@)]
            /\ flipIdxR' = cache_shift(flipIdxR)
            /\ writer' = "wait"
    /\ UNCHANGED <<decvars, image, read, content_available, thrR_end_ev, thrW_end_ev, padding,
                   content, flipIdxW, status_usb, status_storage, first_run, is_sparse,
                   reader, ret>>

\* A mutant that reports the end first.
stop_engine_consumer_EndFirst ==
    /\ writer \in {"stop1", "stop2"}
    /\ IF writer = "stop1"
       THEN /\ thrR_end_ev' = event_signal(thrR_end_ev)
            /\ writer' = "stop2"
            /\ UNCHANGED cache_available
       ELSE /\ cache_available' = [i \in Caches |-> event_signal(cache_available[i])]
            /\ writer' = "exit"
            /\ UNCHANGED thrR_end_ev
    /\ UNCHANGED <<decvars, image, read, content_available, thrW_end_ev, shared,
                   first_run, is_sparse, reader, ret>>

\* stop_engine(EOP_DATA_CONSUMER), then thread_exit.
stop_engine_consumer ==
    /\ \/ /\ writer = "stop1"
          /\ cache_available' = [cache_available EXCEPT ![0] = event_signal(@)]
          /\ writer' = "stop2"
          /\ UNCHANGED thrR_end_ev
       \/ /\ writer = "stop2"
          /\ cache_available' = [cache_available EXCEPT ![1] = event_signal(@)]
          /\ writer' = "stop3"
          /\ UNCHANGED thrR_end_ev
       \/ /\ writer = "stop3"
          /\ thrR_end_ev' = event_signal(thrR_end_ev)
          /\ writer' = "exit"
          /\ UNCHANGED cache_available
    /\ UNCHANGED <<decvars, image, read, content_available, thrW_end_ev, shared,
                   first_run, is_sparse, reader, ret>>
-----------------------------------------------------------------------------
Reader ==
    \/ reader_block \/ reader_take
    \/ \E ok \in BOOLEAN : usb_read(ok)
    \/ reader_signal \/ stop_engine_provider
    \/ download_data_block \/ download_data_end

Writer ==
    \/ writer_block \/ writer_take
    \/ write_data \/ write_data_decode \/ write_data_sparse_end \/ write_data_bulk
    \/ writer_next \/ stop_engine_consumer

\* download_data has returned and its thread has gone.
Ended == reader = "done" /\ writer = "exit"

FlashNext == Reader \/ Writer \/ (Ended /\ UNCHANGED flash_vars)

(***************************************************************************)
(* A thread that is not asleep runs sometime.  usb_read returns: the host  *)
(* sends what it announced or the cable is pulled, which is an error.      *)
(***************************************************************************)
FlashSpec == FlashInit /\ [][FlashNext]_flash_vars /\ WF_flash_vars(Reader) /\ WF_flash_vars(Writer)
-----------------------------------------------------------------------------
\* A buffer is never filled from usb while it is being written to storage, also
\* when one side gives up and wakes the other with signals that mean no buffer.
BuffersNotShared ==
    ~ /\ reader \in {"read", "signal"}
      /\ writer \in {"write", "decode", "bulk", "written"}
      /\ flipIdxR = flipIdxW

\* download_data returns, and so destroys the events and the context on its stack,
\* only when the writer no longer uses them.
ContextOutlivesWriter == reader = "done" => writer = "exit"

OnDisk(cells) == [o \in 1..MaxSize |-> IF o <= Len(cells) THEN cells[o] ELSE NoCell]

ChunkTypes == {image.chunks[i].type : i \in DOMAIN image.chunks}

\* What download_data reports is true, wherever the packets cut the image and
\* whatever failed: success means the partition holds exactly what the image
\* stands for, which is also what cmd_flash_bio_sparse_img makes of it in one
\* piece; and the image is blamed only if it is to blame.
ResultTruthful ==
    ret # "none" =>
        /\ ret = "OK" =>
              /\ disk = OnDisk(IF image.sparse THEN Expansion(image.chunks) ELSE image.cells)
              /\ image.sparse /\ "CRC" \notin ChunkTypes =>
                    LET one == cmd_flash_bio_sparse_img(image.cells, MaxSize)
                    IN one.okay /\ disk = OnDisk(one.written)
        /\ ret = "UNKNOWN_SPARSE_CHUNK_TYPE" => "BAD" \in ChunkTypes
        /\ ret = "TOO_LARGE" => (IF image.sparse THEN TotalBlocks(image.chunks) * SparseBlock
                                                 ELSE Len(image.cells)) > MaxSize

\* Both threads come to their end, whichever of them fails and wherever the other
\* is at that moment.
Ends == <>Ended
=============================================================================
