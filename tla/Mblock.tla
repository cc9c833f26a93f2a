------------------------------- MODULE Mblock -------------------------------
(***************************************************************************)
(* The boot memory allocator, lib/mblock/mblock.c.  It keeps the free      *)
(* blocks of the machine in `mblock', sorted by address, and the reserved  *)
(* records in the array `reserved', in no order, of which the first        *)
(* reserved_num are live.  Every call runs under mblock_lock, so it is one *)
(* step; a call that fails panics and the machine stops.  Addresses and    *)
(* sizes are counted in pages; names follow the mapping and are left out.  *)
(***************************************************************************)
EXTENDS Integers, SequencesExt, FiniteSetsExt

CONSTANTS
    Base, Top,      \* the machine's memory is the pages Base..Top-1
    FourG,          \* the page at 4G
    Maps,           \* what the preloader may hand over: free blocks, records
    MaxReserved,    \* MBLOCK_RESERVED_NUM_MAX, the records the table has room for
    Mappings,       \* MBLOCK_NO_MAP, MBLOCK_MAP, MBLOCK_REUSABLE
    Free,
    Requests,       \* what mblock_alloc and mblock_alloc_range are asked for
    MaxPages,       \* bound: pages in a request
    NewSizes        \* the sizes mblock_resize shrinks to

Dram == Base..(Top - 1)
NoRecord == [start |-> 0, size |-> 0, mapping |-> Free]
Blocks == [start : Nat, size : Nat]
Entries == [start : Nat, size : Nat, mapping : Mappings \cup {Free}]
End(b) == b.start + b.size
PagesOf(b) == b.start..(End(b) - 1)
Sum(s) ==
    LET total[k \in 0..Len(s)] == IF k = 0 THEN 0 ELSE total[k - 1] + s[k].size
    IN  total[Len(s)]

\* The memory does not start at 0 and no request is larger than its start
\* (1G), so end - reserved_size never goes below 0.
ASSUME MapAssumption ==
    /\ Base \in Nat /\ Top \in Nat /\ FourG \in Nat /\ MaxPages \in Nat /\ MaxReserved \in Nat
    /\ 0 < MaxPages /\ MaxPages <= Base /\ Base < Top
    /\ \A r \in Requests : /\ r.size \in 1..MaxPages
                           /\ r.align \in Nat \ {0}
                           /\ r.lower \in Nat /\ r.limit \in Nat
                           /\ r.expected \in Nat
    /\ NewSizes \subseteq Nat

\* The preloader hands over a partition of the memory: blocks sorted by address and
\* records, none of them empty.
ASSUME PreloaderAssumption ==
    \A m \in Maps :
        /\ m.mblock \in Seq(Blocks) /\ m.mblock # << >>
        /\ m.reserved \in Seq(Entries) /\ Len(m.reserved) <= MaxReserved
        /\ \A k \in DOMAIN m.mblock : m.mblock[k].size > 0
        /\ \A k \in DOMAIN m.reserved : m.reserved[k].size > 0
        /\ \A j, k \in DOMAIN m.mblock : j < k => End(m.mblock[j]) <= m.mblock[k].start
        /\ \A j, k \in DOMAIN m.reserved :
              j # k => PagesOf(m.reserved[j]) \cap PagesOf(m.reserved[k]) = {}
        /\ \A j \in DOMAIN m.mblock, k \in DOMAIN m.reserved :
              PagesOf(m.mblock[j]) \cap PagesOf(m.reserved[k]) = {}
        /\ (UNION {PagesOf(m.mblock[k]) : k \in DOMAIN m.mblock})
              \cup (UNION {PagesOf(m.reserved[k]) : k \in DOMAIN m.reserved}) = Dram

VARIABLES
    info,           \* internal_mblock_info: mblock, reserved, reserved_num
    init_done,      \* mblock_init_done
    panicked        \* a call has ended in panic or in a failed ASSERT

mblock_vars == <<info, init_done, panicked>>

Live(i) == SubSeq(i.reserved, 1, i.reserved_num)
Records(i) == Range(Live(i))
-----------------------------------------------------------------------------
(* The free blocks.                                                        *)

\* A block joins the one before it, and an empty one that cannot join goes.
Join(done, b) ==
    IF done = << >> THEN <<b>>
    ELSE IF b.start = End(Last(done)) THEN [done EXCEPT ![Len(done)].size = @ + b.size]
    ELSE IF b.size = 0 THEN done
    ELSE Append(done, b)

\* The loop starts again after each change, which comes to one pass.
mblock_merge(blocks) ==
    LET done[k \in 0..Len(blocks)] ==
            IF k = 0 THEN << >> ELSE Join(done[k - 1], blocks[k])
    IN  done[Len(blocks)]

\* The highest idx for which addr >> idx is not 0, that is 2^idx <= page (which
\* implies the first conjunct).
find_first_set_bit(page) ==
    LET set == {idx \in 0..63 : idx <= page /\ 2^idx <= page}
    IN  IF set = {} THEN 0 ELSE Max(set)

\* Above 4G a reservation stays between two powers of two.
mblock_cross_bound(start, size) ==
    /\ size > 0
    /\ start + size > FourG
    /\ find_first_set_bit(start) < find_first_set_bit(start + size - 1)

\* The new block goes before the first one that starts above it.
Insert(blocks, b) ==
    LET above == {k \in DOMAIN blocks : b.start < blocks[k].start}
    IN  InsertAt(blocks, IF above = {} THEN Len(blocks) + 1 ELSE Min(above), b)

\* A mutant that lengthens the block and leaves its start alone.
Grow_KeepStart(blocks, k, b) == [blocks EXCEPT ![k].size = @ + b.size]

\* Block k takes its neighbour b in.
Grow(blocks, k, b) ==
    [blocks EXCEPT ![k] = [start |-> IF End(b) = @.start THEN b.start ELSE @.start,
                           size  |-> @.size + b.size]]
-----------------------------------------------------------------------------
(* Allocation.                                                             *)

Ceiling(b, r) == Min({r.limit, End(b)})

\* Where a request would go in block b.
Place(b, r) ==
    IF r.expected # 0 THEN r.expected
    ELSE ((Ceiling(b, r) - r.size) \div r.align) * r.align

Suits(b, r) ==
    LET end == Ceiling(b, r)  a == Place(b, r)
    IN  /\ r.expected # 0 => r.expected \in PagesOf(b)
        /\ r.size <= b.size /\ b.start < r.limit /\ b.start < end
        /\ r.lower <= end
        /\ b.start <= r.lower => r.lower + r.size <= end
        /\ ~mblock_cross_bound(a, r.size)
        /\ b.start <= a /\ a + r.size <= End(b)
        /\ r.lower <= a /\ a + r.size <= r.limit

\* A mutant that keeps only what is left below the reservation.
Split_NoRest(blocks, t, a, size) ==
    [blocks EXCEPT ![t] = [start |-> IF a = @.start THEN a + size ELSE @.start,
                           size |-> IF a = @.start THEN @.size - size ELSE a - @.start]]

\* The block that is left below the reservation, and the one above it.
Split(blocks, t, a, size) ==
    LET b == blocks[t]
        rest == [start |-> a + size, size |-> End(b) - (a + size)]
    IN  IF a = b.start THEN [blocks EXCEPT ![t] = rest]
        ELSE InsertAt([blocks EXCEPT ![t].size = a - b.start], t + 1, rest)

\* The last block that suits is taken.  The slot after the last record has to
\* be empty, or the call fails.  (The test for full arrays has no effect:
\* the conditional operator takes the whole disjunction as its condition.)
mblock_alloc_range_no_lock(i, r, mapping) ==
    LET blocks == mblock_merge(i.mblock)
        suit == {k \in DOMAIN blocks : Suits(blocks[k], r)}
        n == i.reserved_num + 1
    IN  IF suit = {} \/ i.reserved[n].start # 0
        THEN [info |-> [i EXCEPT !.mblock = blocks], ret |-> 0]
        ELSE LET t == Max(suit)
                 a == Place(blocks[t], r)
             IN  [info |-> [mblock |-> Split(blocks, t, a, r.size),
                            reserved |-> [i.reserved EXCEPT ![n] =
                                [start |-> a, size |-> r.size, mapping |-> mapping]],
                            reserved_num |-> n],
                  ret |-> a]
-----------------------------------------------------------------------------
(* Freeing.  A call answers with the new tables and whether it succeeded.  *)

OK(i) == [info |-> i, ok |-> TRUE]
Fail(i) == [info |-> i, ok |-> FALSE]

Overlaps(i, a, size) ==
    \E b \in Range(i.mblock) : \/ a \in PagesOf(b)
                               \/ a < b.start /\ b.start < a + size

\* A mutant that shifts the records and does not clean the last one.
DropRecord_NoClean(i, t, last) ==
    [i EXCEPT
        !.reserved = [k \in DOMAIN @ |-> IF k \in t..(i.reserved_num - 1) THEN @[k + 1]
                                         ELSE @[k]],
        !.reserved_num = @ - 1]

\* memmove of the records after t; slot `last' is what the old last one becomes.
DropRecord(i, t, last) ==
    [i EXCEPT
        !.reserved = [k \in DOMAIN @ |-> IF k \in t..(i.reserved_num - 1) THEN @[k + 1]
                                         ELSE IF k = i.reserved_num THEN last
                                         ELSE @[k]],
        !.reserved_num = @ - 1]

\* A mutant that makes no room for the upper half.
CutRecord_NoShift(i, t, a, size) ==
    LET rec == i.reserved[t]
        above == [rec EXCEPT !.start = a + size, !.size = End(rec) - (a + size)]
        below == [rec EXCEPT !.size = a - rec.start]
    IN  IF a = rec.start /\ size = rec.size THEN DropRecord(i, t, NoRecord)
        ELSE IF a = rec.start THEN [i EXCEPT !.reserved[t] = above]
        ELSE IF a + size = End(rec) THEN [i EXCEPT !.reserved[t] = below]
        ELSE [i EXCEPT !.reserved[t] = below, !.reserved[t + 1] = above,
                       !.reserved_num = @ + 1]

\* Takes [a, a + size) out of record t: all of it, an end of it, or its middle
\* if the table has room for one more.
CutRecord(i, t, a, size) ==
    LET rec == i.reserved[t]
        above == [rec EXCEPT !.start = a + size, !.size = End(rec) - (a + size)]
        below == [rec EXCEPT !.size = a - rec.start]
    IN  IF a = rec.start /\ size = rec.size THEN DropRecord(i, t, NoRecord)
        ELSE IF a = rec.start THEN [i EXCEPT !.reserved[t] = above]
        ELSE IF a + size = End(rec) THEN [i EXCEPT !.reserved[t] = below]
        ELSE [i EXCEPT
                !.reserved = [k \in DOMAIN @ |-> IF k = t THEN below
                                                 ELSE IF k = t + 1 THEN above
                                                 ELSE IF k \in (t + 2)..(i.reserved_num + 1)
                                                      THEN @[k - 1]
                                                 ELSE @[k]],
                !.reserved_num = @ + 1]

\* The pages go to the larger neighbour, or to the only one, or become a block.
PutBack(blocks, b) ==
    LET right == {k \in DOMAIN blocks : End(b) = blocks[k].start}
        left == {k \in DOMAIN blocks \ right : End(blocks[k]) = b.start}
    IN  IF right = {} /\ left = {} THEN Insert(blocks, b)
        ELSE IF \/ left = {}
                \/ right # {} /\ blocks[Max(right)].size >= blocks[Max(left)].size
             THEN Grow(blocks, Max(right), b)
             ELSE Grow(blocks, Max(left), b)

\* A run in the middle leaves two records.
Divides(rec, a, size) == rec.start # a /\ a + size # End(rec)

mblock_free_with_size(i, a, size) ==
    LET holds == {k \in 1..i.reserved_num :
                    i.reserved[k].start <= a /\ a + size <= End(i.reserved[k])}
    IN  IF \/ Overlaps(i, a, size)
           \/ holds = {}
           \/ Divides(i.reserved[Min(holds)], a, size) /\ i.reserved_num >= MaxReserved
        THEN Fail(i)
        ELSE LET cut == CutRecord(i, Min(holds), a, size)
                 freed == [start |-> a, size |-> size]
             IN  OK([cut EXCEPT !.mblock = mblock_merge(PutBack(@, freed))])

\* Frees the whole record that starts at a.
mblock_free(i, a) ==
    LET mine == {k \in 1..i.reserved_num : i.reserved[k].start = a}
    IN  IF mine = {} THEN Fail(i)
        ELSE mblock_free_with_size(i, a, i.reserved[Min(mine)].size)

\* Looks for a record that starts at a or above, whatever holds a.
mblock_free_partial(i, a, size) ==
    IF \E rec \in Records(i) : rec.start >= a /\ a < End(rec)
    THEN mblock_free_with_size(i, a, size)
    ELSE Fail(i)

mblock_change_map_type(i, a, size, mapping) ==
    LET freed == mblock_free_with_size(i, a, size)
        r == [size |-> size, align |-> 1, lower |-> 0, limit |-> 2 * Top, expected |-> a]
        again == mblock_alloc_range_no_lock(freed.info, r, mapping)
    IN  IF freed.ok /\ again.ret = a THEN OK(again.info) ELSE Fail(i)

\* Shrinks the record; one of size 0 goes, and the slot the last one leaves is
\* not cleared.  The pages go to the first neighbour found.
mblock_resize(i, a, oldsize, newsize) ==
    LET mine == {k \in 1..i.reserved_num :
                    i.reserved[k].start = a /\ i.reserved[k].size = oldsize}
        t == Min(mine)
        n == i.reserved_num
        kept == IF newsize > 0 THEN [i EXCEPT !.reserved[t].size = newsize]
                ELSE DropRecord(i, t, IF t = n THEN NoRecord ELSE i.reserved[n])
        freed == [start |-> a + newsize, size |-> oldsize - newsize]
        next == {k \in DOMAIN i.mblock : \/ End(i.mblock[k]) = freed.start
                                         \/ End(freed) = i.mblock[k].start}
    IN  IF oldsize <= newsize THEN OK(i)
        ELSE IF mine = {} \/ \E b \in Range(i.mblock) :
                                PagesOf(b) \cap a..(a + oldsize - 1) # {}
             THEN Fail(i)
        ELSE OK([kept EXCEPT !.mblock = IF next = {} THEN Insert(@, freed)
                                        ELSE Grow(@, Min(next), freed)])
-----------------------------------------------------------------------------
(* What the kernel is told.                                                *)

\* A mutant that takes the records to be sorted.
reg_Sorted(i) ==
    LET first == i.reserved[1]  last == i.reserved[Max({1, i.reserved_num})]
    IN  [start |-> Min({i.mblock[1].start} \cup ({first.start} \ {0})),
         end   |-> Max({End(Last(i.mblock)), End(last)})]

\* The lowest start and the highest end; the slot after the last record is
\* read too.
reg(i) ==
    LET recs == IF i.reserved_num = 0 THEN {}
                ELSE Records(i) \cup {i.reserved[i.reserved_num + 1]}
    IN  [start |-> Min({i.mblock[1].start} \cup {rec.start : rec \in Records(i)}),
         end   |-> Max({End(Last(i.mblock))} \cup {End(rec) : rec \in recs})]

mblock_get_memory_size(i) == Sum(i.mblock) + Sum(Live(i))

mblock_get_memory_start(i) ==
    Min({b.start : b \in Range(i.mblock)} \cup {rec.start : rec \in Records(i)})

mblock_sanity_check(i) ==
    ~\E b \in Range(i.mblock), rec \in Records(i) :
        b.size # 0 /\ PagesOf(b) \cap PagesOf(rec) # {}
-----------------------------------------------------------------------------
(* The calls.  Each asserts mblock_init_done.                              *)

\* A call that fails leaves the tables as they are: the machine is stopped.
\* Bound: no call is made that reserves more than the table has room for; the
\* code would write past it.
Call(result) ==
    /\ ~panicked /\ result.info.reserved_num <= MaxReserved
    /\ IF init_done /\ result.ok THEN info' = result.info /\ UNCHANGED panicked
                                 ELSE panicked' = TRUE /\ UNCHANGED info
    /\ UNCHANGED init_done

Alloc ==
    \E r \in Requests, mapping \in Mappings :
        LET got == mblock_alloc_range_no_lock(info, r, mapping)
        IN  Call([info |-> got.info, ok |-> got.ret # 0])

FreeRecord == \E a \in Dram : Call(mblock_free(info, a))

FreePartial ==
    \E a \in Dram, size \in 1..MaxPages : Call(mblock_free_partial(info, a, size))

ChangeMapType ==
    \E a \in Dram, size \in 1..MaxPages, mapping \in Mappings :
        Call(mblock_change_map_type(info, a, size, mapping))

Resize ==
    \E a \in Dram, oldsize \in 1..MaxPages, newsize \in NewSizes :
        Call(mblock_resize(info, a, oldsize, newsize))

\* mblock_fdt_append: no call is allowed after it.
FdtAppend ==
    /\ ~panicked /\ init_done
    /\ init_done' = FALSE
    /\ info' = [info EXCEPT !.mblock = mblock_merge(@)]
    /\ panicked' = ~mblock_sanity_check(info)

\* mblock_pl_boottag_hook: the preloader's tables, merged.  The slots after
\* MaxReserved are not the table's; no property looks at them.
MblockInit ==
    /\ \E m \in Maps :
        info = [mblock |-> mblock_merge(m.mblock),
                reserved |-> [k \in 1..(MaxReserved + 3) |->
                                IF k <= Len(m.reserved) THEN m.reserved[k] ELSE NoRecord],
                reserved_num |-> Len(m.reserved)]
    /\ init_done = TRUE
    /\ panicked = FALSE

MblockNext == Alloc \/ FreeRecord \/ FreePartial \/ ChangeMapType \/ Resize \/ FdtAppend

MblockSpec == MblockInit /\ [][MblockNext]_mblock_vars
-----------------------------------------------------------------------------
(* Properties.                                                             *)

\* How often a page appears in the tables.
Appearances(p) ==
    Cardinality({k \in DOMAIN info.mblock : p \in PagesOf(info.mblock[k])})
    + Cardinality({k \in 1..info.reserved_num : p \in PagesOf(info.reserved[k])})

\* However blocks have been split, joined, cut and shifted, every page of the
\* machine is in exactly one free block or one reserved record, and the free
\* blocks are in the order of their addresses.
Partition ==
    /\ \A p \in Dram : Appearances(p) = 1
    /\ \A k \in 2..Len(info.mblock) : info.mblock[k - 1].start <= info.mblock[k].start

HolderOf(i, p) ==
    LET recs == {rec \in Records(i) : p \in PagesOf(rec)}
    IN  IF recs = {} THEN Free ELSE (CHOOSE rec \in recs : TRUE).mapping

Abstract == INSTANCE PageMap WITH holder <- [p \in Dram |-> HolderOf(info, p)]

\* No call changes who holds a page outside the one run of pages it is about,
\* and that run had one holder before and has one after.
ImplementsPageMap == Abstract!Spec

\* Where a request could go in a free block: the places its size, alignment, bounds and
\* fixed address allow.
Places(b, r) ==
    {a \in Dram :
        /\ a..(a + r.size - 1) \subseteq PagesOf(b)
        /\ r.lower <= a /\ a + r.size <= r.limit
        /\ IF r.expected # 0 THEN a = r.expected ELSE a % r.align = 0}

FreeBlocks == Range(mblock_merge(info.mblock))

\* The code tries one place in each block, the highest, and passes the block over
\* when that place crosses a power of two above 4G.
Fits(r) ==
    UNION {Places(b, r) :
            b \in {f \in FreeBlocks : Places(f, r) # {}
                                    /\ ~mblock_cross_bound(Max(Places(f, r)), r.size)}}

Room == info.reserved_num < MaxReserved

\* An allocation takes the highest place there is in the blocks that it does not pass
\* over, and does not fail if they have one, whatever calls came before.
AllocHighest ==
    Room => \A r \in Requests : \A a \in Fits(r) :
                mblock_alloc_range_no_lock(info, r, Free).ret >= a

\* The records that are left of one when a run is cut out of it.
Remains(rec, a, size) ==
    (IF rec.start = a THEN 0 ELSE 1) + (IF a + size = End(rec) THEN 0 ELSE 1)

\* The tables are never left so that a holder is refused: it can free a record, shrink it,
\* re-map any part that crosses no bound, and give back any part if some record starts at
\* the part or above (which is what mblock_free_partial looks for), as long as the table
\* has room for the records that takes.
HolderIsServed ==
    ~panicked => \A rec \in Records(info) :
        /\ mblock_free(info, rec.start).ok
        /\ \A n \in NewSizes : mblock_resize(info, rec.start, rec.size, n).ok
        /\ \A a \in PagesOf(rec), size \in 1..MaxPages :
            a + size <= End(rec) =>
                /\ /\ ~mblock_cross_bound(a, size)
                   /\ info.reserved_num + Remains(rec, a, size) <= MaxReserved
                   => mblock_change_map_type(info, a, size, rec.mapping).ok
                /\ /\ \E other \in Records(info) : other.start >= a
                   /\ Divides(rec, a, size) => Room
                   => mblock_free_partial(info, a, size).ok

\* The kernel is told of all the memory there is and of nothing else, and the
\* check before the hand-over finds no overlap.
MemoryReported ==
    /\ Room => reg(info) = [start |-> Base, end |-> Top]
    /\ mblock_get_memory_size(info) = Top - Base
    /\ mblock_get_memory_start(info) = Base
    /\ mblock_sanity_check(info)
=============================================================================
