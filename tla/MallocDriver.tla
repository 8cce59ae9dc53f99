---------------------------- MODULE MallocDriver ----------------------------
(***************************************************************************)
(* CS230/malloclab/mdriver.c: eval_mm_valid() runs a trace of requests     *)
(* against the allocator and judges every block it hands out by a list of  *)
(* the payloads in use; eval_mm_util() follows their total size.  A        *)
(* behaviour is a trace, of any balanced requests, cut at MaxOps.          *)
(***************************************************************************)
EXTENDS Malloc

CONSTANTS NumIds,  \* bound: blocks of a trace
          MaxOps,  \* bound: requests of a trace
          Sizes    \* sizes a request may have

ASSUME SizesAssumption == NumIds \in Nat /\ Sizes \subseteq Nat \ {0}

Ids == 1..NumIds

VARIABLES heap,         \* mem and brk
          blocks,       \* trace->blocks
          block_sizes,  \* trace->block_sizes
          ranges,       \* the range list, as a set of [lo, hi]
          live,         \* blocks allocated and not yet freed by the trace
          seen,         \* blocks the trace has allocated
          total,        \* total_size and max_total_size of eval_mm_util()
          opnum,        \* requests done
          error,        \* why eval_mm_valid() has returned 0
          broken        \* a realloc went wrong (ReallocBreaks)

tracing == <<heap, blocks, block_sizes, ranges, live, seen, total, opnum, error, broken>>

\* add_range() on [lo, hi]: what it finds wrong with the block.
RangeError(rs, brk, r) ==
    IF r.lo % 8 # 0 THEN "not aligned"
    ELSE IF r.lo < 0 \/ r.hi >= brk THEN "outside heap"
    ELSE IF \E q \in rs : r.lo \in q.lo..q.hi \/ r.hi \in q.lo..q.hi THEN "overlaps"
    ELSE "none"

remove_range(rs, lo) == {r \in rs : r.lo # lo}

\* memset(p, index, size), in whole words.
Filled(m, p, id, size) ==
    [w \in Words |-> IF w \in p..(p + size - 1) THEN -id ELSE m[w]]

\* The block still holds what its owner wrote, over size bytes.
Holds(m, p, id, size) == \A w \in Words : w \in p..(p + size - 1) => m[w] = -id

Smaller(a, b) == IF a < b THEN a ELSE b
Larger(a, b) == IF a < b THEN b ELSE a

TraceInit ==
    /\ heap = [mem |-> mm_init.mem, brk |-> mm_init.brk]
    /\ blocks = [id \in Ids |-> NULL]
    /\ block_sizes = [id \in Ids |-> 0]
    /\ ranges = {} /\ live = {} /\ seen = {}
    /\ total = [now |-> 0, max |-> 0]
    /\ opnum = 0 /\ error = "none" /\ broken = FALSE

\* The driver goes on with the next request.
Continues == error = "none" /\ ~broken /\ opnum < MaxOps

\* The driver accepts the block at p and fills it.
Accept(id, h, p, size, rs) ==
    /\ heap' = [mem |-> Filled(h.mem, p, id, size), brk |-> h.brk]
    /\ blocks' = [blocks EXCEPT ![id] = p]
    /\ block_sizes' = [block_sizes EXCEPT ![id] = size]
    /\ ranges' = rs \cup {[lo |-> p, hi |-> p + size - 1]}
    /\ LET now == total.now + size - block_sizes[id]
       IN  total' = [now |-> now, max |-> Larger(total.max, now)]
    /\ seen' = seen \cup {id} /\ live' = live \cup {id}
    /\ UNCHANGED error

Refuse(why) ==
    /\ error' = why
    /\ UNCHANGED <<heap, blocks, block_sizes, ranges, live, seen, total>>

\* A trace numbers its blocks in the order it allocates them.
Alloc(size) ==
    LET id == Cardinality(seen) + 1
    IN  /\ Continues /\ id \in Ids
        /\ opnum' = opnum + 1
        /\ UNCHANGED broken
        /\ \E h \in {mm_malloc(heap, size)} :
           \E why \in {RangeError(ranges, h.brk, [lo |-> h.ret, hi |-> h.ret + size - 1])} :
             IF h.ret = NULL THEN Refuse("mm_malloc failed")
             ELSE IF why # "none" THEN Refuse(why)
             ELSE Accept(id, h, h.ret, size, ranges)

Realloc(id, size) ==
    LET rs == remove_range(ranges, blocks[id])
    IN  /\ Continues /\ id \in live
        /\ opnum' = opnum + 1
        /\ ~ReallocBreaks(heap, blocks[id], size)
        /\ UNCHANGED broken
        /\ \E h \in {mm_realloc(heap, blocks[id], size)} :
           \E why \in {RangeError(rs, h.brk, [lo |-> h.ret, hi |-> h.ret + size - 1])} :
             IF h.ret = NULL THEN Refuse("mm_realloc failed")
             ELSE IF why # "none" THEN Refuse(why)
             ELSE IF ~Holds(h.mem, h.ret, id, Smaller(size, block_sizes[id]))
             THEN Refuse("did not preserve the data")
             ELSE Accept(id, h, h.ret, size, rs)

\* What follows is undefined: the trace ends.
ReallocFails(id, size) ==
    /\ Continues /\ id \in live
    /\ ReallocBreaks(heap, blocks[id], size)
    /\ opnum' = opnum + 1
    /\ broken' = TRUE
    /\ Refuse("mm_realloc failed")

Free(id) ==
    /\ Continues /\ id \in live
    /\ ranges' = remove_range(ranges, blocks[id])
    /\ heap' = LET h == mm_free(heap, blocks[id]) IN [mem |-> h.mem, brk |-> h.brk]
    /\ live' = live \ {id}
    /\ total' = [total EXCEPT !.now = @ - block_sizes[id]]
    /\ opnum' = opnum + 1
    /\ UNCHANGED <<blocks, block_sizes, seen, error, broken>>

TraceNext ==
    \/ \E size \in Sizes : Alloc(size)
    \/ \E id \in Ids, size \in Sizes : Realloc(id, size) \/ ReallocFails(id, size)
    \/ \E id \in Ids : Free(id)

TraceSpec == TraceInit /\ [][TraceNext]_tracing

-----------------------------------------------------------------------------
\* The blocks of the heap, from the prologue on.
HeapBlocks(m) ==
    LET walk == Walk([p \in Words \cup {MAX_HEAP} |-> NEXTBLOCK(m, p)], 2 * WSIZE)
    IN  {p \in {walk[n] : n \in 0..Longest} : GETSIZE(m, HEADER(p)) > 0}

\* A trace is judged after each of its requests.
Judged == opnum > 0 /\ ~broken

\* The blocks tile the heap from the prologue to brk, with equal tags at both
\* ends and no two free blocks in a row; the free ones are exactly the
\* members of the lists of their classes, which end and are linked both ways; the
\* allocated ones are exactly those the trace has not freed.
HeapSound == Judged =>
    LET m == heap.mem
        bs == HeapBlocks(m)
        free == {p \in bs : GETALLOC(m, HEADER(p)) = 0}
    IN  /\ {NEXTBLOCK(m, p) : p \in bs} = (bs \ {2 * WSIZE}) \cup {heap.brk}
        /\ \A p \in bs : m[HEADER(p)] = m[FOOTER(m, p)] /\ p % 8 = 0
        /\ \A p \in free : NEXTBLOCK(m, p) \notin free
        /\ error = "none" => bs \ free = {2 * WSIZE} \cup {blocks[id] : id \in live}
        /\ \A c \in 0..(LISTSIZE - 1) :
             LET members == {FreeList(m, c)[n] : n \in 0..Longest}
             IN  /\ members = {NULL} \cup {p \in free : calclass(GETSIZE(m, HEADER(p))) = c}
                 /\ \A p \in members \ {NULL} :
                      m[NEXTSEG(p)] # NULL => m[PREVSEG(m[NEXTSEG(p)])] = p

\* The bytes of the payloads in use.
InUse == UNION {blocks[id]..(blocks[id] + block_sizes[id] - 1) : id \in live}

\* The allocator never writes to the payload of a block in use, whatever it
\* splits, joins, lists or copies around it: each still holds what its owner
\* wrote, and two owners never share a byte.
DataIntact == Judged /\ error = "none" =>
    /\ \A id \in live : Holds(heap.mem, blocks[id], id, block_sizes[id])
    /\ total.now = Cardinality(InUse)
    /\ total.max <= heap.brk

\* The driver's checks never fail.  It is refused a block, now or by the
\* next request of any size, only when no free block anywhere is large enough
\* and the heap cannot grow by what the request needs: the search by class
\* misses nothing, and a heap too fragmented for a request grows.
OnlyWhenFull == Judged =>
    /\ error \in {"none", "mm_malloc failed"}
    /\ \A size \in Sizes : mm_malloc(heap, size).ret = NULL =>
         /\ \A p \in HeapBlocks(heap.mem) :
              GETALLOC(heap.mem, HEADER(p)) = 0
                  => GETSIZE(heap.mem, HEADER(p)) < Adjusted(size)
         /\ heap.brk + Larger(Adjusted(size), CHUNKSIZE) > MAX_HEAP

=============================================================================
