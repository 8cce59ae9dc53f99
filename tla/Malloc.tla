------------------------------- MODULE Malloc -------------------------------
(***************************************************************************)
(* The segregated-list allocator of CS230/malloclab/mm.c on the simulated  *)
(* heap of memlib.c.  The heap is an array of 4-byte words addressed as in *)
(* the code, relative to mem_start_brk: boundary tags, list roots and the  *)
(* links of free blocks are words of it, written by PUT and read by GET,   *)
(* and so is the data of the program (a negative number).  Operators take  *)
(* the heap [mem, brk] and return it; what a C function returns to its     *)
(* caller is the field ret.                                                *)
(***************************************************************************)
EXTENDS Walks, FiniteSets

CONSTANTS LISTSIZE,   \* roots of the free lists
          CHUNKSIZE,  \* bytes the heap grows by
          MAX_HEAP    \* bound of memlib.c, in bytes

WSIZE == 4
DSIZE == 8
NULL == 0

\* A block of 16 bytes has class 0, and the prologue is a multiple of 8.
ASSUME ListAssumption == LISTSIZE \in Nat /\ LISTSIZE >= 4 /\ LISTSIZE % 2 = 0
ASSUME HeapAssumption == /\ CHUNKSIZE \in Nat /\ CHUNKSIZE % DSIZE = 0
                         /\ CHUNKSIZE >= 2 * DSIZE
                         /\ MAX_HEAP \in Nat /\ MAX_HEAP % DSIZE = 0
                         /\ MAX_HEAP >= (LISTSIZE + 4) * WSIZE + CHUNKSIZE

\* No more blocks than this fit into the heap.
Longest == MAX_HEAP \div (2 * DSIZE)

Words == {WSIZE * i : i \in 0..(MAX_HEAP \div WSIZE - 1)}

PACK(size, alloc) == size + alloc
GETSIZE(m, p) == m[p] - (m[p] % 8)
GETALLOC(m, p) == m[p] % 2
HEADER(bp) == bp - WSIZE
FOOTER(m, bp) == bp + GETSIZE(m, HEADER(bp)) - DSIZE
NEXTBLOCK(m, bp) == bp + GETSIZE(m, HEADER(bp))
PREVBLOCK(m, bp) == bp - GETSIZE(m, bp - DSIZE)

\* The two tags of a block of this size.
Tag(m, bp, size, alloc) ==
    [m EXCEPT ![HEADER(bp)] = PACK(size, alloc), ![bp + size - DSIZE] = PACK(size, alloc)]

PREVSEG(bp) == bp
NEXTSEG(bp) == bp + WSIZE
ROOT(class) == 2 * WSIZE + WSIZE * class

Least(S) == CHOOSE i \in S : \A j \in S : i <= j

\* The class of a size: the number of rounds that halve tmp down to 1, at most
\* LISTSIZE, less 4.
calclass(size) ==
    LET tmp == Walk([t \in Nat |-> t \div 2], size)
    IN  Cardinality({log \in 0..(LISTSIZE - 1) : tmp[log] > 1}) - 4

\* The blocks of a class one after the other, and then NULL.
FreeList(m, class) ==
    Walk([p \in Words |-> IF p = NULL THEN NULL ELSE m[NEXTSEG(p)]], m[ROOT(class)])

\* A bug: the block that was second keeps the root as its predecessor.
FaultyKeepPrev(m, bp) ==
    LET root == ROOT(calclass(GETSIZE(m, HEADER(bp))))
    IN  IF m[root] = NULL
        THEN [m EXCEPT ![root] = bp, ![NEXTSEG(bp)] = NULL, ![PREVSEG(bp)] = NULL]
        ELSE [m EXCEPT ![NEXTSEG(bp)] = m[NEXTSEG(m[root])],
                       ![PREVSEG(bp)] = m[root], ![NEXTSEG(m[root])] = bp]

\* A block becomes the root of its list, or the second after the root.
insert(m, bp) ==
    LET root == ROOT(calclass(GETSIZE(m, HEADER(bp))))
        first == m[root]
        linked == [m EXCEPT ![NEXTSEG(bp)] = m[NEXTSEG(first)],
                            ![PREVSEG(bp)] = first, ![NEXTSEG(first)] = bp]
        second == linked[NEXTSEG(bp)]
    IN  IF first = NULL
        THEN [m EXCEPT ![root] = bp, ![NEXTSEG(bp)] = NULL, ![PREVSEG(bp)] = NULL]
        ELSE IF second # NULL THEN [linked EXCEPT ![PREVSEG(second)] = bp] ELSE linked

delete(m, bp) ==
    LET root == ROOT(calclass(GETSIZE(m, HEADER(bp))))
        next == m[NEXTSEG(bp)]
        unlinked == [m EXCEPT ![NEXTSEG(m[PREVSEG(bp)])] = next]
    IN  IF m[root] = bp THEN [m EXCEPT ![root] = next]
        ELSE IF next # NULL THEN [unlinked EXCEPT ![PREVSEG(next)] = m[PREVSEG(bp)]]
        ELSE unlinked

\* A bug: the next block is taken whatever its tag says, up to the last.
FaultyJoinNext(h, bp) ==
    LET m == h.mem
        next == NEXTBLOCK(m, bp)
        size == GETSIZE(m, HEADER(bp)) + GETSIZE(m, HEADER(next))
        joined == Tag(IF GETSIZE(m, HEADER(next)) > 0 THEN delete(m, next) ELSE m, bp, size, 0)
    IN  [mem |-> insert(joined, bp), brk |-> h.brk, ret |-> bp]

\* Joins a block just freed with its free neighbours, and lists the result.
coalesce(h, bp) ==
    LET m == h.mem
        prev == PREVBLOCK(m, bp)
        next == NEXTBLOCK(m, bp)
        prevfree == GETALLOC(m, FOOTER(m, prev)) = 0
        nextfree == GETALLOC(m, HEADER(next)) = 0
        unlistprev == IF prevfree THEN delete(m, prev) ELSE m
        start == IF prevfree THEN prev ELSE bp
        size == GETSIZE(m, HEADER(bp))
                + (IF prevfree THEN GETSIZE(m, HEADER(prev)) ELSE 0)
                + (IF nextfree THEN GETSIZE(m, HEADER(next)) ELSE 0)
        joined == Tag(IF nextfree THEN delete(unlistprev, next) ELSE unlistprev, start, size, 0)
    IN  [mem |-> insert(joined, start), brk |-> h.brk, ret |-> start]

\* mem_sbrk() and the block that the new bytes make, whose header takes the
\* place of the old end of the heap.
extend(h, words) ==
    LET size == (IF words % 2 = 1 THEN words + 1 ELSE words) * WSIZE
        bp == h.brk
        tagged == [Tag(h.mem, bp, size, 0) EXCEPT ![bp + size - WSIZE] = PACK(0, 1)]
    IN  IF h.brk + size > MAX_HEAP THEN [mem |-> h.mem, brk |-> h.brk, ret |-> NULL]
        ELSE coalesce([mem |-> tagged, brk |-> h.brk + size], bp)

\* A bug: only the roots of the lists are looked at.
FaultyRootFit(m, size) ==
    LET found == {i \in calclass(size)..(LISTSIZE - 1) :
                     m[ROOT(i)] # NULL /\ size <= GETSIZE(m, HEADER(m[ROOT(i)]))}
    IN  IF found = {} THEN NULL ELSE m[ROOT(Least(found))]

\* The places of a list at which there is a block that is large enough.
Fitting(m, class, size) ==
    {n \in 0..Longest : \E p \in {FreeList(m, class)[n]} : p # NULL /\ size <= GETSIZE(m, HEADER(p))}

\* First fit, from the class of the size upward.
fit(m, size) ==
    LET found == {i \in calclass(size)..(LISTSIZE - 1) : Fitting(m, i, size) # {}}
    IN  IF found = {} THEN NULL
        ELSE FreeList(m, Least(found))[Least(Fitting(m, Least(found), size))]

\* Takes a block, giving back what is left of it when that can be a block.
place(m, bp, size) ==
    LET csize == GETSIZE(m, HEADER(bp))
        m1 == delete(m, bp)
    IN  IF csize - size >= 4 * WSIZE
        THEN insert(Tag(Tag(m1, bp, size, 1), bp + size, csize - size, 0), bp + size)
        ELSE Tag(m1, bp, csize, 1)

\* The block a request needs: two tags, and a multiple of 8.
Adjusted(size) == IF size <= DSIZE THEN 2 * DSIZE
                  ELSE DSIZE * ((size + DSIZE + DSIZE - 1) \div DSIZE)

mm_init ==
    LET prologue == PACK((LISTSIZE + 2) * WSIZE, 1)
        m == [w \in Words |->
                 IF w \in {WSIZE, (LISTSIZE + 2) * WSIZE} THEN prologue
                 ELSE IF w = (LISTSIZE + 3) * WSIZE THEN PACK(0, 1) ELSE 0]
    IN  extend([mem |-> m, brk |-> (LISTSIZE + 4) * WSIZE], CHUNKSIZE \div WSIZE)

\* The block just made by extend(), if it was, serves the request.
PlaceNew(e, asize) ==
    IF e.ret = NULL THEN e ELSE [e EXCEPT !.mem = place(e.mem, e.ret, asize)]

mm_malloc(h, size) ==
    LET asize == Adjusted(size)
        bp == fit(h.mem, asize)
    IN  IF size = 0 THEN [mem |-> h.mem, brk |-> h.brk, ret |-> NULL]
        ELSE IF bp # NULL THEN [mem |-> place(h.mem, bp, asize), brk |-> h.brk, ret |-> bp]
        ELSE PlaceNew(extend(h, (IF asize > CHUNKSIZE THEN asize ELSE CHUNKSIZE) \div WSIZE),
                      asize)

mm_free(h, bp) ==
    coalesce([h EXCEPT !.mem = Tag(h.mem, bp, GETSIZE(h.mem, HEADER(bp)), 0)], bp)

\* memcpy(new, ptr, n) of the words of a block.
Copied(m, new, ptr, n) ==
    [w \in Words |-> IF w \in new..(new + n - 1) THEN m[ptr + (w - new)] ELSE m[w]]

\* The three cases mm_realloc() does not survive or does not serve: a copy to
\* NULL, a next block that is free but too small (ptr is returned as it was),
\* and a rest of the next block that is no block, since its size is 0 or 8 and
\* its class -4 or -1, a root outside the lists.
ReallocBreaks(h, ptr, size) ==
    LET csize == GETSIZE(h.mem, HEADER(ptr))
        next == NEXTBLOCK(h.mem, ptr)
    IN  /\ size > 0 /\ Adjusted(size) > csize
        /\ IF GETALLOC(h.mem, HEADER(next)) = 0
           THEN csize + GETSIZE(h.mem, HEADER(next)) < Adjusted(size) + 2 * DSIZE
           ELSE mm_malloc(h, Adjusted(size)).ret = NULL

\* The old block copied to the new one and freed.
Move(new, ptr, csize) ==
    [mm_free([new EXCEPT !.mem = Copied(@, new.ret, ptr, csize)], ptr) EXCEPT !.ret = new.ret]

mm_realloc(h, ptr, size) ==
    LET m == h.mem
        asize == Adjusted(size)
        csize == GETSIZE(m, HEADER(ptr))
        next == NEXTBLOCK(m, ptr)
        rest == csize + GETSIZE(m, HEADER(next)) - asize
        same == [mem |-> m, brk |-> h.brk, ret |-> ptr]
    IN  IF size = 0 THEN [same EXCEPT !.ret = NULL]
        ELSE IF asize <= csize THEN same
        ELSE IF GETALLOC(m, HEADER(next)) = 0
        THEN [same EXCEPT !.mem =
                 insert(Tag(Tag(delete(m, next), ptr, asize, 1), ptr + asize, rest, 0),
                        ptr + asize)]
        ELSE Move(mm_malloc(h, asize), ptr, csize)

=============================================================================
