------------------------------ MODULE MallocInv ------------------------------
(***************************************************************************)
(* The inductive invariant of MallocDriver.  It speaks of the heap by two  *)
(* sets that are not in it: S, a function from the addresses of the blocks *)
(* to their sizes, and F, the free blocks that are on a list.              *)
(***************************************************************************)
EXTENDS MallocDriver

Classes == 0..(LISTSIZE - 1)
Prologue == 2 * WSIZE
LOW == (LISTSIZE + 4) * WSIZE  \* the first block after the prologue

\* The blocks tile the heap from the prologue to its end.
Tiles(S, end) ==
    /\ end \in Nat /\ end % 8 = 0 /\ end <= MAX_HEAP
    /\ Prologue \in DOMAIN S /\ S[Prologue] = (LISTSIZE + 2) * WSIZE
    /\ \A p \in DOMAIN S :
         /\ p \in Nat /\ p >= Prologue /\ p % 8 = 0
         /\ S[p] \in Nat /\ S[p] >= 16 /\ S[p] % 8 = 0 /\ p + S[p] <= end
         /\ p + S[p] = end \/ p + S[p] \in DOMAIN S
         /\ p = Prologue \/ \E q \in DOMAIN S : q + S[q] = p
    /\ \E q \in DOMAIN S : q + S[q] = end
    /\ \A p, q \in DOMAIN S : p < q => p + S[p] <= q

\* Both tags of a block say its size, and whether it is on a list.
Shape(m, S, F, X, end) ==
    /\ m[end - WSIZE] = 1
    /\ \A p \in DOMAIN S \ X :
         m[p - WSIZE] = S[p] + (IF p \in F THEN 0 ELSE 1) /\ m[p + S[p] - DSIZE] = m[p - WSIZE]

\* The lists of the blocks F, with the class cl[p] and the place rank[p] of each.
\* What a root has as its predecessor is nothing to rely on.
Chains(root, next, prev, cl, F, rank) ==
    /\ \A c \in Classes : root[c] = NULL \/ (root[c] \in F /\ cl[root[c]] = c)
    /\ \A p \in F : \/ next[p] = NULL
                    \/ /\ next[p] \in F /\ cl[next[p]] = cl[p] /\ prev[next[p]] = p
                       /\ rank[p] < rank[next[p]] /\ next[p] # root[cl[p]]
    /\ \A p \in F : \/ p = root[cl[p]]
                    \/ /\ prev[p] \in F /\ cl[prev[p]] = cl[p] /\ next[prev[p]] = p
                       /\ rank[prev[p]] < rank[p]

RootsIn(m)   == [c \in Classes |-> m[ROOT(c)]]
NextIn(m, F) == [p \in F |-> m[NEXTSEG(p)]]
PrevIn(m, F) == [p \in F |-> m[PREVSEG(p)]]
ClassOf(S)   == [p \in DOMAIN S |-> calclass(S[p])]

Listed(m, S, F) ==
    \E rank \in [F -> Nat] : Chains(RootsIn(m), NextIn(m, F), PrevIn(m, F), ClassOf(S), F, rank)

\* The heap within an operation: the tags of the blocks X are still to be written,
\* and no two blocks in a row are on lists.
HeapState(m, end, S, F, X) ==
    /\ m \in [Words -> Int]
    /\ Tiles(S, end) /\ Shape(m, S, F, X, end) /\ Listed(m, S, F)
    /\ F \subseteq DOMAIN S \ {Prologue} /\ X \subseteq DOMAIN S \ (F \cup {Prologue})
    /\ \A p \in F : p + S[p] \notin F

\* The blocks in use, and what an operation leaves of them.
Used(S, F, X) == DOMAIN S \ (F \cup X \cup {Prologue})

Spared(m, S, m2, S2, U) ==
    \A p \in U : /\ p \in DOMAIN S2 /\ S2[p] = S[p]
                 /\ \A w \in Words : p <= w /\ w < p + S[p] - DSIZE => m2[w] = m[w]

-----------------------------------------------------------------------------
\* The blocks in use are those of the trace, each with room for what it holds.
HeapInv == \E S, F :
    /\ HeapState(heap.mem, heap.brk, S, F, {})
    /\ Used(S, F, {}) = {blocks[id] : id \in live}
    /\ \A id \in live : block_sizes[id] + DSIZE <= S[blocks[id]]

TraceType ==
    /\ heap \in [mem : [Words -> Int], brk : Nat]
    /\ blocks \in [Ids -> Nat] /\ block_sizes \in [Ids -> Nat]
    /\ live \subseteq seen /\ seen \subseteq Ids
    /\ total \in [now : Nat, max : Nat]

IdsInv ==
    /\ seen = 1..Cardinality(seen)
    /\ \A id \in Ids \ seen : block_sizes[id] = 0
    /\ \A id, other \in live : blocks[id] = blocks[other] => id = other

RangesInv ==
    /\ ranges = {[lo |-> blocks[id], hi |-> blocks[id] + block_sizes[id] - 1] : id \in live}
    /\ total.now = Cardinality(InUse) /\ total.max <= heap.brk

DataInv == \A id \in live : block_sizes[id] > 0 /\ Holds(heap.mem, blocks[id], id, block_sizes[id])

Excused == {"none", "mm_malloc failed"}
ErrorInv == error \in Excused \/ broken

TraceInv == TraceType /\ HeapInv /\ IdsInv /\ RangesInv /\ DataInv /\ ErrorInv

=============================================================================
