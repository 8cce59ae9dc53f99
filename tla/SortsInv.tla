------------------------------ MODULE SortsInv ------------------------------
(***************************************************************************)
(* The inductive invariant of Sorts: which parts the calls to come are     *)
(* about, and how far the loops of sort() and merge() have got.            *)
(***************************************************************************)
EXTENDS Sorts

nmemb == Nmemb(base)

Functions == PivotTypes \cup {"msort", "msort_opt"}
Merges == {"merge", "merging"}
MergeCalls == {"mergesort"} \cup Merges
Tasks == [call : {"quick", "sort", "isort"} \cup MergeCalls, left : Nat, mid : Nat, right : Int]

SortsType ==
    /\ nmemb \in Nat \ {0} /\ base \in [0..(nmemb - 1) -> Products]
    /\ tasks \in Seq(Tasks)
    /\ loop \in [i : Nat, j : Nat, tmp : Seq(Products)]
    /\ function \in Functions

\* Each call belongs to the function that runs and has a part of the array; the
\* loops of sort() and merge() are those of the first one.
Fits(t, k) ==
    /\ t.left <= nmemb /\ t.right < nmemb
    /\ t.call \in {"quick", "sort"} <=> function \in PivotTypes
    /\ t.call \in Merges => t.left <= t.mid /\ t.mid < t.right
    /\ t.call = "sort" => t.left < t.right
    /\ t.call \in {"sort", "merging"} => k = 1
    /\ t.call = "isort" => k = 1 /\ Len(tasks) = 1 /\ t.left > 0 /\ t.right = nmemb - 1

TaskInv == \A k \in DOMAIN tasks : Fits(tasks[k], k)

\* A call is done with its part before a later one gets to it: it is left of
\* that one's, or within one of the two parts that are to be merged.
Before(s, t) ==
    \/ s.right < t.left
    \/ /\ t.call \in Merges /\ t.left <= s.left /\ s.right <= t.right
       /\ s.right <= t.mid \/ t.mid < s.left

OrderInv == \A j, k \in DOMAIN tasks : j < k => Before(tasks[j], tasks[k])

\* The merge and insertion sorts have not touched the part of a call to come,
\* and not moved anything between two parts that are to be merged.
Untouched(t, m) ==
    /\ t.call = "mergesort" /\ m \in t.left..t.right => base[m].id = m
    /\ t.call \in Merges /\ m \in t.left..t.mid => base[m].id <= t.mid
    /\ t.call \in Merges /\ m \in (t.mid + 1)..t.right => base[m].id > t.mid
    /\ t.call = "isort" => IF m < t.left THEN base[m].id < t.left ELSE base[m].id = m

UntouchedInv == \A k \in DOMAIN tasks : \A m \in DOMAIN base : Untouched(tasks[k], m)

\* What i and j have passed is on its side of the pivot.
SortLoop(t) ==
    /\ t.left <= loop.i /\ loop.i < loop.j /\ loop.j <= t.right + 1
    /\ \A m \in (t.left + 1)..loop.i : compareProducts(base[m], base[t.left]) <= 0
    /\ \A m \in loop.j..t.right : compareProducts(base[t.left], base[m]) <= 0

\* tmp has what i and j have passed, in order, and before all that is left.
Passed(t) == (t.left..(loop.i - 1)) \cup ((t.mid + 1)..(loop.j - 1))
Left(t)   == (loop.i..t.mid) \cup (loop.j..t.right)

MergeLoop(t) ==
    /\ loop.i \in t.left..(t.mid + 1) /\ loop.j \in (t.mid + 1)..(t.right + 1)
    /\ Len(loop.tmp) = (loop.i - t.left) + (loop.j - t.mid - 1)
    /\ \A p \in DOMAIN loop.tmp : \E m \in Passed(t) : loop.tmp[p] = base[m]
    /\ \A m \in Passed(t) : \E p \in DOMAIN loop.tmp : loop.tmp[p] = base[m]
    /\ \A p, q \in DOMAIN loop.tmp : p < q => InOrder(loop.tmp[p], loop.tmp[q])
    /\ \A p \in DOMAIN loop.tmp : \A m \in Left(t) : InOrder(loop.tmp[p], base[m])

LoopInv ==
    /\ Calls("sort") => SortLoop(Head(tasks))
    /\ Calls("merging") => MergeLoop(Head(tasks))

SortsInv == SortsType /\ TaskInv /\ OrderInv /\ UntouchedInv /\ LoopInv /\ PartsInOrder

=============================================================================
