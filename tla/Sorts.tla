-------------------------------- MODULE Sorts --------------------------------
(***************************************************************************)
(* The sorting functions of EE205: quick() of QuickSort/quick.c with its   *)
(* four pivots, and msort() of MergeSort/msort.c and msort_opt.c.  The     *)
(* calls on parts of the array that are still to come are a stack of       *)
(* tasks.  The elements are products, compared as productRanking.c does;   *)
(* an array is a function on 0..n-1, and id is an element's first index.   *)
(***************************************************************************)
EXTENDS Integers, Sequences, FiniteSets

CONSTANTS Arrays,   \* arrays of [meanRating, salesVolume, id]
          SMALL,    \* 17: msort_opt.c sorts shorter arrays by insertion
          ROUNDS    \* 10: quick() with random pivots sorts as many times

Products == [meanRating : Int, salesVolume : Int, id : Nat]

Nmemb(arr) == Cardinality(DOMAIN arr)

\* Not empty: msort.c would go on to index SIZE_MAX.
ASSUME ArraysAssumption == \A arr \in Arrays :
    /\ Nmemb(arr) \in Nat \ {0} /\ arr \in [0..(Nmemb(arr) - 1) -> Products]
    /\ \A k \in DOMAIN arr : arr[k].id = k

VARIABLES base,
          tasks,
          loop,      \* i, j and tmp of the call of sort() or merge() that runs
          function,  \* the pivot type of quick(), or "msort" or "msort_opt"
          rounds

sorting == <<base, tasks, loop, function, rounds>>

PivotTypes == {"FIRST", "LAST", "RANDOM", "MEDIANOF3"}

\* Better ratings come first, then higher sales.
compareProducts(A, B) ==
    IF A.meanRating # B.meanRating THEN IF A.meanRating > B.meanRating THEN -1 ELSE 1
    ELSE IF A.salesVolume > B.salesVolume THEN -1 ELSE IF A.salesVolume < B.salesVolume THEN 1 ELSE 0

swap(arr, a, b) == [arr EXCEPT ![a] = arr[b], ![b] = arr[a]]

Ordered(arr, a, b) == IF compareProducts(arr[a], arr[b]) > 0 THEN swap(arr, a, b) ELSE arr

medofthree(arr, left, mid, right) ==
    Ordered(Ordered(Ordered(arr, left, mid), mid, right), left, mid)

-----------------------------------------------------------------------------
Task(call, left, mid, right) == [call |-> call, left |-> left, mid |-> mid, right |-> right]

\* The call that quick() or msort() makes for an array of n elements.
First(f, n) ==
    IF f \in PivotTypes THEN Task("quick", 0, 0, n - 1)
    ELSE IF f = "msort_opt" /\ n < SMALL THEN Task("isort", 1, 0, n - 1)
    ELSE Task("mergesort", 0, 0, n - 1)

Call(f, arr) ==
    /\ base = arr /\ function = f
    /\ tasks = <<First(function, Nmemb(base))>>
    /\ rounds = 1 /\ loop = [i |-> 0, j |-> 0, tmp |-> <<>>]

SortsInit == \E f \in PivotTypes \cup {"msort", "msort_opt"}, arr \in Arrays : Call(f, arr)

Calls(call) == tasks # <<>> /\ Head(tasks).call = call

\* A part of one element is sorted.
PartOfOne ==
    /\ tasks # <<>> /\ Head(tasks).left >= Head(tasks).right
    /\ Head(tasks).call \in {"quick", "mergesort"}
    /\ tasks' = Tail(tasks)
    /\ UNCHANGED <<base, loop, function, rounds>>

\* firstsort(), lastsort(), randsort() and medsort(): the pivot goes to the
\* left end, and sort() begins.
Quick ==
    /\ Calls("quick")
    /\ \E left \in {Head(tasks).left}, right \in {Head(tasks).right} :
         /\ left < right
         /\ \E pivot \in CASE function = "FIRST" -> {left}
                            [] function = "LAST" -> {right}
                            [] function = "RANDOM" -> left..right
                            [] OTHER -> {(left + right) \div 2} :
              base' = swap(IF function = "MEDIANOF3" THEN medofthree(base, left, pivot, right)
                           ELSE base, left, pivot)
         /\ loop' = [loop EXCEPT !.i = left, !.j = right + 1]
         /\ tasks' = <<Task("sort", left, 0, right)>> \o Tail(tasks)
    /\ UNCHANGED <<function, rounds>>

\* A round of sort(): i and j move towards each other past the elements that
\* are on their side of the pivot, and exchange the two they stop at.  Once they
\* have met, the pivot goes between the two parts, which are sorted next.
SortRound ==
    /\ Calls("sort")
    /\ \E left \in {Head(tasks).left}, right \in {Head(tasks).right}, pivot \in {base[Head(tasks).left]} :
       \E i \in (loop.i + 1)..right, j \in left..(loop.j - 1) :
         /\ i < right => compareProducts(pivot, base[i]) <= 0
         /\ \A k \in (loop.i + 1)..(i - 1) : compareProducts(pivot, base[k]) > 0
         /\ left < j => compareProducts(pivot, base[j]) >= 0
         /\ \A k \in (j + 1)..(loop.j - 1) : compareProducts(pivot, base[k]) < 0
         /\ loop' = [loop EXCEPT !.i = i, !.j = j]
         /\ IF i >= j
            THEN /\ base' = swap(base, left, j)
                 /\ tasks' = <<Task("quick", left, 0, j - 1), Task("quick", j + 1, 0, right)>>
                             \o Tail(tasks)
            ELSE base' = swap(base, i, j) /\ UNCHANGED tasks
    /\ UNCHANGED <<function, rounds>>

\* quick() with random pivots sorts the array again, which is sorted by then.
Again ==
    /\ tasks = <<>> /\ function = "RANDOM" /\ rounds < ROUNDS
    /\ rounds' = rounds + 1
    /\ tasks' = <<First(function, Nmemb(base))>>
    /\ UNCHANGED <<base, loop, function>>

MergeSort ==
    /\ Calls("mergesort")
    /\ LET left == Head(tasks).left
           right == Head(tasks).right
           mid == (left + right) \div 2
       IN  /\ left < right
           /\ tasks' = <<Task("mergesort", left, 0, mid), Task("mergesort", mid + 1, 0, right),
                         Task("merge", left, mid, right)>> \o Tail(tasks)
    /\ UNCHANGED <<base, loop, function, rounds>>

\* merge() begins; msort_opt.c leaves two parts alone that are in order.
Merge ==
    /\ Calls("merge")
    /\ LET t == Head(tasks)
       IN  IF function = "msort_opt" /\ compareProducts(base[t.mid + 1], base[t.mid]) > 0
           THEN tasks' = Tail(tasks) /\ UNCHANGED loop
           ELSE /\ tasks' = <<[t EXCEPT !.call = "merging"]>> \o Tail(tasks)
                /\ loop' = [i |-> t.left, j |-> t.mid + 1, tmp |-> <<>>]
    /\ UNCHANGED <<base, function, rounds>>

\* A bug: of two equal elements the right one is taken first.
FaultyTakesLeft(t) ==
    loop.i <= t.mid /\ (loop.j > t.right \/ compareProducts(base[loop.i], base[loop.j]) < 0)

\* The left part has the next element, or is all that is left.
TakesLeft(t) ==
    loop.i <= t.mid /\ (loop.j > t.right \/ compareProducts(base[loop.i], base[loop.j]) <= 0)

\* A round of the loops of merge(), which fill tmp from the two parts.
MergeRound ==
    /\ Calls("merging")
    /\ LET t == Head(tasks)
       IN  /\ loop.i <= t.mid \/ loop.j <= t.right
           /\ loop' = IF TakesLeft(t)
                      THEN [loop EXCEPT !.i = @ + 1, !.tmp = Append(@, base[loop.i])]
                      ELSE [loop EXCEPT !.j = @ + 1, !.tmp = Append(@, base[loop.j])]
    /\ UNCHANGED <<base, tasks, function, rounds>>

\* The end of merge(): tmp is copied back.
CopyBack ==
    /\ Calls("merging")
    /\ LET t == Head(tasks)
       IN  /\ loop.i > t.mid /\ loop.j > t.right
           /\ base' = [k \in DOMAIN base |->
                          IF k \in t.left..t.right THEN loop.tmp[k - t.left + 1] ELSE base[k]]
    /\ tasks' = Tail(tasks)
    /\ UNCHANGED <<loop, function, rounds>>

\* Element i moves down past the greater ones, to place at.
Inserted(arr, i, at) ==
    [k \in DOMAIN arr |-> IF k = at THEN arr[i] ELSE IF k \in (at + 1)..i THEN arr[k - 1] ELSE arr[k]]

\* A round of isort().
InsertNext ==
    /\ Calls("isort")
    /\ LET t == Head(tasks)
       IN  IF t.left > t.right THEN base' = base /\ tasks' = Tail(tasks)
           ELSE /\ \E at \in 0..t.left :
                     /\ \A k \in at..(t.left - 1) : compareProducts(base[k], base[t.left]) > 0
                     /\ at > 0 => compareProducts(base[at - 1], base[t.left]) <= 0
                     /\ base' = Inserted(base, t.left, at)
                /\ tasks' = <<[t EXCEPT !.left = @ + 1]>>
    /\ UNCHANGED <<loop, function, rounds>>

SortsNext == PartOfOne \/ Quick \/ SortRound \/ Again \/ MergeSort \/ Merge \/ MergeRound \/ CopyBack
             \/ InsertNext
SortsSpec == SortsInit /\ [][SortsNext]_sorting

-----------------------------------------------------------------------------
\* A call that is still to come, or to end, may move element a behind element b.
Covers(t, a, b) ==
    CASE t.call \in {"quick", "sort", "mergesort"} -> t.left <= a /\ b <= t.right
      [] t.call \in {"merge", "merging"} -> a \in t.left..t.mid /\ b \in (t.mid + 1)..t.right
      [] OTHER -> t.left <= b

\* x may stand before y for good.  The merge and insertion sorts moreover keep
\* equal elements in the order they came in.
InOrder(x, y) ==
    /\ compareProducts(x, y) <= 0
    /\ function \notin PivotTypes /\ compareProducts(x, y) = 0 => x.id < y.id

\* Nothing is lost or doubled, and two elements that no call to come has
\* before it together are in order for good, at the end all of them: calls on
\* a part never have to look at another one.
PartsInOrder ==
    /\ {base[k].id : k \in DOMAIN base} = DOMAIN base
    /\ \A b \in DOMAIN base : \A a \in 0..(b - 1) :
         (\A k \in DOMAIN tasks : ~Covers(tasks[k], a, b)) => InOrder(base[a], base[b])

=============================================================================
