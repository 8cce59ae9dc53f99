---------------------------- MODULE Sorts_proofs ----------------------------
(***************************************************************************)
(* Proofs about Sorts, for every array, pivot and limit of msort_opt.c:    *)
(* SortsInv is an invariant, and with it PartsInOrder.                     *)
(***************************************************************************)
EXTENDS SortsInv, SequenceTheorems, FiniteSetTheorems, TLAPS

(***************************************************************************)
(* The order of the products.                                              *)
(***************************************************************************)

\* The comparison is that of a total preorder.
LEMMA CompareLemma ==
    ASSUME NEW x \in Products, NEW y \in Products, NEW z \in Products
    PROVE  /\ compareProducts(x, y) \in {-1, 0, 1}
           /\ compareProducts(x, x) = 0
           /\ compareProducts(x, y) > 0 <=> compareProducts(y, x) < 0
           /\ compareProducts(x, y) <= 0 /\ compareProducts(y, z) <= 0 => compareProducts(x, z) <= 0
           /\ compareProducts(x, y) <= 0 /\ compareProducts(y, z) <= 0 /\ compareProducts(x, z) = 0
                 => compareProducts(x, y) = 0 /\ compareProducts(y, z) = 0
  BY DEF compareProducts, Products

LEMMA InOrderTransitive ==
    ASSUME NEW x \in Products, NEW y \in Products, NEW z \in Products,
           InOrder(x, y), InOrder(y, z)
    PROVE  InOrder(x, z)
<1>1. x.id \in Int /\ y.id \in Int /\ z.id \in Int
  BY DEF Products
<1>. QED BY <1>1, CompareLemma DEF InOrder

(***************************************************************************)
(* Stacks of calls.                                                        *)
(***************************************************************************)

LEMMA TailLemma ==
    ASSUME NEW T, NEW q \in Seq(T), q # <<>>
    PROVE  /\ Head(q) = q[1] /\ Head(q) \in T
           /\ Len(q) \in Nat /\ Len(q) > 0 /\ 1 \in DOMAIN q /\ DOMAIN q = 1..Len(q)
           /\ Tail(q) \in Seq(T) /\ Len(Tail(q)) = Len(q) - 1
           /\ DOMAIN Tail(q) = 1..(Len(q) - 1)
           /\ \A k \in DOMAIN Tail(q) : Tail(q)[k] = q[k + 1] /\ k + 1 \in DOMAIN q
  OBVIOUS

\* Some calls in the place of the first one.
LEMMA StackElements ==
    ASSUME NEW T, NEW q \in Seq(T), q # <<>>, NEW p \in Seq(T), NEW s, s = p \o Tail(q)
    PROVE  /\ s \in Seq(T)
           /\ Len(p) \in Nat /\ DOMAIN p = 1..Len(p)
           /\ Len(q) \in Nat /\ DOMAIN q = 1..Len(q) /\ Len(q) > 0
           /\ DOMAIN s = 1..(Len(p) + Len(q) - 1)
           /\ \A k \in 1..Len(p) : s[k] = p[k]
           /\ \A k \in (Len(p) + 1)..(Len(p) + Len(q) - 1) : s[k] = q[k - Len(p) + 1]
<1>1. /\ Tail(q) \in Seq(T) /\ Len(Tail(q)) = Len(q) - 1
      /\ Len(q) \in Nat /\ Len(q) > 0 /\ DOMAIN q = 1..Len(q)
      /\ \A k \in 1..(Len(q) - 1) : Tail(q)[k] = q[k + 1]
  BY TailLemma
<1>2. Len(p) \in Nat /\ DOMAIN p = 1..Len(p)
  OBVIOUS
<1>3. /\ s \in Seq(T) /\ Len(s) = Len(p) + (Len(q) - 1)
      /\ \A k \in 1..(Len(p) + (Len(q) - 1)) : s[k] = IF k <= Len(p) THEN p[k] ELSE Tail(q)[k - Len(p)]
  BY <1>1, ConcatProperties
<1>4. DOMAIN s = 1..(Len(p) + (Len(q) - 1)) /\ Len(p) + (Len(q) - 1) = Len(p) + Len(q) - 1
  BY <1>1, <1>2, <1>3
<1>5. \A k \in 1..Len(p) : s[k] = p[k]
  BY <1>1, <1>2, <1>3
<1>6. ASSUME NEW k \in (Len(p) + 1)..(Len(p) + Len(q) - 1) PROVE s[k] = q[k - Len(p) + 1]
  <2>1. k \in 1..(Len(p) + (Len(q) - 1)) /\ ~(k <= Len(p)) /\ k - Len(p) \in 1..(Len(q) - 1)
        /\ (k - Len(p)) + 1 = k - Len(p) + 1
    BY <1>1, <1>2
  <2>. QED BY <1>1, <1>3, <2>1
<1>. QED BY <1>1, <1>2, <1>3, <1>4, <1>5, <1>6

(***************************************************************************)
(* Arrays whose elements have moved.                                       *)
(***************************************************************************)

\* new has the elements of old; those outside l..r are where they were.
Rearranged(new, old, l, r) ==
    /\ DOMAIN new = DOMAIN old
    /\ \A k \in DOMAIN old : k \notin l..r => new[k] = old[k]
    /\ \A k \in l..r : \E m \in l..r : new[k] = old[m]
    /\ \A m \in l..r : \E k \in l..r : new[k] = old[m]

LEMMA RearrangedTransitive ==
    ASSUME NEW x, NEW y, NEW z, NEW l \in Int, NEW r \in Int,
           Rearranged(y, x, l, r), Rearranged(z, y, l, r)
    PROVE  Rearranged(z, x, l, r)
<1>1. DOMAIN z = DOMAIN x /\ DOMAIN y = DOMAIN x
  BY DEF Rearranged
<1>2. ASSUME NEW k \in DOMAIN x, k \notin l..r PROVE z[k] = x[k]
  <2>1. y[k] = x[k] /\ z[k] = y[k]
    BY <1>1, <1>2 DEF Rearranged
  <2>. QED BY <2>1
<1>3. ASSUME NEW k \in l..r PROVE \E m \in l..r : z[k] = x[m]
  <2>1. PICK n \in l..r : z[k] = y[n]
    BY DEF Rearranged
  <2>2. PICK m \in l..r : y[n] = x[m]
    BY DEF Rearranged
  <2>. QED BY <2>1, <2>2
<1>4. ASSUME NEW m \in l..r PROVE \E k \in l..r : z[k] = x[m]
  <2>1. PICK n \in l..r : y[n] = x[m]
    BY DEF Rearranged
  <2>2. PICK k \in l..r : z[k] = y[n]
    BY DEF Rearranged
  <2>. QED BY <2>1, <2>2
<1>. QED BY <1>1, <1>2, <1>3, <1>4 DEF Rearranged

LEMMA SwapLemma ==
    ASSUME NEW N \in Nat, NEW arr \in [0..N -> Products], NEW l \in 0..N, NEW r \in 0..N,
           NEW a \in l..r, NEW b \in l..r
    PROVE  /\ swap(arr, a, b) \in [0..N -> Products]
           /\ swap(arr, a, b)[a] = arr[b] /\ swap(arr, a, b)[b] = arr[a]
           /\ \A k \in 0..N : k # a /\ k # b => swap(arr, a, b)[k] = arr[k]
           /\ Rearranged(swap(arr, a, b), arr, l, r)
<1>1. a \in 0..N /\ b \in 0..N /\ l..r \subseteq 0..N
  OBVIOUS
<1>2. /\ swap(arr, a, b) \in [0..N -> Products]
      /\ swap(arr, a, b)[a] = arr[b] /\ swap(arr, a, b)[b] = arr[a]
      /\ \A k \in 0..N : k # a /\ k # b => swap(arr, a, b)[k] = arr[k]
  BY <1>1 DEF swap
<1> DEFINE new == swap(arr, a, b)
<1> HIDE DEF new
<1>3. Rearranged(new, arr, l, r)
  <2>1. DOMAIN new = DOMAIN arr /\ DOMAIN arr = 0..N
    BY <1>2 DEF new
  <2>2. \A k \in l..r : \E m \in l..r : new[k] = arr[m] /\ new[m] = arr[k]
    <3> TAKE k \in l..r
    <3>1. CASE k = a
      BY <3>1, <1>2 DEF new
    <3>2. CASE k = b
      BY <3>2, <1>2 DEF new
    <3>3. CASE k # a /\ k # b
      BY <3>3, <1>1, <1>2 DEF new
    <3>. QED BY <3>1, <3>2, <3>3
  <2>3. \A k \in DOMAIN arr : k \notin l..r => new[k] = arr[k]
    BY <2>1, <1>2 DEF new
  <2>. QED BY <2>1, <2>2, <2>3 DEF Rearranged
<1>. QED BY <1>2, <1>3 DEF new

LEMMA RearrangedSame ==
    ASSUME NEW x, NEW l \in Int, NEW r \in Int
    PROVE  Rearranged(x, x, l, r)
  BY DEF Rearranged

\* medofthree() moves elements of its part only.
LEMMA MedianLemma ==
    ASSUME NEW N \in Nat, NEW arr \in [0..N -> Products], NEW l \in 0..N, NEW r \in 0..N,
           NEW m \in l..r
    PROVE  medofthree(arr, l, m, r) \in [0..N -> Products] /\ Rearranged(medofthree(arr, l, m, r), arr, l, r)
<1>1. l \in l..r /\ r \in l..r
  OBVIOUS
<1>2. \A x \in [0..N -> Products] : \A a, b \in l..r :
         Ordered(x, a, b) \in [0..N -> Products] /\ Rearranged(Ordered(x, a, b), x, l, r)
  BY SwapLemma, RearrangedSame DEF Ordered
<1> DEFINE y == Ordered(arr, l, m)
           z == Ordered(y, m, r)
<1>3. y \in [0..N -> Products] /\ Rearranged(y, arr, l, r)
  BY <1>1, <1>2
<1>4. z \in [0..N -> Products] /\ Rearranged(z, y, l, r)
  BY <1>1, <1>2, <1>3
<1>5. Ordered(z, l, m) \in [0..N -> Products] /\ Rearranged(Ordered(z, l, m), z, l, r)
  BY <1>1, <1>2, <1>4
<1>6. medofthree(arr, l, m, r) = Ordered(z, l, m)
  BY DEF medofthree
<1> HIDE DEF y, z
<1>. QED BY <1>3, <1>4, <1>5, <1>6, RearrangedTransitive

(***************************************************************************)
(* What a step inside the part of the first call changes for the others.   *)
(***************************************************************************)

LEMMA BaseFacts ==
    ASSUME SortsType
    PROVE  /\ nmemb \in Nat /\ nmemb > 0 /\ nmemb - 1 \in Nat
           /\ DOMAIN base = 0..(nmemb - 1) /\ base \in [0..(nmemb - 1) -> Products]
           /\ \A k \in 0..(nmemb - 1) : base[k] \in Products /\ base[k].id \in Nat
<1>1. nmemb \in Nat /\ nmemb > 0 /\ base \in [0..(nmemb - 1) -> Products]
  BY DEF SortsType
<1>2. nmemb - 1 \in Nat
  BY <1>1
<1>. QED BY <1>1, <1>2 DEF Products

LEMMA TaskFacts ==
    ASSUME SortsType, TaskInv, NEW k \in DOMAIN tasks
    PROVE  /\ k \in Nat /\ k > 0 /\ tasks[k] \in Tasks
           /\ tasks[k].left \in Nat /\ tasks[k].mid \in Nat /\ tasks[k].right \in Int
           /\ tasks[k].left <= nmemb /\ tasks[k].right < nmemb
<1>1. k \in 1..Len(tasks) /\ tasks[k] \in Tasks
  BY DEF SortsType
<1>2. tasks[k].left <= nmemb /\ tasks[k].right < nmemb
  BY DEF TaskInv, Fits
<1>. QED BY <1>1, <1>2 DEF Tasks

\* An array of the same domain has as many elements.
LEMMA SameSize ==
    ASSUME SortsType, base' \in [0..(nmemb - 1) -> Products]
    PROVE  nmemb' = nmemb
  BY BaseFacts DEF nmemb, Nmemb

LEMMA RearrangedIds ==
    ASSUME SortsType, PartsInOrder, base' \in [0..(nmemb - 1) -> Products],
           NEW l \in Int, NEW r \in Int, l..r \subseteq DOMAIN base,
           Rearranged(base', base, l, r)
    PROVE  {base'[k].id : k \in DOMAIN base'} = DOMAIN base'
<1>1. DOMAIN base' = DOMAIN base /\ {base[k].id : k \in DOMAIN base} = DOMAIN base
  BY DEF Rearranged, PartsInOrder
<1>2. /\ \A k \in DOMAIN base : \E m \in DOMAIN base : base'[k] = base[m]
      /\ \A m \in DOMAIN base : \E k \in DOMAIN base : base'[k] = base[m]
  <2> SUFFICES ASSUME NEW k \in DOMAIN base
               PROVE  (\E m \in DOMAIN base : base'[k] = base[m]) /\ (\E m \in DOMAIN base : base'[m] = base[k])
    OBVIOUS
  <2>1. CASE k \in l..r
    <3>1. (\E m \in l..r : base'[k] = base[m]) /\ (\E m \in l..r : base'[m] = base[k])
      BY <2>1 DEF Rearranged
    <3>. QED BY <3>1
  <2>2. CASE k \notin l..r
    <3>1. base'[k] = base[k]
      BY <2>2 DEF Rearranged
    <3>. QED BY <3>1
  <2>. QED BY <2>1, <2>2
<1>3. \A v : v \in {base'[k].id : k \in DOMAIN base'} <=> v \in {base[k].id : k \in DOMAIN base}
  <2>1. ASSUME NEW k \in DOMAIN base' PROVE base'[k].id \in {base[m].id : m \in DOMAIN base}
    <3>1. PICK m \in DOMAIN base : base'[k] = base[m]
      BY <1>1, <1>2
    <3>. QED BY <3>1
  <2>2. ASSUME NEW m \in DOMAIN base PROVE base[m].id \in {base'[k].id : k \in DOMAIN base'}
    <3>1. PICK k \in DOMAIN base' : base'[k] = base[m]
      BY <1>1, <1>2
    <3>. QED BY <3>1
  <2>. QED BY <2>1, <2>2
<1>. QED BY <1>1, <1>3

\* What a later call has before it, it still has when the elements of the
\* first one have moved.
LEMMA CoversMoved ==
    ASSUME NEW t \in Tasks, t.call # "isort", t.call \in Merges => t.left <= t.mid /\ t.mid < t.right,
           NEW s \in Tasks, Before(s, t),
           NEW a \in Int, NEW b \in Int, NEW c \in Int, NEW d \in Int, c < d,
           c = a \/ (a \in s.left..s.right /\ c \in s.left..s.right),
           d = b \/ (b \in s.left..s.right /\ d \in s.left..s.right),
           Covers(t, c, d)
    PROVE  Covers(t, a, b)
<1>1. /\ t.left \in Int /\ t.mid \in Int /\ t.right \in Int
      /\ s.left \in Int /\ s.right \in Int
  BY DEF Tasks
<1>2. CASE t.call \in Merges
  <2>1. c \in t.left..t.mid /\ d \in (t.mid + 1)..t.right
    BY <1>2 DEF Covers, Merges
  <2>2. a \in t.left..t.mid /\ b \in (t.mid + 1)..t.right
    BY <1>1, <1>2, <2>1 DEF Before
  <2>. QED BY <1>2, <2>2 DEF Covers, Merges
<1>3. CASE t.call \in {"quick", "sort", "mergesort"}
  <2>1. t.left <= c /\ d <= t.right /\ s.right < t.left
    BY <1>3 DEF Covers, Before, Merges
  <2>2. t.left <= a /\ b <= t.right
    BY <1>1, <2>1
  <2>. QED BY <1>3, <2>2 DEF Covers
<1>. QED BY <1>2, <1>3 DEF Tasks, MergeCalls

LEMMA PartFacts ==
    ASSUME SortsType, TaskInv, tasks # <<>>, NEW l, NEW r,
           l = Head(tasks).left, r = Head(tasks).right, l <= r
    PROVE  /\ l \in 0..(nmemb - 1) /\ r \in 0..(nmemb - 1) /\ l..r \subseteq DOMAIN base
           /\ l \in l..r /\ r \in l..r
<1>1. tasks \in Seq(Tasks)
  BY DEF SortsType
<1>2. 1 \in DOMAIN tasks /\ Head(tasks) = tasks[1]
  BY <1>1, TailLemma
<1>3. l \in Nat /\ l <= nmemb /\ r \in Int /\ r < nmemb
  BY <1>2, TaskFacts
<1>. QED BY <1>3, BaseFacts

\* Where an element comes from.
LEMMA CameFrom ==
    ASSUME NEW new, NEW old, NEW l \in Int, NEW r \in Int, Rearranged(new, old, l, r),
           l..r \subseteq DOMAIN old, NEW a \in DOMAIN old
    PROVE  \E c \in DOMAIN old : /\ c = a \/ (a \in l..r /\ c \in l..r)
                                 /\ new[a] = old[c]
<1>1. CASE a \in l..r
  <2>1. PICK c \in l..r : new[a] = old[c]
    BY <1>1 DEF Rearranged
  <2>. QED BY <1>1, <2>1
<1>2. CASE a \notin l..r
  BY <1>2 DEF Rearranged
<1>. QED BY <1>1, <1>2

\* Two elements that are not both in the part of the first call, and that no
\* later call has before it together, are in order also when the elements of
\* that part have moved.
LEMMA MovedInOrder ==
    ASSUME SortsType, TaskInv, OrderInv, PartsInOrder, tasks # <<>>,
           NEW l \in Int, NEW r \in Int, l = Head(tasks).left, r = Head(tasks).right, l <= r,
           Head(tasks).call # "isort",
           NEW new, Rearranged(new, base, l, r),
           NEW a \in DOMAIN base, NEW b \in DOMAIN base, a < b,
           ~(a \in l..r /\ b \in l..r),
           \A k \in DOMAIN tasks : k > 1 => ~Covers(tasks[k], a, b)
    PROVE  InOrder(new[a], new[b])
<1>1. /\ tasks \in Seq(Tasks) /\ 1 \in DOMAIN tasks /\ Head(tasks) = tasks[1]
  BY TailLemma DEF SortsType
<1>2. DOMAIN base = 0..(nmemb - 1) /\ nmemb \in Nat
  BY BaseFacts
<1>2a. l..r \subseteq DOMAIN base
  BY PartFacts
<1>3. PICK c \in DOMAIN base : /\ c = a \/ (a \in l..r /\ c \in l..r)
                               /\ new[a] = base[c]
  BY <1>2a, CameFrom
<1>4. PICK d \in DOMAIN base : /\ d = b \/ (b \in l..r /\ d \in l..r)
                               /\ new[b] = base[d]
  BY <1>2a, CameFrom
<1>5. a \in Int /\ b \in Int /\ c \in Int /\ d \in Int /\ c < d /\ ~(c \in l..r /\ d \in l..r)
  BY <1>2, <1>3, <1>4
<1>6. ~Covers(tasks[1], c, d)
  <2>1. tasks[1] \in Tasks /\ tasks[1].call # "isort" /\ tasks[1].left = l /\ tasks[1].right = r
    BY <1>1, TaskFacts
  <2>2. tasks[1].call \in Merges => l <= tasks[1].mid /\ tasks[1].mid < r /\ tasks[1].mid \in Int
    BY <1>1, <2>1, TaskFacts DEF TaskInv, Fits
  <2>3. ~(l <= c /\ d <= r)
    BY <1>2, <1>5
  <2>4. CASE tasks[1].call \in Merges
    BY <1>2, <1>5, <2>1, <2>2, <2>3, <2>4 DEF Covers, Merges
  <2>5. CASE tasks[1].call \notin Merges
    BY <2>1, <2>3, <2>5 DEF Covers, Tasks, Merges, MergeCalls
  <2>. QED BY <2>4, <2>5
<1>7. ASSUME NEW k \in DOMAIN tasks, k > 1 PROVE ~Covers(tasks[k], c, d)
  <2>1. Before(tasks[1], tasks[k])
    BY <1>1, <1>7 DEF OrderInv
  <2>2. /\ tasks[k].call # "isort"
        /\ tasks[k].call \in Merges => tasks[k].left <= tasks[k].mid /\ tasks[k].mid < tasks[k].right
    BY <1>7, TaskFacts DEF TaskInv, Fits
  <2>3. tasks[1] \in Tasks /\ tasks[k] \in Tasks /\ tasks[1].left = l /\ tasks[1].right = r
    BY <1>1, TaskFacts
  <2>. QED BY <1>3, <1>4, <1>5, <1>7, <2>1, <2>2, <2>3, CoversMoved
<1>8. \A k \in DOMAIN tasks : ~Covers(tasks[k], c, d)
  <2> TAKE k \in DOMAIN tasks
  <2>1. k = 1 \/ k > 1
    BY TaskFacts
  <2>. QED BY <2>1, <1>6, <1>7
<1>9. c \in 0..(d - 1)
  BY <1>2, <1>5
<1>. QED BY <1>3, <1>4, <1>8, <1>9 DEF PartsInOrder

\* The later calls find their parts as untouched as before.
LEMMA MovedUntouched ==
    ASSUME SortsType, TaskInv, OrderInv, UntouchedInv, tasks # <<>>,
           NEW l \in Int, NEW r \in Int, l = Head(tasks).left, r = Head(tasks).right, l <= r,
           Rearranged(base', base, l, r),
           NEW k \in DOMAIN tasks, k > 1, NEW t, t = tasks[k], NEW m \in DOMAIN base
    PROVE  Untouched(t, m)'
<1>1. /\ tasks \in Seq(Tasks) /\ 1 \in DOMAIN tasks /\ Head(tasks) = tasks[1]
  BY TailLemma DEF SortsType
<1>2. l \in Int /\ r \in Int /\ l..r \subseteq DOMAIN base
  BY PartFacts
<1>3. PICK c \in DOMAIN base : /\ c = m \/ (m \in l..r /\ c \in l..r)
                               /\ base'[m] = base[c]
  BY <1>2, CameFrom
<1>4. Before(tasks[1], t) /\ t.call # "isort"
  BY <1>1, TaskFacts DEF OrderInv, TaskInv, Fits
<1>5. Untouched(t, c) /\ Untouched(t, m)
  BY <1>3 DEF UntouchedInv
<1>6. c \in Int /\ m \in Int /\ t.left \in Int /\ t.mid \in Int /\ t.right \in Int
  BY BaseFacts, TaskFacts
<1>7. base'[m].id = base[c].id
  BY <1>3
<1>8. CASE c = m
  BY <1>5, <1>7, <1>8 DEF Untouched
<1>9. CASE c # m
  <2>1. m \in l..r /\ c \in l..r /\ tasks[1].left = l /\ tasks[1].right = r
    BY <1>1, <1>3, <1>9
  <2>2. CASE r < t.left
    <3>1. m < t.left
      BY <2>1, <2>2, <1>2, <1>6
    <3>2. m \notin t.left..t.right /\ m \notin t.left..t.mid
      BY <3>1, <1>6
    <3>3. t.call \in Merges => m \notin (t.mid + 1)..t.right
      BY <3>1, <1>6, TaskFacts DEF TaskInv, Fits
    <3>. QED BY <1>4, <3>2, <3>3 DEF Untouched
  <2>3. CASE ~(r < t.left)
    <3>1. /\ t.call \in Merges /\ t.call # "mergesort" /\ t.left <= l /\ r <= t.right
          /\ r <= t.mid \/ t.mid < l
      BY <1>4, <2>1, <2>3 DEF Before, Merges
    <3>2. /\ m \in t.left..t.mid => c \in t.left..t.mid
          /\ m \in (t.mid + 1)..t.right => c \in (t.mid + 1)..t.right
      BY <1>2, <1>6, <2>1, <3>1
    <3>. QED BY <1>4, <1>5, <1>7, <3>1, <3>2 DEF Untouched
  <2>. QED BY <2>2, <2>3
<1>. QED BY <1>8, <1>9

(***************************************************************************)
(* What a call leaves to others instead of itself.                         *)
(***************************************************************************)

\* The calls p, which the first one has put in its place, are about parts of
\* its part and come in their order.
Replaces(p, l, r) ==
    /\ p \in Seq(Tasks)
    /\ \A j \in DOMAIN p : p[j].call # "isort" /\ Fits(p[j], j) /\ l <= p[j].left /\ p[j].right <= r
    /\ \A j, k \in DOMAIN p : j < k => Before(p[j], p[k])

LEMMA StackLemma ==
    ASSUME SortsType, TaskInv, OrderInv, UntouchedInv, tasks # <<>>, Head(tasks).call # "isort",
           NEW l \in Int, NEW r \in Int, l = Head(tasks).left, r = Head(tasks).right,
           base' \in [0..(nmemb - 1) -> Products], function' = function,
           base' = base \/ (l <= r /\ Rearranged(base', base, l, r)),
           NEW p, Replaces(p, l, r), tasks' = p \o Tail(tasks),
           \A j \in DOMAIN p : \A m \in DOMAIN base : Untouched(p[j], m)'
    PROVE  tasks' \in Seq(Tasks) /\ TaskInv' /\ OrderInv' /\ UntouchedInv'
<1>1. /\ tasks \in Seq(Tasks) /\ p \in Seq(Tasks) /\ 1 \in DOMAIN tasks /\ Head(tasks) = tasks[1]
  BY TailLemma DEF SortsType, Replaces
<1>2. /\ tasks' \in Seq(Tasks) /\ Len(p) \in Nat /\ DOMAIN p = 1..Len(p)
      /\ Len(tasks) \in Nat /\ DOMAIN tasks = 1..Len(tasks)
      /\ DOMAIN tasks' = 1..(Len(p) + Len(tasks) - 1)
      /\ \A k \in 1..Len(p) : tasks'[k] = p[k]
      /\ \A k \in (Len(p) + 1)..(Len(p) + Len(tasks) - 1) : tasks'[k] = tasks[k - Len(p) + 1]
  BY <1>1, StackElements
<1>3. \A k \in DOMAIN tasks' :
         \/ k \in DOMAIN p /\ tasks'[k] = p[k]
         \/ \E i \in DOMAIN tasks : i > 1 /\ i = k - Len(p) + 1 /\ k > Len(p) /\ tasks'[k] = tasks[i]
  <2> TAKE k \in DOMAIN tasks'
  <2>1. CASE k \in 1..Len(p)
    BY <2>1, <1>2
  <2>2. CASE k \notin 1..Len(p)
    <3>1. k \in (Len(p) + 1)..(Len(p) + Len(tasks) - 1) /\ k > Len(p)
      BY <2>2, <1>2
    <3>2. k - Len(p) + 1 \in DOMAIN tasks /\ k - Len(p) + 1 > 1 /\ tasks'[k] = tasks[k - Len(p) + 1]
      BY <3>1, <1>2
    <3>. QED BY <3>1, <3>2
  <2>. QED BY <2>1, <2>2
<1>4. \A k \in DOMAIN tasks' : k \in Nat
  BY <1>2
<1>5. nmemb' = nmemb
  BY SameSize
<1>6. \A k \in DOMAIN tasks : k > 1 => tasks[k].call \notin {"sort", "merging", "isort"}
  BY DEF TaskInv, Fits
<1>7. TaskInv'
  <2> SUFFICES ASSUME NEW k \in DOMAIN tasks', NEW t, t = tasks'[k] PROVE Fits(t, k)'
    BY DEF TaskInv, Fits
  <2>1. CASE k \in DOMAIN p /\ t = p[k]
    <3>1. Fits(t, k) /\ t.call # "isort"
      BY <2>1 DEF Replaces
    <3>. QED BY <3>1, <1>5 DEF Fits
  <2>2. ASSUME NEW i \in DOMAIN tasks, i > 1, t = tasks[i] PROVE Fits(t, k)'
    <3>1. Fits(t, i) /\ t.call \notin {"sort", "merging", "isort"}
      BY <2>2, <1>6 DEF TaskInv
    <3>. QED BY <3>1, <1>5 DEF Fits
  <2>. QED BY <1>3, <2>1, <2>2
<1>8. OrderInv'
  <2> SUFFICES ASSUME NEW j \in DOMAIN tasks', NEW k \in DOMAIN tasks', j < k
               PROVE  Before(tasks'[j], tasks'[k])
    BY DEF OrderInv
  <2>1. CASE k \in DOMAIN p
    BY <2>1, <1>3, <1>4 DEF Replaces
  <2>2. CASE k \notin DOMAIN p /\ j \in DOMAIN p
    <3>1. PICK i \in DOMAIN tasks : i > 1 /\ tasks'[k] = tasks[i]
      BY <2>2, <1>3
    <3>2. Before(tasks[1], tasks[i]) /\ i \in DOMAIN tasks
      BY <3>1, <1>1 DEF OrderInv
    <3>3. tasks'[j] = p[j] /\ l <= p[j].left /\ p[j].right <= r /\ p[j] \in Tasks
      BY <2>2, <1>1, <1>3, <1>4 DEF Replaces
    <3>3a. tasks[1].left = l /\ tasks[1].right = r
      BY <1>1
    <3>4. /\ tasks[i].left \in Int /\ tasks[i].mid \in Int /\ tasks[i].right \in Int
          /\ p[j].left \in Int /\ p[j].right \in Int
      BY <3>1, <3>3, TaskFacts DEF Tasks
    <3>5. \/ p[j].right < tasks[i].left
          \/ /\ tasks[i].call \in Merges /\ tasks[i].left <= p[j].left /\ p[j].right <= tasks[i].right
             /\ p[j].right <= tasks[i].mid \/ tasks[i].mid < p[j].left
      <4>1. CASE r < tasks[i].left
        BY <4>1, <3>3, <3>4
      <4>2. CASE /\ tasks[i].call \in Merges /\ tasks[i].left <= l /\ r <= tasks[i].right
                 /\ r <= tasks[i].mid \/ tasks[i].mid < l
        <5>1. l <= p[j].left /\ p[j].right <= r
          BY <3>3
        <5>2. tasks[i].left <= p[j].left /\ p[j].right <= tasks[i].right
          BY <4>2, <5>1, <3>4
        <5>3. p[j].right <= tasks[i].mid \/ tasks[i].mid < p[j].left
          BY <4>2, <5>1, <3>4
        <5>. QED BY <4>2, <5>2, <5>3
      <4>. QED BY <4>1, <4>2, <3>2, <3>3a DEF Before
    <3>. QED BY <3>1, <3>3, <3>5 DEF Before
  <2>3. CASE k \notin DOMAIN p /\ j \notin DOMAIN p
    <3>1. PICK i \in DOMAIN tasks : i = k - Len(p) + 1 /\ tasks'[k] = tasks[i]
      BY <2>3, <1>3
    <3>2. PICK h \in DOMAIN tasks : h = j - Len(p) + 1 /\ tasks'[j] = tasks[h]
      BY <2>3, <1>3
    <3>3. h < i
      BY <3>1, <3>2, <1>2, <1>4
    <3>. QED BY <3>1, <3>2, <3>3 DEF OrderInv
  <2>. QED BY <2>1, <2>2, <2>3
<1>9. UntouchedInv'
  <2>1. DOMAIN base' = DOMAIN base
    BY BaseFacts
  <2> SUFFICES ASSUME NEW k \in DOMAIN tasks', NEW m \in DOMAIN base, NEW t, t = tasks'[k]
               PROVE  Untouched(t, m)'
    BY <2>1 DEF UntouchedInv, Untouched
  <2>2. CASE k \in DOMAIN p /\ tasks'[k] = p[k]
    BY <2>2
  <2>3. ASSUME NEW i \in DOMAIN tasks, i > 1, t = tasks[i] PROVE Untouched(t, m)'
    <3>1. CASE base' = base
      <4>1. Untouched(t, m)
        BY <2>3 DEF UntouchedInv
      <4>. QED BY <4>1, <3>1 DEF Untouched
    <3>2. CASE l <= r /\ Rearranged(base', base, l, r)
      BY <2>3, <3>2, MovedUntouched
    <3>. QED BY <3>1, <3>2
  <2>. QED BY <1>3, <2>2, <2>3
<1>. QED BY <1>2, <1>7, <1>8, <1>9

\* What is out of order after a step, a call of p has before it.
LEMMA OrderLemma ==
    ASSUME SortsType, TaskInv, OrderInv, PartsInOrder, tasks # <<>>, Head(tasks).call # "isort",
           NEW l \in Int, NEW r \in Int, l = Head(tasks).left, r = Head(tasks).right,
           base' \in [0..(nmemb - 1) -> Products], function' = function,
           base' = base \/ (l <= r /\ Rearranged(base', base, l, r)),
           NEW p, Replaces(p, l, r), tasks' = p \o Tail(tasks),
           \A a, b \in l..r : a < b /\ (\A j \in DOMAIN p : ~Covers(p[j], a, b))
                => InOrder(base'[a], base'[b])
    PROVE  PartsInOrder'
<1>1. /\ tasks \in Seq(Tasks) /\ p \in Seq(Tasks) /\ 1 \in DOMAIN tasks /\ Head(tasks) = tasks[1]
  BY TailLemma DEF SortsType, Replaces
<1>2. /\ tasks' \in Seq(Tasks) /\ Len(p) \in Nat /\ DOMAIN p = 1..Len(p)
      /\ Len(tasks) \in Nat /\ DOMAIN tasks = 1..Len(tasks)
      /\ DOMAIN tasks' = 1..(Len(p) + Len(tasks) - 1)
      /\ \A k \in 1..Len(p) : tasks'[k] = p[k]
      /\ \A k \in (Len(p) + 1)..(Len(p) + Len(tasks) - 1) : tasks'[k] = tasks[k - Len(p) + 1]
  BY <1>1, StackElements
<1>3. DOMAIN base' = DOMAIN base /\ DOMAIN base = 0..(nmemb - 1) /\ nmemb \in Nat
  BY BaseFacts
<1>4. {base'[k].id : k \in DOMAIN base'} = DOMAIN base'
  <2>1. CASE base' = base
    BY <2>1 DEF PartsInOrder
  <2>2. CASE l <= r /\ Rearranged(base', base, l, r)
    <3>1. l..r \subseteq DOMAIN base
      BY <2>2, PartFacts
    <3>. QED BY <2>2, <3>1, RearrangedIds
  <2>. QED BY <2>1, <2>2
<1>5. ASSUME NEW a \in DOMAIN base, NEW b \in DOMAIN base, a < b,
             \A k \in DOMAIN tasks' : ~Covers(tasks'[k], a, b)
      PROVE  InOrder(base'[a], base'[b])
  <2>1. \A j \in DOMAIN p : ~Covers(p[j], a, b)
    <3> TAKE j \in DOMAIN p
    <3>1. j \in DOMAIN tasks' /\ tasks'[j] = p[j]
      BY <1>1, <1>2, TailLemma
    <3>. QED BY <3>1, <1>5
  <2>2. \A k \in DOMAIN tasks : k > 1 => ~Covers(tasks[k], a, b)
    <3> SUFFICES ASSUME NEW k \in DOMAIN tasks, k > 1 PROVE ~Covers(tasks[k], a, b)
      OBVIOUS
    <3>1. /\ k - 1 + Len(p) \in (Len(p) + 1)..(Len(p) + Len(tasks) - 1)
          /\ k - 1 + Len(p) \in DOMAIN tasks' /\ (k - 1 + Len(p)) - Len(p) + 1 = k
      BY <1>2
    <3>2. tasks'[k - 1 + Len(p)] = tasks[k]
      BY <1>2, <3>1
    <3>. QED BY <3>1, <3>2, <1>5
  <2>3. CASE a \in l..r /\ b \in l..r
    BY <2>1, <2>3, <1>5
  <2>4. CASE ~(a \in l..r /\ b \in l..r) /\ l <= r
    <3>1. Rearranged(base', base, l, r)
      BY <2>4, RearrangedSame
    <3>. QED BY <1>5, <2>2, <2>4, <3>1, MovedInOrder
  <2>5. CASE ~(l <= r)
    <3>1. ~Covers(tasks[1], a, b)
      <4>1. a \in Int /\ b \in Int /\ ~(l <= a /\ b <= r)
        BY <1>3, <1>5, <2>5
      <4>2. tasks[1].call \notin Merges
        BY <1>1, <2>5, TaskFacts DEF TaskInv, Fits
      <4>. QED BY <1>1, <4>1, <4>2, TaskFacts DEF Covers, Tasks, Merges, MergeCalls
    <3>2. \A k \in DOMAIN tasks : ~Covers(tasks[k], a, b)
      <4> TAKE k \in DOMAIN tasks
      <4>1. k = 1 \/ k > 1
        BY TaskFacts
      <4>. QED BY <4>1, <3>1, <2>2
    <3>3. a \in 0..(b - 1) /\ base' = base
      BY <1>3, <1>5, <2>5
    <3>. QED BY <3>2, <3>3 DEF PartsInOrder
  <2>. QED BY <2>3, <2>4, <2>5
<1>6. ASSUME NEW a \in DOMAIN base, NEW b \in DOMAIN base, a < b,
             \A k \in DOMAIN tasks' : ~Covers(tasks'[k], a, b)
      PROVE  InOrder(base[a], base[b])'
  BY <1>5, <1>6 DEF InOrder
<1>7. \A b \in DOMAIN base' : \A a \in 0..(b - 1) :
         (\A k \in DOMAIN tasks' : ~Covers(tasks'[k], a, b)) => InOrder(base[a], base[b])'
  <2> TAKE b \in DOMAIN base'
  <2> TAKE a \in 0..(b - 1)
  <2>1. a \in DOMAIN base /\ b \in DOMAIN base /\ a < b
    BY <1>3
  <2>. QED BY <2>1, <1>6
<1>. QED BY <1>4, <1>7 DEF PartsInOrder

\* A step of the first call that is not isort().
LEMMA StepLemma ==
    ASSUME SortsInv, tasks # <<>>, Head(tasks).call # "isort",
           NEW l \in Int, NEW r \in Int, l = Head(tasks).left, r = Head(tasks).right,
           base' \in [0..(nmemb - 1) -> Products], function' = function,
           base' = base \/ (l <= r /\ Rearranged(base', base, l, r)),
           NEW p, Replaces(p, l, r), tasks' = p \o Tail(tasks),
           \A j \in DOMAIN p : \A m \in DOMAIN base : Untouched(p[j], m)',
           \A a, b \in l..r : a < b /\ (\A j \in DOMAIN p : ~Covers(p[j], a, b))
                => InOrder(base'[a], base'[b]),
           loop' \in [i : Nat, j : Nat, tmp : Seq(Products)], LoopInv'
    PROVE  SortsInv'
<1>1. SortsType /\ TaskInv /\ OrderInv /\ UntouchedInv /\ PartsInOrder
  BY DEF SortsInv
<1>2. tasks' \in Seq(Tasks) /\ TaskInv' /\ OrderInv' /\ UntouchedInv'
  BY <1>1, StackLemma
<1>3. PartsInOrder'
  BY <1>1, OrderLemma
<1>4. nmemb' = nmemb
  BY <1>1, SameSize
<1>5. SortsType'
  BY <1>1, <1>2, <1>4 DEF SortsType
<1>. QED BY <1>2, <1>3, <1>5 DEF SortsInv

\* After a call has ended the next one has not begun its loop.
LEMMA NextBegins ==
    ASSUME SortsType, TaskInv, tasks # <<>>, tasks' = Tail(tasks)
    PROVE  LoopInv'
<1>1. tasks \in Seq(Tasks)
  BY DEF SortsType
<1>2. CASE tasks' # <<>>
  <2>1. /\ Tail(tasks) \in Seq(Tasks) /\ DOMAIN Tail(tasks) = 1..(Len(tasks) - 1)
        /\ \A k \in DOMAIN Tail(tasks) : Tail(tasks)[k] = tasks[k + 1] /\ k + 1 \in DOMAIN tasks
    BY <1>1, TailLemma
  <2>2. Head(tasks') = tasks'[1] /\ 1 \in DOMAIN Tail(tasks)
    BY <2>1, <1>2, TailLemma
  <2>3. Head(tasks') = tasks[2] /\ 2 \in DOMAIN tasks
    BY <2>1, <2>2
  <2>4. tasks[2].call \notin {"sort", "merging"}
    BY <2>3 DEF TaskInv, Fits
  <2>. QED BY <2>3, <2>4 DEF LoopInv, Calls
<1>. QED BY <1>2 DEF LoopInv, Calls

LEMMA HeadFacts ==
    ASSUME SortsInv, tasks # <<>>
    PROVE  /\ SortsType /\ TaskInv /\ OrderInv /\ UntouchedInv /\ LoopInv /\ PartsInOrder
           /\ tasks \in Seq(Tasks) /\ 1 \in DOMAIN tasks /\ Head(tasks) = tasks[1]
           /\ Head(tasks) \in Tasks /\ Fits(Head(tasks), 1)
           /\ Head(tasks).left \in Nat /\ Head(tasks).mid \in Nat /\ Head(tasks).right \in Int
           /\ Head(tasks).left <= nmemb /\ Head(tasks).right < nmemb
           /\ loop \in [i : Nat, j : Nat, tmp : Seq(Products)]
<1>1. SortsType /\ TaskInv /\ OrderInv /\ UntouchedInv /\ LoopInv /\ PartsInOrder
  BY DEF SortsInv
<1>2. tasks \in Seq(Tasks) /\ loop \in [i : Nat, j : Nat, tmp : Seq(Products)]
  BY <1>1 DEF SortsType
<1>3. 1 \in DOMAIN tasks /\ Head(tasks) = tasks[1] /\ Head(tasks) \in Tasks
  BY <1>2, TailLemma
<1>4. Fits(Head(tasks), 1)
  BY <1>1, <1>3 DEF TaskInv
<1>. QED BY <1>1, <1>2, <1>3, <1>4, TaskFacts

LEMMA NoCalls ==
    ASSUME NEW l \in Int, NEW r \in Int, NEW q \in Seq(Tasks)
    PROVE  Replaces(<<>>, l, r) /\ DOMAIN <<>> = {} /\ <<>> \o q = q
  BY DEF Replaces

LEMMA OneCall ==
    ASSUME NEW x \in Tasks, NEW l \in Int, NEW r \in Int,
           x.call # "isort", Fits(x, 1), l <= x.left, x.right <= r
    PROVE  /\ Replaces(<<x>>, l, r) /\ \A j \in DOMAIN <<x>> : <<x>>[j] = x
           /\ 1 \in DOMAIN <<x>>
  BY DEF Replaces

LEMMA PartOfOneStep ==
    ASSUME SortsInv, PartOfOne
    PROVE  SortsInv'
<1>1. tasks # <<>> /\ Head(tasks).call # "isort" /\ tasks' = Tail(tasks)
      /\ Head(tasks).left >= Head(tasks).right
      /\ base' = base /\ loop' = loop /\ function' = function
  BY DEF PartOfOne
<1> DEFINE l == Head(tasks).left
           r == Head(tasks).right
<1>2. l \in Int /\ r \in Int /\ tasks \in Seq(Tasks) /\ Tail(tasks) \in Seq(Tasks)
  BY <1>1, HeadFacts, TailLemma
<1>3. LoopInv'
  BY <1>1, HeadFacts, NextBegins
<1>4. base' \in [0..(nmemb - 1) -> Products]
  BY <1>1, HeadFacts, BaseFacts
<1>5. Replaces(<<>>, l, r) /\ DOMAIN <<>> = {} /\ tasks' = <<>> \o Tail(tasks)
  BY <1>1, <1>2, NoCalls
<1>6. \A a, b \in l..r : ~(a < b)
  BY <1>1, <1>2
<1>7. loop' \in [i : Nat, j : Nat, tmp : Seq(Products)]
  BY <1>1, HeadFacts
<1>. QED BY <1>1, <1>2, <1>3, <1>4, <1>5, <1>6, <1>7, StepLemma

\* The pivot of any type is in the part, and putting it to the left end moves
\* no element of another part.
LEMMA QuickStep ==
    ASSUME SortsInv, Quick
    PROVE  SortsInv'
<1> SUFFICES ASSUME NEW l, NEW r, l = Head(tasks).left, r = Head(tasks).right PROVE SortsInv'
  OBVIOUS
<1> DEFINE x == Task("sort", l, 0, r)
<1>1. tasks # <<>> /\ Head(tasks).call = "quick"
  BY DEF Quick, Calls
<1>2. /\ SortsType /\ TaskInv /\ tasks \in Seq(Tasks)
      /\ l \in Nat /\ r \in Int /\ l <= nmemb /\ r < nmemb
      /\ loop \in [i : Nat, j : Nat, tmp : Seq(Products)]
  BY <1>1, HeadFacts
<1>3. /\ l < r /\ loop' = [loop EXCEPT !.i = l, !.j = r + 1] /\ tasks' = <<x>> \o Tail(tasks)
      /\ function' = function
  BY DEF Quick
<1>4. function \in PivotTypes
  BY <1>1, HeadFacts DEF Fits
<1>5. /\ nmemb - 1 \in Nat /\ base \in [0..(nmemb - 1) -> Products]
      /\ l \in 0..(nmemb - 1) /\ r \in 0..(nmemb - 1) /\ l \in l..r
  BY <1>2, <1>3, BaseFacts
<1> DEFINE y == IF function = "MEDIANOF3" THEN medofthree(base, l, (l + r) \div 2, r) ELSE base
<1>6. PICK pivot \in l..r :
         /\ base' = swap(IF function = "MEDIANOF3" THEN medofthree(base, l, pivot, r) ELSE base, l, pivot)
         /\ function = "MEDIANOF3" => pivot = (l + r) \div 2
  <2>1. l \in l..r /\ r \in l..r /\ (l + r) \div 2 \in l..r
    BY <1>2, <1>3
  <2>2. CASE function = "FIRST"
    BY <2>1, <2>2 DEF Quick
  <2>3. CASE function = "LAST"
    BY <2>1, <2>3 DEF Quick
  <2>4. CASE function = "RANDOM"
    BY <2>4 DEF Quick
  <2>5. CASE function = "MEDIANOF3"
    BY <2>1, <2>5 DEF Quick
  <2>. QED BY <1>4, <2>2, <2>3, <2>4, <2>5 DEF PivotTypes
<1>7. y \in [0..(nmemb - 1) -> Products] /\ Rearranged(y, base, l, r)
  <2>1. function = "MEDIANOF3" => (l + r) \div 2 \in l..r
    BY <1>6
  <2>2. CASE function = "MEDIANOF3"
    BY <1>5, <2>1, <2>2, MedianLemma
  <2>3. CASE function # "MEDIANOF3"
    BY <1>2, <1>5, <2>3, RearrangedSame
  <2>. QED BY <2>2, <2>3
<1>8. base' = swap(y, l, pivot)
  BY <1>6
<1> HIDE DEF y
<1>9. base' \in [0..(nmemb - 1) -> Products] /\ Rearranged(base', y, l, r)
  BY <1>5, <1>7, <1>8, SwapLemma
<1>10. Rearranged(base', base, l, r)
  BY <1>2, <1>7, <1>9, RearrangedTransitive
<1>11. x \in Tasks /\ x.call = "sort" /\ x.left = l /\ x.right = r
  BY <1>2 DEF Task, Tasks
<1>12. Fits(x, 1)
  BY <1>2, <1>3, <1>4, <1>11 DEF Fits, Merges
<1> HIDE DEF x
<1>13. /\ Replaces(<<x>>, l, r) /\ \A j \in DOMAIN <<x>> : <<x>>[j] = x
       /\ 1 \in DOMAIN <<x>>
  <2>1. l \in Int /\ r \in Int /\ l <= x.left /\ x.right <= r /\ x.call # "isort"
    BY <1>2, <1>11
  <2>. QED BY <1>11, <1>12, <2>1, OneCall
<1>14. LoopInv'
  <2>1. tasks' # <<>> /\ Head(tasks') = x
    BY <1>2, <1>3, <1>11, TailLemma
  <2>2. loop'.i = l /\ loop'.j = r + 1
    BY <1>2, <1>3
  <2>3. SortLoop(x)'
    <3>1. x.left <= loop'.i /\ loop'.i < loop'.j /\ loop'.j <= x.right + 1
      BY <1>2, <1>3, <1>11, <2>2
    <3>2. \A m : m \notin (x.left + 1)..loop'.i /\ m \notin loop'.j..x.right
      BY <1>2, <1>3, <1>11, <2>2
    <3>. QED BY <3>1, <3>2 DEF SortLoop
  <2>4. SortLoop(Head(tasks))' /\ ~Calls("merging")'
    BY <2>1, <2>3, <1>11 DEF Calls, SortLoop
  <2>. QED BY <2>4 DEF LoopInv
<1>15. \A j \in DOMAIN <<x>> : \A m \in DOMAIN base : Untouched(<<x>>[j], m)'
  BY <1>11, <1>13 DEF Untouched, Merges
<1>16. \A a, b \in l..r : Covers(x, a, b)
  BY <1>2, <1>11 DEF Covers
<1>17. loop' \in [i : Nat, j : Nat, tmp : Seq(Products)]
  <2>1. loop' = [i |-> l, j |-> r + 1, tmp |-> loop.tmp] /\ loop.tmp \in Seq(Products)
    BY <1>2, <1>3
  <2>2. l \in Nat /\ r + 1 \in Nat
    BY <1>2, <1>3
  <2>. QED BY <2>1, <2>2
<1>18. /\ l \in Int /\ r \in Int /\ l <= r /\ Head(tasks).call # "isort"
       /\ \A a, b \in l..r : ~(\A j \in DOMAIN <<x>> : ~Covers(<<x>>[j], a, b))
  BY <1>1, <1>2, <1>3, <1>13, <1>16
<1>19. \A a, b \in l..r : a < b /\ (\A j \in DOMAIN <<x>> : ~Covers(<<x>>[j], a, b))
            => InOrder(base'[a], base'[b])
  BY <1>18
<1>20. base' = base \/ (l <= r /\ Rearranged(base', base, l, r))
  BY <1>10, <1>18
<1>21. base' \in [0..(nmemb - 1) -> Products] /\ function' = function /\ tasks' = <<x>> \o Tail(tasks)
  BY <1>3, <1>9
<1>. QED BY <1>1, <1>18, <1>21, <1>20, <1>13, <1>14, <1>15, <1>17, <1>19, StepLemma

LEMMA TwoCalls ==
    ASSUME NEW x \in Tasks, NEW y \in Tasks, NEW l \in Int, NEW r \in Int,
           x.call # "isort", Fits(x, 1), l <= x.left, x.right <= r,
           y.call # "isort", Fits(y, 2), l <= y.left, y.right <= r, Before(x, y)
    PROVE  /\ Replaces(<<x, y>>, l, r) /\ \A j \in DOMAIN <<x, y>> : <<x, y>>[j] \in {x, y}
           /\ 1 \in DOMAIN <<x, y>> /\ 2 \in DOMAIN <<x, y>>
           /\ <<x, y>>[1] = x /\ <<x, y>>[2] = y
<1> DEFINE p == <<x, y>>
<1>1. p \in Seq(Tasks) /\ DOMAIN p = 1..2 /\ p[1] = x /\ p[2] = y
  OBVIOUS
<1> HIDE DEF p
<1>2. \A j \in DOMAIN p : j = 1 \/ j = 2
  BY <1>1
<1>3. Replaces(p, l, r)
  <2>1. \A j \in DOMAIN p : p[j].call # "isort" /\ Fits(p[j], j) /\ l <= p[j].left /\ p[j].right <= r
    BY <1>1, <1>2
  <2>2. \A j, k \in DOMAIN p : j < k => Before(p[j], p[k])
    BY <1>1, <1>2
  <2>. QED BY <1>1, <2>1, <2>2 DEF Replaces
<1>4. \A j \in DOMAIN p : p[j] \in {x, y}
  BY <1>1, <1>2
<1>5. 1 \in DOMAIN p /\ 2 \in DOMAIN p
  BY <1>1
<1>. QED BY <1>1, <1>3, <1>4, <1>5 DEF p

\* What the pivot of sort() has on its two sides after a round, i and j being
\* where that has stopped.
Sides(l, r, i, j) ==
    /\ \A m \in (l + 1)..(i - 1) : compareProducts(base[m], base[l]) <= 0
    /\ \A m \in (j + 1)..r : compareProducts(base[l], base[m]) <= 0
    /\ l < j => compareProducts(base[j], base[l]) <= 0
    /\ i < r => compareProducts(base[l], base[i]) <= 0

LEMMA SidesLemma ==
    ASSUME SortsInv, Calls("sort"), NEW l, NEW r, l = Head(tasks).left, r = Head(tasks).right,
           NEW i \in (loop.i + 1)..r, NEW j \in l..(loop.j - 1),
           i < r => compareProducts(base[l], base[i]) <= 0,
           \A k \in (loop.i + 1)..(i - 1) : compareProducts(base[l], base[k]) > 0,
           l < j => compareProducts(base[l], base[j]) >= 0,
           \A k \in (j + 1)..(loop.j - 1) : compareProducts(base[l], base[k]) < 0
    PROVE  /\ l \in Nat /\ r \in Nat /\ i \in Nat /\ j \in Nat
           /\ l < i /\ i <= r /\ l <= j /\ j <= r /\ r < nmemb
           /\ Sides(l, r, i, j)
<1>1. tasks # <<>> /\ Head(tasks).call = "sort"
  BY DEF Calls
<1>2. /\ SortsType /\ LoopInv /\ l \in Nat /\ r \in Int /\ r < nmemb
      /\ loop.i \in Nat /\ loop.j \in Nat
  BY <1>1, HeadFacts
<1>3. /\ l <= loop.i /\ loop.i < loop.j /\ loop.j <= r + 1
      /\ \A m \in (l + 1)..loop.i : compareProducts(base[m], base[l]) <= 0
      /\ \A m \in loop.j..r : compareProducts(base[l], base[m]) <= 0
  BY <1>2 DEF LoopInv, SortLoop
<1>4. /\ i \in Nat /\ j \in Nat /\ r \in Nat
      /\ l < i /\ i <= r /\ l <= j /\ j <= r
  <2>1. loop.i \in Nat /\ loop.j \in Nat /\ l \in Nat /\ r \in Int
    BY <1>2
  <2>2. l <= loop.i /\ loop.i < loop.j /\ loop.j <= r + 1
    BY <1>3
  <2>. QED BY <2>1, <2>2
<1>5. \A m \in l..r : base[m] \in Products
  <2>1. TAKE m \in l..r
  <2>2. nmemb \in Nat /\ \A k \in 0..(nmemb - 1) : base[k] \in Products
    BY <1>2, BaseFacts
  <2>3. m \in 0..(nmemb - 1)
    <3>1. nmemb \in Nat /\ r < nmemb /\ r \in Nat /\ l \in Nat
      BY <2>2, <1>2, <1>4
    <3>. QED BY <3>1
  <2>. QED BY <2>2, <2>3
<1>6. \A m \in l..r : /\ compareProducts(base[m], base[l]) \in {-1, 0, 1}
                      /\ compareProducts(base[l], base[m]) \in {-1, 0, 1}
                      /\ compareProducts(base[l], base[m]) > 0 <=> compareProducts(base[m], base[l]) < 0
                      /\ compareProducts(base[m], base[l]) > 0 <=> compareProducts(base[l], base[m]) < 0
  <2>1. l \in l..r
    BY <1>2, <1>4
  <2>. QED BY <1>5, <2>1, CompareLemma
<1>7. ASSUME NEW m \in (l + 1)..(i - 1) PROVE compareProducts(base[m], base[l]) <= 0
  <2>1. m \in l..r /\ (m \in (l + 1)..loop.i \/ m \in (loop.i + 1)..(i - 1))
    BY <1>2, <1>3, <1>4
  <2>. QED BY <1>3, <1>6, <2>1
<1>8. ASSUME NEW m \in (j + 1)..r PROVE compareProducts(base[l], base[m]) <= 0
  <2>1. m \in l..r /\ (m \in loop.j..r \/ m \in (j + 1)..(loop.j - 1))
    BY <1>2, <1>3, <1>4
  <2>. QED BY <1>3, <1>6, <2>1
<1>9. l < j => compareProducts(base[j], base[l]) <= 0
  BY <1>2, <1>4, <1>6
<1>. QED BY <1>2, <1>4, <1>7, <1>8, <1>9 DEF Sides

\* Once i and j have met, the pivot gets between the two parts.
LEMMA PivotPlaced ==
    ASSUME SortsInv, function \in PivotTypes, function' = function,
           NEW l \in Nat, NEW r \in Nat, NEW i \in Nat, NEW j \in Nat,
           l < i, i <= r, l <= j, j <= r, r < nmemb, j <= i, Sides(l, r, i, j),
           base' = swap(base, l, j), NEW a \in l..j, NEW b \in j..r
    PROVE  InOrder(base'[a], base'[b])
<1>1. /\ nmemb - 1 \in Nat /\ base \in [0..(nmemb - 1) -> Products]
      /\ l \in 0..(nmemb - 1) /\ r \in 0..(nmemb - 1) /\ l \in l..r /\ j \in l..r
      /\ l..r \subseteq 0..(nmemb - 1)
  BY BaseFacts DEF SortsInv
<1>2. \A m \in l..r : base[m] \in Products
  BY <1>1
<1>3. /\ base'[l] = base[j] /\ base'[j] = base[l]
      /\ \A k \in 0..(nmemb - 1) : k # l /\ k # j => base'[k] = base[k]
  BY <1>1, SwapLemma
<1>4. \A m \in l..r : base'[m] \in Products
  <2> TAKE m \in l..r
  <2>. QED BY <1>1, <1>2, <1>3
<1>5. compareProducts(base[l], base[l]) = 0
  BY <1>1, <1>2, CompareLemma
<1>6. compareProducts(base'[a], base[l]) <= 0
  <2>1. CASE a = j
    BY <2>1, <1>3, <1>5
  <2>2. CASE a # j /\ a = l
    BY <2>2, <1>3 DEF Sides
  <2>3. CASE a # j /\ a # l
    <3>1. a \in (l + 1)..(i - 1) /\ a \in 0..(nmemb - 1)
      BY <2>3, <1>1
    <3>. QED BY <3>1, <2>3, <1>3 DEF Sides
  <2>. QED BY <2>1, <2>2, <2>3
<1>7. compareProducts(base[l], base'[b]) <= 0
  <2>1. CASE b = j
    BY <2>1, <1>3, <1>5
  <2>2. CASE b # j
    <3>1. b \in (j + 1)..r /\ b \in 0..(nmemb - 1) /\ b # l
      BY <2>2, <1>1
    <3>. QED BY <3>1, <2>2, <1>3 DEF Sides
  <2>. QED BY <2>1, <2>2
<1>8. base'[a] \in Products /\ base'[b] \in Products /\ base[l] \in Products
  <2>1. a \in l..r /\ b \in l..r
    OBVIOUS
  <2>. QED BY <2>1, <1>1, <1>2, <1>4
<1>9. compareProducts(base'[a], base'[b]) <= 0
  BY <1>6, <1>7, <1>8, CompareLemma
<1>. QED BY <1>9 DEF InOrder

\* The round that ends sort().
LEMMA LastRound ==
    ASSUME SortsInv, Calls("sort"), function' = function,
           NEW l, NEW r, l = Head(tasks).left, r = Head(tasks).right,
           NEW i, NEW j, i \in Nat, j \in Nat, l \in Nat, r \in Nat,
           l < i, i <= r, l <= j, j <= r, r < nmemb, j <= i, Sides(l, r, i, j),
           base' = swap(base, l, j), loop' = [loop EXCEPT !.i = i, !.j = j],
           tasks' = <<Task("quick", l, 0, j - 1), Task("quick", j + 1, 0, r)>> \o Tail(tasks)
    PROVE  SortsInv'
<1> DEFINE x == Task("quick", l, 0, j - 1)
           y == Task("quick", j + 1, 0, r)
           p == <<x, y>>
<1>1. tasks # <<>> /\ Head(tasks).call = "sort"
  BY DEF Calls
<1>2. /\ SortsType /\ tasks \in Seq(Tasks) /\ function \in PivotTypes
      /\ loop \in [i : Nat, j : Nat, tmp : Seq(Products)]
  BY <1>1, HeadFacts DEF Fits
<1>3. /\ nmemb - 1 \in Nat /\ base \in [0..(nmemb - 1) -> Products]
      /\ l \in 0..(nmemb - 1) /\ r \in 0..(nmemb - 1) /\ l \in l..r /\ j \in l..r
  <2>1. nmemb \in Nat /\ nmemb - 1 \in Nat /\ base \in [0..(nmemb - 1) -> Products]
    BY <1>2, BaseFacts
  <2>2. /\ l \in 0..(nmemb - 1) /\ r \in 0..(nmemb - 1) /\ l \in l..r /\ j \in l..r
    BY <2>1
  <2>. QED BY <2>1, <2>2
<1>4. base' \in [0..(nmemb - 1) -> Products] /\ Rearranged(base', base, l, r)
  BY <1>3, SwapLemma
<1>5. /\ x \in Tasks /\ x.call = "quick" /\ x.left = l /\ x.right = j - 1
      /\ y \in Tasks /\ y.call = "quick" /\ y.left = j + 1 /\ y.right = r
  BY DEF Task, Tasks
<1>6. tasks' = <<x, y>> \o Tail(tasks)
  OBVIOUS
<1> HIDE DEF x, y
<1>7. Fits(x, 1) /\ Fits(y, 2) /\ Before(x, y)
  <2>1. nmemb \in Nat
    BY <1>2, BaseFacts
  <2>1a. /\ x.left <= nmemb /\ x.right < nmemb /\ y.left <= nmemb /\ y.right < nmemb
         /\ x.right < y.left
    BY <1>5, <2>1
  <2>2. Fits(x, 1)
    BY <1>2, <1>5, <2>1a DEF Fits, Merges
  <2>3. Fits(y, 2)
    BY <1>2, <1>5, <2>1a DEF Fits, Merges
  <2>4. Before(x, y)
    BY <2>1a DEF Before
  <2>. QED BY <2>2, <2>3, <2>4
<1>8. /\ Replaces(p, l, r) /\ \A k \in DOMAIN p : p[k] \in {x, y}
      /\ 1 \in DOMAIN p /\ 2 \in DOMAIN p /\ p[1] = x /\ p[2] = y
  <2>1. /\ l \in Int /\ r \in Int /\ x.call # "isort" /\ y.call # "isort"
        /\ l <= x.left /\ x.right <= r /\ l <= y.left /\ y.right <= r
    BY <1>5
  <2>. QED BY <1>5, <1>7, <2>1, TwoCalls
<1>9. LoopInv'
  <2>1. tasks' # <<>> /\ Head(tasks') = x
    BY <1>1, <1>2, <1>5, <1>6, TailLemma
  <2>. QED BY <2>1, <1>5 DEF LoopInv, Calls
<1>10. \A k \in DOMAIN p : \A m \in DOMAIN base : Untouched(p[k], m)'
  <2>1. \A k \in DOMAIN p : p[k].call = "quick"
    BY <1>5, <1>8
  <2> HIDE DEF p
  <2>. QED BY <2>1 DEF Untouched, Merges
<1>11. loop' \in [i : Nat, j : Nat, tmp : Seq(Products)]
  BY <1>2
<1>12. \A a, b \in l..r : a < b /\ (\A k \in DOMAIN p : ~Covers(p[k], a, b))
            => InOrder(base'[a], base'[b])
  <2> SUFFICES ASSUME NEW a \in l..r, NEW b \in l..r, a < b, ~Covers(x, a, b), ~Covers(y, a, b)
               PROVE  InOrder(base'[a], base'[b])
    BY <1>8
  <2>1. a \in l..j /\ b \in j..r
    BY <1>5 DEF Covers
  <2>. QED BY <2>1, <1>2, PivotPlaced
<1>13. l \in Int /\ r \in Int /\ l <= r /\ Head(tasks).call # "isort"
  BY <1>1
<1>14. base' = base \/ (l <= r /\ Rearranged(base', base, l, r))
  BY <1>4, <1>13
<1>15. base' \in [0..(nmemb - 1) -> Products] /\ tasks' = p \o Tail(tasks)
  BY <1>4, <1>6
<1> HIDE DEF p
<1>. QED BY <1>1, <1>8, <1>9, <1>10, <1>11, <1>12, <1>13, <1>14, <1>15, StepLemma

\* A round after which sort() goes on.
LEMMA OtherRound ==
    ASSUME SortsInv, Calls("sort"), function' = function,
           NEW l, NEW r, l = Head(tasks).left, r = Head(tasks).right,
           NEW i, NEW j, i \in Nat, j \in Nat, l \in Nat, r \in Nat,
           l < i, i <= r, l <= j, j <= r, r < nmemb, i < j, Sides(l, r, i, j),
           base' = swap(base, i, j), loop' = [loop EXCEPT !.i = i, !.j = j], tasks' = tasks
    PROVE  SortsInv'
<1> SUFFICES ASSUME NEW x, x = Head(tasks) PROVE SortsInv'
  OBVIOUS
<1> DEFINE p == <<x>>
<1>1. tasks # <<>> /\ Head(tasks).call = "sort"
  BY DEF Calls
<1>2. /\ SortsType /\ tasks \in Seq(Tasks) /\ x \in Tasks /\ Fits(x, 1)
      /\ loop \in [i : Nat, j : Nat, tmp : Seq(Products)]
  BY <1>1, HeadFacts
<1>3. /\ nmemb - 1 \in Nat /\ base \in [0..(nmemb - 1) -> Products]
      /\ l \in 0..(nmemb - 1) /\ r \in 0..(nmemb - 1) /\ i \in l..r /\ j \in l..r
  BY <1>2, BaseFacts
<1>4. /\ base' \in [0..(nmemb - 1) -> Products] /\ Rearranged(base', base, l, r)
      /\ base'[i] = base[j] /\ base'[j] = base[i]
      /\ \A k \in 0..(nmemb - 1) : k # i /\ k # j => base'[k] = base[k]
  BY <1>3, SwapLemma
<1>5. x.call = "sort" /\ x.left = l /\ x.right = r
  BY <1>1
<1>6. tasks' = <<x>> \o Tail(tasks)
  BY <1>1, <1>2
<1>8. /\ Replaces(p, l, r) /\ \A k \in DOMAIN p : p[k] = x
      /\ 1 \in DOMAIN p
  <2>1. /\ l \in Int /\ r \in Int /\ x.call # "isort" /\ l <= x.left /\ x.right <= r
    BY <1>5
  <2>. QED BY <1>2, <1>5, <2>1, OneCall
<1>9. LoopInv'
  <2>1. loop'.i = i /\ loop'.j = j
    BY <1>2
  <2>2. base'[l] = base[l]
    BY <1>3, <1>4
  <2>3. compareProducts(base'[i], base[l]) <= 0
    BY <1>4 DEF Sides
  <2>4. compareProducts(base[l], base'[j]) <= 0
    BY <1>4 DEF Sides
  <2>5. ASSUME NEW m \in (l + 1)..i PROVE compareProducts(base'[m], base[l]) <= 0
    <3>1. CASE m = i
      BY <3>1, <2>3
    <3>2. CASE m # i
      <4>1. m \in (l + 1)..(i - 1) /\ m # j
        BY <3>2
      <4>2. m \in 0..(nmemb - 1)
        BY <4>1, <1>3
      <4>. QED BY <4>1, <4>2, <3>2, <1>4 DEF Sides
    <3>. QED BY <3>1, <3>2
  <2>6. ASSUME NEW m \in j..r PROVE compareProducts(base[l], base'[m]) <= 0
    <3>1. CASE m = j
      BY <3>1, <2>4
    <3>2. CASE m # j
      <4>1. m \in (j + 1)..r /\ m \in 0..(nmemb - 1) /\ m # i
        BY <3>2, <1>3
      <4>. QED BY <4>1, <3>2, <1>4 DEF Sides
    <3>. QED BY <3>1, <3>2
  <2>7. l <= i /\ i < j /\ j <= r + 1
    OBVIOUS
  <2>8. SortLoop(x)'
    BY <1>5, <2>1, <2>2, <2>5, <2>6, <2>7 DEF SortLoop
  <2>9. SortLoop(Head(tasks))' /\ ~Calls("merging")'
    BY <1>5, <2>8 DEF Calls, SortLoop
  <2>. QED BY <2>9 DEF LoopInv
<1>10. \A k \in DOMAIN p : \A m \in DOMAIN base : Untouched(p[k], m)'
  <2>1. \A k \in DOMAIN p : p[k].call = "sort"
    BY <1>5, <1>8
  <2> HIDE DEF p
  <2>. QED BY <2>1 DEF Untouched, Merges
<1>11. loop' \in [i : Nat, j : Nat, tmp : Seq(Products)]
  BY <1>2
<1>12. \A a, b \in l..r : a < b /\ (\A k \in DOMAIN p : ~Covers(p[k], a, b))
            => InOrder(base'[a], base'[b])
  <2>1. \A a, b \in l..r : Covers(x, a, b)
    BY <1>5 DEF Covers
  <2> HIDE DEF p
  <2>. QED BY <1>8, <2>1
<1>13. l \in Int /\ r \in Int /\ l <= r /\ Head(tasks).call # "isort"
  BY <1>1
<1>14. base' = base \/ (l <= r /\ Rearranged(base', base, l, r))
  BY <1>4, <1>13
<1>15. base' \in [0..(nmemb - 1) -> Products] /\ tasks' = p \o Tail(tasks)
  BY <1>4, <1>6
<1> HIDE DEF p
<1>. QED BY <1>1, <1>8, <1>9, <1>10, <1>11, <1>12, <1>13, <1>14, <1>15, StepLemma

LEMMA SortRoundStep ==
    ASSUME SortsInv, SortRound
    PROVE  SortsInv'
<1>1. PICK l \in {Head(tasks).left}, r \in {Head(tasks).right}, pivot \in {base[Head(tasks).left]} :
      \E i \in (loop.i + 1)..r, j \in l..(loop.j - 1) :
         /\ i < r => compareProducts(pivot, base[i]) <= 0
         /\ \A k \in (loop.i + 1)..(i - 1) : compareProducts(pivot, base[k]) > 0
         /\ l < j => compareProducts(pivot, base[j]) >= 0
         /\ \A k \in (j + 1)..(loop.j - 1) : compareProducts(pivot, base[k]) < 0
         /\ loop' = [loop EXCEPT !.i = i, !.j = j]
         /\ IF i >= j
            THEN /\ base' = swap(base, l, j)
                 /\ tasks' = <<Task("quick", l, 0, j - 1), Task("quick", j + 1, 0, r)>>
                             \o Tail(tasks)
            ELSE base' = swap(base, i, j) /\ UNCHANGED tasks
  BY Zenon DEF SortRound
<1>2. PICK i \in (loop.i + 1)..r, j \in l..(loop.j - 1) :
         /\ i < r => compareProducts(pivot, base[i]) <= 0
         /\ \A k \in (loop.i + 1)..(i - 1) : compareProducts(pivot, base[k]) > 0
         /\ l < j => compareProducts(pivot, base[j]) >= 0
         /\ \A k \in (j + 1)..(loop.j - 1) : compareProducts(pivot, base[k]) < 0
         /\ loop' = [loop EXCEPT !.i = i, !.j = j]
         /\ IF i >= j
            THEN /\ base' = swap(base, l, j)
                 /\ tasks' = <<Task("quick", l, 0, j - 1), Task("quick", j + 1, 0, r)>>
                             \o Tail(tasks)
            ELSE base' = swap(base, i, j) /\ UNCHANGED tasks
  BY <1>1, Zenon
<1>3. /\ Calls("sort") /\ function' = function
      /\ l = Head(tasks).left /\ r = Head(tasks).right /\ pivot = base[l]
  BY DEF SortRound
<1>4. /\ l \in Nat /\ r \in Nat /\ i \in Nat /\ j \in Nat
      /\ l < i /\ i <= r /\ l <= j /\ j <= r /\ r < nmemb /\ Sides(l, r, i, j)
  BY <1>2, <1>3, SidesLemma
<1>5. loop' = [loop EXCEPT !.i = i, !.j = j]
  BY <1>2
<1>6. CASE i >= j
  <2>1. base' = swap(base, l, j)
        /\ tasks' = <<Task("quick", l, 0, j - 1), Task("quick", j + 1, 0, r)>> \o Tail(tasks)
    BY <1>2, <1>6
  <2>2. j <= i
    BY <1>4, <1>6
  <2>. QED BY <1>3, <1>4, <1>5, <2>1, <2>2, LastRound, Zenon
<1>7. CASE ~(i >= j)
  <2>1. base' = swap(base, i, j) /\ tasks' = tasks
    BY <1>2, <1>7
  <2>2. i < j
    BY <1>4, <1>7
  <2>. QED BY <1>3, <1>4, <1>5, <2>1, <2>2, OtherRound, Zenon
<1>. QED BY <1>6, <1>7

(***************************************************************************)
(* msort().                                                                *)
(***************************************************************************)

LEMMA TaskType ==
    ASSUME NEW c \in {"quick", "sort", "isort"} \cup MergeCalls,
           NEW l \in Nat, NEW m \in Nat, NEW r \in Int
    PROVE  Task(c, l, m, r) \in Tasks
  BY DEF Task, Tasks

LEMMA MergeSortStep ==
    ASSUME SortsInv, MergeSort
    PROVE  SortsInv'
<1>0. /\ tasks # <<>> /\ Head(tasks).left \in Nat /\ Head(tasks).right \in Int
      /\ Head(tasks).left < Head(tasks).right
  BY HeadFacts DEF MergeSort, Calls
<1>0a. \A l \in Nat : \A r \in Int : l < r =>
           (l + r) \div 2 \in Nat /\ l <= (l + r) \div 2 /\ (l + r) \div 2 < r
  OBVIOUS
<1> SUFFICES ASSUME NEW l \in Nat, NEW r \in Int, l = Head(tasks).left, r = Head(tasks).right,
                    NEW mid \in Nat, l <= mid, mid < r,
                    tasks' = <<Task("mergesort", l, 0, mid), Task("mergesort", mid + 1, 0, r),
                               Task("merge", l, mid, r)>> \o Tail(tasks)
             PROVE SortsInv'
  BY <1>0, <1>0a DEF MergeSort
<1> DEFINE x == Task("mergesort", l, 0, mid)
           y == Task("mergesort", mid + 1, 0, r)
           z == Task("merge", l, mid, r)
           p == <<x, y, z>>
<1>1. /\ tasks # <<>> /\ Head(tasks).call = "mergesort" /\ l < r
      /\ tasks' = <<x, y, z>> \o Tail(tasks)
      /\ base' = base /\ loop' = loop /\ function' = function
  BY DEF MergeSort, Calls
<1>2. /\ SortsType /\ UntouchedInv /\ tasks \in Seq(Tasks) /\ 1 \in DOMAIN tasks
      /\ Head(tasks) = tasks[1] /\ function \notin PivotTypes
      /\ l \in Nat /\ r \in Int /\ l <= nmemb /\ r < nmemb
      /\ loop \in [i : Nat, j : Nat, tmp : Seq(Products)]
  BY <1>1, HeadFacts DEF Fits
<1>3. mid \in Nat /\ l <= mid /\ mid < r /\ nmemb \in Nat /\ mid + 1 \in Nat
  <2>1. nmemb \in Nat
    BY <1>2, BaseFacts
  <2>. QED BY <2>1
<1>4. /\ x \in Tasks /\ x.call = "mergesort" /\ x.left = l /\ x.right = mid
      /\ y \in Tasks /\ y.call = "mergesort" /\ y.left = mid + 1 /\ y.right = r
      /\ z \in Tasks /\ z.call = "merge" /\ z.left = l /\ z.right = r /\ z.mid = mid
  <2>1. /\ x.call = "mergesort" /\ x.left = l /\ x.right = mid
        /\ y.call = "mergesort" /\ y.left = mid + 1 /\ y.right = r
        /\ z.call = "merge" /\ z.left = l /\ z.right = r /\ z.mid = mid
    BY DEF Task
  <2>2. x \in Tasks
    BY TaskType DEF MergeCalls
  <2>3. y \in Tasks
    BY <1>3, TaskType DEF MergeCalls
  <2>4. z \in Tasks
    BY TaskType DEF MergeCalls, Merges
  <2>. QED BY <2>1, <2>2, <2>3, <2>4
<1>4a. /\ x.call = "mergesort" /\ x.left = l /\ x.right = mid
       /\ y.call = "mergesort" /\ y.left = mid + 1 /\ y.right = r
       /\ z.call = "merge" /\ z.left = l /\ z.right = r /\ z.mid = mid
  BY <1>4
<1>4b. l <= mid /\ mid < r
  BY <1>3
<1> HIDE DEF x, y, z
<1>5. Fits(x, 1) /\ Fits(y, 2) /\ Fits(z, 3)
  <2>1. l <= nmemb /\ mid < nmemb /\ mid + 1 <= nmemb /\ r < nmemb
    BY <1>2, <1>3
  <2>2. Fits(x, 1)
    BY <1>2, <1>4a, <2>1 DEF Fits, Merges
  <2>3. Fits(y, 2)
    BY <1>2, <1>4a, <2>1 DEF Fits, Merges
  <2>4. Fits(z, 3)
    BY <1>2, <1>4a, <1>4b, <2>1 DEF Fits, Merges
  <2>. QED BY <2>2, <2>3, <2>4
<1>6. Before(x, y) /\ Before(x, z) /\ Before(y, z)
  BY <1>4a, <1>4b DEF Before, Merges
<1>7. /\ p \in Seq(Tasks) /\ 1 \in DOMAIN p /\ 2 \in DOMAIN p /\ 3 \in DOMAIN p
      /\ p[1] = x /\ p[2] = y /\ p[3] = z /\ p # <<>> /\ Head(p) = x /\ DOMAIN p = 1..3
  BY <1>4
<1>8. tasks' = p \o Tail(tasks)
  BY <1>1
<1> HIDE DEF p
<1>9. \A k \in DOMAIN p : k = 1 \/ k = 2 \/ k = 3
  BY <1>7
<1>10. Replaces(p, l, r)
  <2>1. \A j \in DOMAIN p : p[j].call # "isort" /\ Fits(p[j], j) /\ l <= p[j].left /\ p[j].right <= r
    <3>1. /\ x.call # "isort" /\ l <= x.left /\ x.right <= r
          /\ y.call # "isort" /\ l <= y.left /\ y.right <= r
          /\ z.call # "isort" /\ l <= z.left /\ z.right <= r
      BY <1>4a, <1>4b
    <3>2. \A j \in DOMAIN p : \/ p[j] = x /\ j = 1
                              \/ p[j] = y /\ j = 2
                              \/ p[j] = z /\ j = 3
      BY <1>7, <1>9
    <3>. QED BY <1>5, <3>1, <3>2
  <2>2. \A j, k \in DOMAIN p : j < k => Before(p[j], p[k])
    <3> SUFFICES ASSUME NEW j \in DOMAIN p, NEW k \in DOMAIN p, j < k PROVE Before(p[j], p[k])
      OBVIOUS
    <3>1. \/ j = 1 /\ k = 2
          \/ j = 1 /\ k = 3
          \/ j = 2 /\ k = 3
      <4>1. (j = 1 \/ j = 2 \/ j = 3) /\ (k = 1 \/ k = 2 \/ k = 3)
        BY <1>9
      <4>. QED BY <4>1
    <3>2. CASE j = 1 /\ k = 2
      BY <3>2, <1>6, <1>7
    <3>3. CASE j = 1 /\ k = 3
      BY <3>3, <1>6, <1>7
    <3>4. CASE j = 2 /\ k = 3
      BY <3>4, <1>6, <1>7
    <3>. QED BY <3>1, <3>2, <3>3, <3>4
  <2>. QED BY <1>7, <2>1, <2>2 DEF Replaces
<1>11. \A k \in DOMAIN p : \A m \in DOMAIN base : Untouched(p[k], m)'
  <2> SUFFICES ASSUME NEW k \in DOMAIN p, NEW m \in DOMAIN base PROVE Untouched(p[k], m)
    BY <1>1 DEF Untouched
  <2>1. m \in l..r => base[m].id = m
    <3>1. Untouched(Head(tasks), m)
      BY <1>2 DEF UntouchedInv
    <3>. QED BY <3>1, <1>1 DEF Untouched
  <2>2. m \in Int
    BY <1>2, BaseFacts
  <2>3. Untouched(x, m) /\ Untouched(y, m)
    BY <1>4a, <1>4b, <2>1, <2>2 DEF Untouched, Merges
  <2>4. Untouched(z, m)
    BY <1>4a, <1>4b, <2>1, <2>2 DEF Untouched, Merges
  <2>. QED BY <1>7, <1>9, <2>3, <2>4
<1>12. \A a, b \in l..r : ~(\A k \in DOMAIN p : ~Covers(p[k], a, b))
  <2> SUFFICES ASSUME NEW a \in l..r, NEW b \in l..r PROVE Covers(x, a, b) \/ Covers(y, a, b) \/ Covers(z, a, b)
    BY <1>7
  <2>0. a \in Int /\ b \in Int /\ l <= a /\ a <= r /\ l <= b /\ b <= r
    OBVIOUS
  <2>1. CASE b <= mid
    BY <1>4a, <2>0, <2>1 DEF Covers
  <2>2. CASE mid < a
    BY <1>4a, <2>0, <2>2 DEF Covers
  <2>3. CASE ~(b <= mid) /\ ~(mid < a)
    BY <1>4a, <2>0, <2>3 DEF Covers
  <2>. QED BY <2>1, <2>2, <2>3
<1>13. LoopInv'
  <2>1. tasks' # <<>> /\ Head(tasks') = x
    BY <1>2, <1>7, <1>8, TailLemma
  <2>. QED BY <2>1, <1>4 DEF LoopInv, Calls
<1>14. l \in Int /\ r \in Int /\ Head(tasks).call # "isort"
  BY <1>1, <1>2
<1>15. base' \in [0..(nmemb - 1) -> Products]
  BY <1>1, <1>2, BaseFacts
<1>16. loop' \in [i : Nat, j : Nat, tmp : Seq(Products)]
  BY <1>1, <1>2
<1>17. \A a, b \in l..r : a < b /\ (\A k \in DOMAIN p : ~Covers(p[k], a, b))
            => InOrder(base'[a], base'[b])
  BY <1>12
<1>. QED BY <1>1, <1>8, <1>10, <1>11, <1>13, <1>14, <1>15, <1>16, <1>17, StepLemma

\* What the first call does not have before it in its part is in order.
LEMMA PartInOrder ==
    ASSUME SortsInv, tasks # <<>>, Head(tasks).call # "isort", NEW a, NEW b,
           a \in Head(tasks).left..Head(tasks).right, b \in Head(tasks).left..Head(tasks).right,
           a < b, ~Covers(Head(tasks), a, b)
    PROVE  InOrder(base[a], base[b])
<1>1. /\ SortsType /\ TaskInv /\ OrderInv /\ PartsInOrder
      /\ 1 \in DOMAIN tasks /\ Head(tasks) = tasks[1]
      /\ Head(tasks).left \in Nat /\ Head(tasks).right \in Int /\ Head(tasks).right < nmemb
      /\ a \in Int /\ b \in Int
  BY HeadFacts
<1>2. ASSUME NEW k \in DOMAIN tasks, k > 1 PROVE ~Covers(tasks[k], a, b)
  <2>1. Before(tasks[1], tasks[k]) /\ tasks[k].call # "isort" /\ tasks[k] \in Tasks
    BY <1>1, <1>2, TaskFacts DEF OrderInv, TaskInv, Fits
  <2>2. /\ tasks[k].left \in Int /\ tasks[k].mid \in Int /\ tasks[k].right \in Int
        /\ tasks[k].call \in Merges \/ tasks[k].call \in {"quick", "sort", "mergesort"}
    BY <2>1 DEF Tasks, MergeCalls
  <2>3. CASE tasks[k].call \in Merges
    <3>1. ~(a \in tasks[k].left..tasks[k].mid /\ b \in (tasks[k].mid + 1)..tasks[k].right)
      BY <1>1, <2>1, <2>2 DEF Before
    <3>. QED BY <2>3, <3>1 DEF Covers, Merges
  <2>4. CASE tasks[k].call \in {"quick", "sort", "mergesort"}
    <3>1. Head(tasks).right < tasks[k].left
      BY <1>1, <2>1, <2>4 DEF Before, Merges
    <3>2. ~(tasks[k].left <= a)
      BY <1>1, <2>2, <3>1
    <3>. QED BY <2>4, <3>2 DEF Covers
  <2>. QED BY <2>2, <2>3, <2>4
<1>3. \A k \in DOMAIN tasks : ~Covers(tasks[k], a, b)
  <2> TAKE k \in DOMAIN tasks
  <2>1. k = 1 \/ k > 1
    BY <1>1, TaskFacts
  <2>. QED BY <2>1, <1>1, <1>2
<1>4. b \in DOMAIN base /\ a \in 0..(b - 1)
  BY <1>1, BaseFacts
<1>. QED BY <1>1, <1>3, <1>4 DEF PartsInOrder

\* The two parts that are to be merged are in order, and of two equal elements
\* the one in the left part came first.
LEMMA MergeFacts ==
    ASSUME SortsInv, tasks # <<>>, Head(tasks).call \in Merges,
           NEW l, NEW mid, NEW r,
           l = Head(tasks).left, mid = Head(tasks).mid, r = Head(tasks).right
    PROVE  /\ l \in Nat /\ mid \in Nat /\ r \in Nat /\ l <= mid /\ mid < r /\ r < nmemb
           /\ l \in Int /\ r \in Int /\ l <= r /\ Head(tasks).call # "isort"
           /\ function \notin PivotTypes
           /\ \A m \in l..r : m \in DOMAIN base /\ base[m] \in Products /\ base[m].id \in Nat
           /\ \A a, b \in l..mid : a < b => InOrder(base[a], base[b])
           /\ \A a, b \in (mid + 1)..r : a < b => InOrder(base[a], base[b])
           /\ \A a \in l..mid : \A b \in (mid + 1)..r : base[a].id < base[b].id
<1>1. /\ SortsType /\ UntouchedInv /\ 1 \in DOMAIN tasks /\ Head(tasks) = tasks[1]
      /\ l \in Nat /\ mid \in Nat /\ r \in Int /\ r < nmemb /\ l <= mid /\ mid < r
      /\ Head(tasks).call # "isort" /\ function \notin PivotTypes
  BY HeadFacts DEF Fits, Merges
<1>2. r \in Nat
  BY <1>1
<1>3. \A m \in l..r : m \in DOMAIN base /\ base[m] \in Products /\ base[m].id \in Nat
  BY <1>1, BaseFacts
<1>4. \A a, b \in l..r : a < b /\ ~(a <= mid /\ mid < b) => InOrder(base[a], base[b])
  <2> SUFFICES ASSUME NEW a \in l..r, NEW b \in l..r, a < b, ~(a <= mid /\ mid < b)
               PROVE  InOrder(base[a], base[b])
    OBVIOUS
  <2>1. ~Covers(Head(tasks), a, b)
    BY <1>1 DEF Covers, Merges
  <2>. QED BY <1>1, <2>1, PartInOrder
<1>5. \A a, b \in l..mid : a < b => InOrder(base[a], base[b])
  <2> SUFFICES ASSUME NEW a \in l..mid, NEW b \in l..mid, a < b PROVE InOrder(base[a], base[b])
    OBVIOUS
  <2>1. a \in l..r /\ b \in l..r /\ ~(a <= mid /\ mid < b)
    BY <1>1
  <2>. QED BY <1>4, <2>1
<1>6. \A a, b \in (mid + 1)..r : a < b => InOrder(base[a], base[b])
  <2> SUFFICES ASSUME NEW a \in (mid + 1)..r, NEW b \in (mid + 1)..r, a < b
               PROVE  InOrder(base[a], base[b])
    OBVIOUS
  <2>1. a \in l..r /\ b \in l..r /\ ~(a <= mid /\ mid < b)
    BY <1>1
  <2>. QED BY <1>4, <2>1
<1>7. ASSUME NEW a \in l..mid, NEW b \in (mid + 1)..r PROVE base[a].id < base[b].id
  <2>1. a \in l..r /\ b \in l..r
    BY <1>1
  <2>2. Untouched(tasks[1], a) /\ Untouched(tasks[1], b)
    BY <1>1, <1>3, <2>1 DEF UntouchedInv
  <2>3. base[a].id <= mid /\ base[b].id > mid
    BY <1>1, <2>2 DEF Untouched
  <2>4. base[a].id \in Nat /\ base[b].id \in Nat /\ mid \in Nat
    BY <1>1, <1>3, <2>1
  <2>. QED BY <2>3, <2>4
<1>. QED BY <1>1, <1>2, <1>3, <1>5, <1>6, <1>7

\* Two parts in order whose middle elements are in order are in order together.
LEMMA SkipStep ==
    ASSUME SortsInv, Merge, Calls("merge"), tasks' = Tail(tasks), loop' = loop,
           compareProducts(base[Head(tasks).mid + 1], base[Head(tasks).mid]) > 0
    PROVE  SortsInv'
<1> SUFFICES ASSUME NEW l, NEW mid, NEW r, l = Head(tasks).left, mid = Head(tasks).mid,
                    r = Head(tasks).right
             PROVE SortsInv'
  OBVIOUS
<1>1. tasks # <<>> /\ Head(tasks).call \in Merges /\ base' = base /\ function' = function
  BY DEF Calls, Merges, Merge
<1>2. /\ l \in Nat /\ mid \in Nat /\ r \in Nat /\ l <= mid /\ mid < r /\ r < nmemb
      /\ l \in Int /\ r \in Int /\ l <= r /\ Head(tasks).call # "isort"
      /\ \A m \in l..r : base[m] \in Products
      /\ \A a, b \in l..mid : a < b => InOrder(base[a], base[b])
      /\ \A a, b \in (mid + 1)..r : a < b => InOrder(base[a], base[b])
  BY <1>1, MergeFacts
<1>3. InOrder(base[mid], base[mid + 1])
  <2>1. mid \in l..r /\ mid + 1 \in l..r
    BY <1>2
  <2>2. compareProducts(base[mid], base[mid + 1]) < 0 /\ compareProducts(base[mid], base[mid + 1]) \in {-1, 0, 1}
    BY <1>2, <2>1, CompareLemma
  <2>. QED BY <2>2 DEF InOrder
<1>4. ASSUME NEW a \in l..r, NEW b \in l..r, a < b PROVE InOrder(base[a], base[b])
  <2>1. CASE b <= mid
    BY <1>2, <1>4, <2>1
  <2>2. CASE mid < a
    BY <1>2, <1>4, <2>2
  <2>3. CASE a <= mid /\ mid < b
    <3>1. /\ a \in l..mid /\ mid \in l..mid /\ mid + 1 \in (mid + 1)..r /\ b \in (mid + 1)..r
          /\ mid \in l..r /\ mid + 1 \in l..r
      BY <1>2, <2>3
    <3>2. a = mid \/ InOrder(base[a], base[mid])
      BY <1>2, <2>3, <3>1
    <3>3. b = mid + 1 \/ InOrder(base[mid + 1], base[b])
      BY <1>2, <2>3, <3>1
    <3>4. InOrder(base[a], base[mid + 1])
      BY <1>2, <1>3, <3>1, <3>2, InOrderTransitive
    <3>. QED BY <1>2, <3>1, <3>3, <3>4, InOrderTransitive
  <2>. QED BY <1>2, <2>1, <2>2, <2>3
<1>5. /\ SortsType /\ TaskInv /\ tasks \in Seq(Tasks) /\ Tail(tasks) \in Seq(Tasks)
      /\ loop \in [i : Nat, j : Nat, tmp : Seq(Products)]
  BY <1>1, HeadFacts, TailLemma
<1>6. LoopInv'
  BY <1>1, <1>5, NextBegins
<1>7. base' \in [0..(nmemb - 1) -> Products]
  BY <1>1, <1>5, BaseFacts
<1>8. Replaces(<<>>, l, r) /\ DOMAIN <<>> = {} /\ tasks' = <<>> \o Tail(tasks)
  BY <1>2, <1>5, NoCalls
<1>9. \A a, b \in l..r : a < b /\ (\A k \in DOMAIN <<>> : ~Covers(<<>>[k], a, b))
            => InOrder(base'[a], base'[b])
  BY <1>1, <1>4
<1>10. loop' \in [i : Nat, j : Nat, tmp : Seq(Products)]
  BY <1>5
<1>11. \A k \in DOMAIN <<>> : \A m \in DOMAIN base : Untouched(<<>>[k], m)'
  BY <1>8
<1>. QED BY <1>1, <1>2, <1>6, <1>7, <1>8, <1>9, <1>10, <1>11, StepLemma

LEMMA MergeStep ==
    ASSUME SortsInv, Merge
    PROVE  SortsInv'
<1> SUFFICES ASSUME NEW l, NEW mid, NEW r, l = Head(tasks).left, mid = Head(tasks).mid,
                    r = Head(tasks).right
             PROVE SortsInv'
  OBVIOUS
<1> DEFINE t == Head(tasks)
<1>1. /\ tasks # <<>> /\ t.call = "merge" /\ t.call \in Merges /\ Calls("merge")
      /\ base' = base /\ function' = function
  BY DEF Merge, Calls, Merges
<1>2. \/ /\ tasks' = Tail(tasks) /\ loop' = loop
         /\ compareProducts(base[t.mid + 1], base[t.mid]) > 0
      \/ /\ tasks' = <<[t EXCEPT !.call = "merging"]>> \o Tail(tasks)
         /\ loop' = [i |-> l, j |-> mid + 1, tmp |-> <<>>]
  BY DEF Merge
<1>3. CASE tasks' = Tail(tasks) /\ loop' = loop
           /\ compareProducts(base[t.mid + 1], base[t.mid]) > 0
  BY <1>1, <1>3, SkipStep
<1>4. CASE /\ tasks' = <<[t EXCEPT !.call = "merging"]>> \o Tail(tasks)
           /\ loop' = [i |-> l, j |-> mid + 1, tmp |-> <<>>]
  <2> SUFFICES ASSUME NEW x, x = [t EXCEPT !.call = "merging"] PROVE SortsInv'
    OBVIOUS
  <2> DEFINE p == <<x>>
  <2>1. /\ l \in Nat /\ mid \in Nat /\ r \in Nat /\ l <= mid /\ mid < r /\ r < nmemb
        /\ l \in Int /\ r \in Int /\ l <= r /\ t.call # "isort"
    BY <1>1, MergeFacts
  <2>2. /\ SortsType /\ UntouchedInv /\ tasks \in Seq(Tasks) /\ t \in Tasks /\ Fits(t, 1)
        /\ 1 \in DOMAIN tasks /\ t = tasks[1]
    BY <1>1, HeadFacts
  <2>3. x \in Tasks /\ x.call = "merging" /\ x.left = l /\ x.mid = mid /\ x.right = r
    BY <2>2 DEF Tasks, MergeCalls, Merges
  <2>4. \A m \in DOMAIN base : Untouched(t, m)
    BY <2>2 DEF UntouchedInv
  <2>5. Fits(x, 1)
    BY <1>1, <2>2, <2>3 DEF Fits, Merges
  <2>6. Replaces(p, l, r) /\ (\A k \in DOMAIN p : p[k] = x) /\ 1 \in DOMAIN p
    <3>1. x.call # "isort" /\ l <= x.left /\ x.right <= r
      BY <2>1, <2>3
    <3>. QED BY <2>1, <2>3, <2>5, <3>1, OneCall
  <2>7. \A m \in DOMAIN base : Untouched(x, m)
    BY <1>1, <2>3, <2>4 DEF Untouched, Merges
  <2>8. tasks' # <<>> /\ Head(tasks') = x
    BY <1>4, <2>2, <2>3, TailLemma
  <2> HIDE DEF p
  <2>9. \A k \in DOMAIN p : \A m \in DOMAIN base : Untouched(p[k], m)'
    <3> SUFFICES ASSUME NEW m \in DOMAIN base PROVE Untouched(x, m)'
      BY <2>6 DEF Untouched
    <3>. QED BY <1>1, <2>7 DEF Untouched
  <2>10. ASSUME NEW a \in l..r, NEW b \in l..r, a < b, \A k \in DOMAIN p : ~Covers(p[k], a, b)
         PROVE  InOrder(base'[a], base'[b])
    <3>1. ~Covers(x, a, b)
      BY <2>6, <2>10
    <3>2. ~Covers(t, a, b)
      BY <1>1, <2>3, <3>1 DEF Covers
    <3>. QED BY <1>1, <2>1, <2>10, <3>2, PartInOrder
  <2>11. LoopInv'
    <3>1. loop'.i = l /\ loop'.j = mid + 1 /\ loop'.tmp = <<>>
      BY <1>4
    <3>2. Passed(x)' = {}
      BY <2>1, <2>3, <3>1 DEF Passed
    <3>3. DOMAIN loop'.tmp = {} /\ Len(loop'.tmp) = 0
      BY <3>1
    <3>4. /\ loop'.i \in x.left..(x.mid + 1) /\ loop'.j \in (x.mid + 1)..(x.right + 1)
          /\ (loop'.i - x.left) + (loop'.j - x.mid - 1) = 0
      <4>1. l \in Nat /\ mid \in Nat /\ r \in Nat /\ l <= mid /\ mid < r
        BY <2>1
      <4>2. x.left = l /\ x.mid = mid /\ x.right = r
        BY <2>3
      <4>3. loop'.i \in x.left..(x.mid + 1)
        BY <3>1, <4>1, <4>2
      <4>4. loop'.j \in (x.mid + 1)..(x.right + 1)
        BY <3>1, <4>1, <4>2
      <4>5. (loop'.i - x.left) + (loop'.j - x.mid - 1) = 0
        BY <3>1, <4>1, <4>2
      <4>. QED BY <4>3, <4>4, <4>5
    <3>5. MergeLoop(x)'
      BY <3>2, <3>3, <3>4 DEF MergeLoop, Passed
    <3>6. MergeLoop(Head(tasks))' /\ ~Calls("sort")'
      BY <2>3, <2>8, <3>5 DEF Calls, MergeLoop, Passed, Left
    <3>. QED BY <3>6 DEF LoopInv
  <2>12. base' \in [0..(nmemb - 1) -> Products]
    BY <1>1, <2>2, BaseFacts
  <2>13. loop' \in [i : Nat, j : Nat, tmp : Seq(Products)]
    BY <1>4, <2>1
  <2>14. tasks' = p \o Tail(tasks)
    BY <1>4 DEF p
  <2>15. \A a, b \in l..r : a < b /\ (\A k \in DOMAIN p : ~Covers(p[k], a, b))
            => InOrder(base'[a], base'[b])
    BY <2>10
  <2>. QED BY <1>1, <2>1, <2>6, <2>9, <2>11, <2>12, <2>13, <2>14, <2>15, StepLemma
<1>. QED BY <1>2, <1>3, <1>4

\* A round of merge() appends the next element, e, at place m.
LEMMA NextTaken ==
    ASSUME NEW S, NEW q \in Seq(S), NEW e \in S
    PROVE  /\ Append(q, e) \in Seq(S) /\ Len(Append(q, e)) = Len(q) + 1 /\ Len(q) \in Nat
           /\ DOMAIN q = 1..Len(q) /\ DOMAIN Append(q, e) = 1..(Len(q) + 1)
           /\ \A k \in 1..Len(q) : Append(q, e)[k] = q[k]
           /\ Append(q, e)[Len(q) + 1] = e
  OBVIOUS

\* What i and j have passed, and what is left, after a round.
LEMMA LeftPassed ==
    ASSUME NEW l \in Int, NEW mid \in Int, NEW r \in Int, NEW i \in Int, NEW j \in Int,
           l <= i, i <= mid, mid < j, j <= r + 1
    PROVE  /\ (l..(i + 1 - 1)) \cup ((mid + 1)..(j - 1)) = ((l..(i - 1)) \cup ((mid + 1)..(j - 1))) \cup {i}
           /\ i \in (i..mid) \cup (j..r)
           /\ ((i + 1)..mid) \cup (j..r) \subseteq (i..mid) \cup (j..r)
           /\ i + 1 \in l..(mid + 1) /\ j \in (mid + 1)..(r + 1)
           /\ (i - l) + (j - mid - 1) + 1 = (i + 1 - l) + (j - mid - 1)
  OBVIOUS

LEMMA RightPassed ==
    ASSUME NEW l \in Int, NEW mid \in Int, NEW r \in Int, NEW i \in Int, NEW j \in Int,
           l <= i, i <= mid + 1, mid < j, j <= r
    PROVE  /\ (l..(i - 1)) \cup ((mid + 1)..(j + 1 - 1)) = ((l..(i - 1)) \cup ((mid + 1)..(j - 1))) \cup {j}
           /\ j \in (i..mid) \cup (j..r)
           /\ (i..mid) \cup ((j + 1)..r) \subseteq (i..mid) \cup (j..r)
           /\ i \in l..(mid + 1) /\ j + 1 \in (mid + 1)..(r + 1)
           /\ (i - l) + (j - mid - 1) + 1 = (i - l) + (j + 1 - mid - 1)
  OBVIOUS

\* The first element of the left part, if it is not greater than that of the
\* right one, is before all that is left.
LEMMA LeftFirst ==
    ASSUME function \notin PivotTypes,
           NEW l \in Int, NEW mid \in Int, NEW r \in Int, NEW i \in Int, NEW j \in Int,
           l <= mid, mid < r, l <= i, i <= mid, mid < j,
           j > r \/ compareProducts(base[i], base[j]) <= 0,
           \A m \in l..r : base[m] \in Products,
           \A a, b \in l..mid : a < b => InOrder(base[a], base[b]),
           \A a, b \in (mid + 1)..r : a < b => InOrder(base[a], base[b]),
           \A a \in l..mid : \A b \in (mid + 1)..r : base[a].id < base[b].id,
           NEW m \in ((i + 1)..mid) \cup (j..r)
    PROVE  InOrder(base[i], base[m])
<1>1. CASE m \in (i + 1)..mid
  <2>1. i \in l..mid /\ m \in l..mid /\ i < m
    BY <1>1
  <2>. QED BY <2>1
<1>2. CASE m \in j..r
  <2>1. /\ i \in l..mid /\ j \in (mid + 1)..r /\ m \in (mid + 1)..r /\ i \in l..r /\ j \in l..r
        /\ m \in l..r /\ (m = j \/ j < m)
    BY <1>2
  <2>2. compareProducts(base[i], base[j]) <= 0
    BY <1>2
  <2>3. base[i].id < base[j].id
    BY <2>1
  <2>4. InOrder(base[i], base[j])
    BY <2>2, <2>3 DEF InOrder
  <2>5. m = j \/ InOrder(base[j], base[m])
    BY <2>1
  <2>. QED BY <2>1, <2>4, <2>5, InOrderTransitive
<1>. QED BY <1>1, <1>2

LEMMA RightFirst ==
    ASSUME NEW l \in Int, NEW mid \in Int, NEW r \in Int, NEW i \in Int, NEW j \in Int,
           l <= mid, mid < r, l <= i, mid < j, j <= r,
           i > mid \/ compareProducts(base[i], base[j]) > 0,
           \A m \in l..r : base[m] \in Products,
           \A a, b \in l..mid : a < b => InOrder(base[a], base[b]),
           \A a, b \in (mid + 1)..r : a < b => InOrder(base[a], base[b]),
           NEW m \in (i..mid) \cup ((j + 1)..r)
    PROVE  InOrder(base[j], base[m])
<1>1. CASE m \in (j + 1)..r
  <2>1. j \in (mid + 1)..r /\ m \in (mid + 1)..r /\ j < m
    BY <1>1
  <2>. QED BY <2>1
<1>2. CASE m \in i..mid
  <2>1. /\ i \in l..mid /\ m \in l..mid /\ i \in l..r /\ j \in l..r
        /\ m \in l..r /\ (m = i \/ i < m)
    BY <1>2
  <2>2. compareProducts(base[i], base[j]) > 0
    BY <1>2
  <2>3. compareProducts(base[j], base[i]) < 0 /\ compareProducts(base[j], base[i]) \in {-1, 0, 1}
    BY <2>1, <2>2, CompareLemma
  <2>4. InOrder(base[j], base[i])
    BY <2>3 DEF InOrder
  <2>5. m = i \/ InOrder(base[i], base[m])
    BY <2>1
  <2>. QED BY <2>1, <2>4, <2>5, InOrderTransitive
<1>. QED BY <1>1, <1>2

\* A round of merge() takes element m.
Advances(i, j, m) == loop' = [i |-> i, j |-> j, tmp |-> Append(loop.tmp, base[m])]

Takes(t, i, j, m) ==
    /\ i \in Nat /\ j \in Nat /\ base[m] \in Products
    /\ Advances(i, j, m)
    /\ i \in t.left..(t.mid + 1) /\ j \in (t.mid + 1)..(t.right + 1)
    /\ (loop.i - t.left) + (loop.j - t.mid - 1) + 1 = (i - t.left) + (j - t.mid - 1)
    /\ m \in Left(t) /\ Passed(t)' = Passed(t) \cup {m} /\ Left(t)' \subseteq Left(t)
    /\ \A k \in Left(t)' : InOrder(base[m], base[k])

LEMMA MergeLoopGrows ==
    ASSUME NEW t, MergeLoop(t), loop \in [i : Nat, j : Nat, tmp : Seq(Products)],
           base' = base, function' = function,
           NEW i, NEW j, NEW m, Takes(t, i, j, m)
    PROVE  MergeLoop(t)' /\ loop' \in [i : Nat, j : Nat, tmp : Seq(Products)]
<1>t. /\ i \in Nat /\ j \in Nat /\ base[m] \in Products
      /\ Advances(i, j, m)
      /\ i \in t.left..(t.mid + 1) /\ j \in (t.mid + 1)..(t.right + 1)
      /\ (loop.i - t.left) + (loop.j - t.mid - 1) + 1 = (i - t.left) + (j - t.mid - 1)
      /\ m \in Left(t) /\ Passed(t)' = Passed(t) \cup {m} /\ Left(t)' \subseteq Left(t)
      /\ \A k \in Left(t)' : InOrder(base[m], base[k])
  BY DEF Takes
<1> USE <1>t
<1> DEFINE q == loop.tmp
           P == Passed(t)
           L == Left(t)
           new == Append(q, base[m])
<1>1. q \in Seq(Products) /\ loop'.tmp = new /\ loop'.i = i /\ loop'.j = j
  BY DEF Advances
<1>2. /\ Len(q) = (loop.i - t.left) + (loop.j - t.mid - 1)
      /\ \A p \in DOMAIN q : \E k \in P : q[p] = base[k]
      /\ \A k \in P : \E p \in DOMAIN q : q[p] = base[k]
      /\ \A p, s \in DOMAIN q : p < s => InOrder(q[p], q[s])
      /\ \A p \in DOMAIN q : \A k \in L : InOrder(q[p], base[k])
  BY DEF MergeLoop
<1>3. new \in Seq(Products) /\ Len(new) = Len(q) + 1
  BY <1>1, NextTaken
<1>4. Len(loop'.tmp) = (i - t.left) + (j - t.mid - 1)
  BY <1>1, <1>2, <1>3
<1> SUFFICES ASSUME NEW P2, NEW L2, P2 = Passed(t)', L2 = Left(t)'
             PROVE  MergeLoop(t)' /\ loop' \in [i : Nat, j : Nat, tmp : Seq(Products)]
  OBVIOUS
<1> HIDE DEF q, P, L, new
<1>5. m \in L /\ P2 = P \cup {m} /\ L2 \subseteq L /\ \A k \in L2 : InOrder(base[m], base[k])
  BY DEF P, L
<1>6. new = Append(q, base[m])
  BY DEF new
<1>6a. /\ Len(q) \in Nat /\ DOMAIN q = 1..Len(q) /\ DOMAIN new = 1..(Len(q) + 1)
       /\ \A p \in 1..Len(q) : new[p] = q[p]
       /\ new[Len(q) + 1] = base[m]
  BY <1>1, <1>6, NextTaken
<1>6b. \A p \in DOMAIN new : (p \in DOMAIN q /\ new[p] = q[p]) \/ (p = Len(q) + 1 /\ new[p] = base[m])
  <2> TAKE p \in DOMAIN new
  <2>1. p \in 1..Len(q) \/ p = Len(q) + 1
    BY <1>6a
  <2>. QED BY <2>1, <1>6a
<1>6c. /\ \A p \in DOMAIN q : p \in DOMAIN new /\ new[p] = q[p]
       /\ Len(q) + 1 \in DOMAIN new
  BY <1>6a
<1>6d. \A p \in DOMAIN new : \E k \in P2 : new[p] = base[k]
  BY <1>2, <1>5, <1>6b
<1>6e. \A k \in P2 : \E p \in DOMAIN new : new[p] = base[k]
  <2> SUFFICES ASSUME NEW k \in P2 PROVE \E p \in DOMAIN new : new[p] = base[k]
    OBVIOUS
  <2>1. CASE k \in P
    BY <2>1, <1>2, <1>6c
  <2>2. CASE k = m
    BY <2>2, <1>6a, <1>6c
  <2>. QED BY <2>1, <2>2, <1>5
<1>6f. ASSUME NEW p \in DOMAIN new, NEW k \in DOMAIN new, p < k PROVE InOrder(new[p], new[k])
  <2>1. p \in DOMAIN q /\ new[p] = q[p]
    BY <1>6a, <1>6f
  <2>2. CASE k \in DOMAIN q
    BY <1>2, <1>6c, <1>6f, <2>1, <2>2
  <2>3. CASE k = Len(q) + 1
    <3>1. new[k] = base[m]
      BY <2>3, <1>6a
    <3>2. InOrder(q[p], base[m])
      BY <1>2, <1>5, <2>1
    <3>. QED BY <2>1, <3>1, <3>2
  <2>. QED BY <2>2, <2>3, <1>6b
<1>7. ASSUME NEW p \in DOMAIN new, NEW k \in L2 PROVE InOrder(new[p], base[k])
  BY <1>2, <1>5, <1>6b
<1>8. MergeLoop(t)'
  <2>1. \A p, k \in DOMAIN loop'.tmp : p < k => InOrder(loop.tmp[p], loop.tmp[k])'
    BY <1>1, <1>6f DEF InOrder
  <2>2. \A p \in DOMAIN loop'.tmp : \A k \in Left(t)' : InOrder(loop.tmp[p], base[k])'
    BY <1>1, <1>7 DEF InOrder
  <2>3. /\ \A p \in DOMAIN loop'.tmp : \E k \in Passed(t)' : loop'.tmp[p] = base'[k]
        /\ \A k \in Passed(t)' : \E p \in DOMAIN loop'.tmp : loop'.tmp[p] = base'[k]
    BY <1>1, <1>6d, <1>6e
  <2>. QED BY <1>1, <1>4, <2>1, <2>2, <2>3 DEF MergeLoop
<1>9. loop' \in [i : Nat, j : Nat, tmp : Seq(Products)]
  BY <1>3, <1>6 DEF q, Advances
<1>. QED BY <1>8, <1>9

LEMMA MergeRoundStep ==
    ASSUME SortsInv, MergeRound
    PROVE  SortsInv'
<1> SUFFICES ASSUME NEW t, t = Head(tasks) PROVE SortsInv'
  OBVIOUS
<1>0. /\ tasks # <<>> /\ t.call \in Merges
      /\ t.left \in Int /\ t.mid \in Int /\ t.right \in Int /\ loop.i \in Int /\ loop.j \in Int
  <2>1. tasks # <<>> /\ t.call \in Merges
    BY DEF MergeRound, Calls, Merges
  <2>. QED BY <2>1, HeadFacts, MergeFacts
<1>a. SUFFICES ASSUME NEW l \in Int, NEW mid \in Int, NEW r \in Int, NEW i \in Int, NEW j \in Int,
                      l = t.left, mid = t.mid, r = t.right, i = loop.i, j = loop.j
               PROVE SortsInv'
  BY <1>0
<1>1. /\ tasks # <<>> /\ t.call = "merging" /\ t.call \in Merges
      /\ base' = base /\ tasks' = tasks /\ function' = function
      /\ i <= mid \/ j <= r
  BY <1>a DEF MergeRound, Calls, Merges
<1>2. loop' = IF TakesLeft(t) THEN [loop EXCEPT !.i = i + 1, !.tmp = Append(@, base[i])]
              ELSE [loop EXCEPT !.j = j + 1, !.tmp = Append(@, base[j])]
  BY <1>a DEF MergeRound
<1>3. /\ SortsType /\ TaskInv /\ OrderInv /\ UntouchedInv /\ LoopInv /\ PartsInOrder
      /\ loop \in [i : Nat, j : Nat, tmp : Seq(Products)]
  BY <1>1, HeadFacts
<1>b. loop \in [i : Nat, j : Nat, tmp : Seq(Products)]
  BY <1>3
<1>c. base' = base /\ function' = function
  BY <1>1
<1>4. i \in Nat /\ j \in Nat /\ loop = [i |-> i, j |-> j, tmp |-> loop.tmp]
  BY <1>3, <1>a
<1>5. MergeLoop(t)
  BY <1>1, <1>3 DEF LoopInv, Calls
<1>6. l <= mid /\ mid < r
  BY <1>1, <1>a, MergeFacts
<1>7. l <= i /\ i <= mid + 1 /\ mid < j /\ j <= r + 1
  <2>1. i \in l..(mid + 1) /\ j \in (mid + 1)..(r + 1)
    BY <1>5, <1>a DEF MergeLoop
  <2>. QED BY <2>1
<1>8. /\ function \notin PivotTypes
      /\ \A m \in l..r : base[m] \in Products
      /\ \A a, b \in l..mid : a < b => InOrder(base[a], base[b])
      /\ \A a, b \in (mid + 1)..r : a < b => InOrder(base[a], base[b])
      /\ \A a \in l..mid : \A b \in (mid + 1)..r : base[a].id < base[b].id
  <2>1. /\ tasks # <<>> /\ Head(tasks).call \in Merges
        /\ l = Head(tasks).left /\ mid = Head(tasks).mid /\ r = Head(tasks).right
    BY <1>1, <1>a
  <2> HIDE <1>a
  <2>. QED BY <2>1, MergeFacts
<1>9. MergeLoop(t)' /\ loop' \in [i : Nat, j : Nat, tmp : Seq(Products)]
  <2>1. CASE TakesLeft(t)
    <3>1. i <= mid /\ (j > r \/ compareProducts(base[i], base[j]) <= 0)
      BY <2>1, <1>a DEF TakesLeft
    <3>2. Advances(i + 1, j, i)
      <4>1. loop' = [loop EXCEPT !.i = i + 1, !.tmp = Append(loop.tmp, base[i])]
        BY <1>2, <2>1
      <4>2. i = loop.i /\ j = loop.j
        BY <1>a
      <4>. QED BY <1>b, <4>1, <4>2 DEF Advances
    <3>3. loop'.i = i + 1 /\ loop'.j = j
      BY <3>2 DEF Advances
    <3>4. /\ Passed(t)' = Passed(t) \cup {i} /\ i \in Left(t) /\ Left(t)' \subseteq Left(t)
          /\ Left(t)' = ((i + 1)..mid) \cup (j..r)
          /\ i + 1 \in l..(mid + 1) /\ j \in (mid + 1)..(r + 1)
          /\ (i - l) + (j - mid - 1) + 1 = (i + 1 - l) + (j - mid - 1)
      <4>1. /\ (l..(i + 1 - 1)) \cup ((mid + 1)..(j - 1)) = ((l..(i - 1)) \cup ((mid + 1)..(j - 1))) \cup {i}
            /\ i \in (i..mid) \cup (j..r)
            /\ ((i + 1)..mid) \cup (j..r) \subseteq (i..mid) \cup (j..r)
            /\ i + 1 \in l..(mid + 1) /\ j \in (mid + 1)..(r + 1)
            /\ (i - l) + (j - mid - 1) + 1 = (i + 1 - l) + (j - mid - 1)
        BY <1>6, <1>7, <3>1, LeftPassed
      <4>2. /\ Passed(t) = (l..(i - 1)) \cup ((mid + 1)..(j - 1))
            /\ Left(t) = (i..mid) \cup (j..r)
        BY <1>a DEF Passed, Left
      <4>3. /\ Passed(t)' = (l..(i + 1 - 1)) \cup ((mid + 1)..(j - 1))
            /\ Left(t)' = ((i + 1)..mid) \cup (j..r)
        BY <1>a, <3>3 DEF Passed, Left
      <4>. QED BY <4>1, <4>2, <4>3, Zenon
    <3>5. \A k \in Left(t)' : InOrder(base[i], base[k])
      BY <1>6, <1>7, <1>8, <3>1, <3>4, LeftFirst
    <3>6. i + 1 \in Nat /\ base[i] \in Products
      <4>1. i \in l..r
        BY <1>6, <1>7, <3>1
      <4>. QED BY <1>4, <1>8, <4>1
    <3>8. /\ i + 1 \in Nat /\ j \in Nat
          /\ i + 1 \in t.left..(t.mid + 1) /\ j \in (t.mid + 1)..(t.right + 1)
      BY <1>4, <1>a, <3>4, <3>6
    <3>9. (loop.i - t.left) + (loop.j - t.mid - 1) + 1 = ((i + 1) - t.left) + (j - t.mid - 1)
      BY <1>a, <3>4
    <3>10. Takes(t, i + 1, j, i)
      BY <3>2, <3>4, <3>5, <3>6, <3>8, <3>9, Zenon DEF Takes
    <3>. QED BY <1>b, <1>c, <1>5, <3>10, MergeLoopGrows
  <2>2. CASE ~TakesLeft(t)
    <3>1. j <= r /\ (i > mid \/ compareProducts(base[i], base[j]) > 0)
      <4>1. CASE i > mid
        BY <1>1, <1>6, <4>1
      <4>2. CASE ~(i > mid)
        <5>1. i <= mid /\ i \in l..r /\ (j <= r => j \in l..r)
          BY <1>6, <1>7, <4>2
        <5>2. ~(j > r) /\ ~(compareProducts(base[i], base[j]) <= 0)
          BY <2>2, <5>1, <1>a DEF TakesLeft
        <5>3. j <= r
          BY <1>6, <5>2
        <5>4. compareProducts(base[i], base[j]) \in {-1, 0, 1}
          BY <1>8, <5>1, <5>3, CompareLemma
        <5>. QED BY <5>2, <5>3, <5>4
      <4>. QED BY <4>1, <4>2
    <3>2. Advances(i, j + 1, j)
      <4>1. loop' = [loop EXCEPT !.j = j + 1, !.tmp = Append(loop.tmp, base[j])]
        BY <1>2, <2>2
      <4>2. i = loop.i /\ j = loop.j
        BY <1>a
      <4>. QED BY <1>b, <4>1, <4>2 DEF Advances
    <3>3. loop'.i = i /\ loop'.j = j + 1
      BY <3>2 DEF Advances
    <3>4. /\ Passed(t)' = Passed(t) \cup {j} /\ j \in Left(t) /\ Left(t)' \subseteq Left(t)
          /\ Left(t)' = (i..mid) \cup ((j + 1)..r)
          /\ i \in l..(mid + 1) /\ j + 1 \in (mid + 1)..(r + 1)
          /\ (i - l) + (j - mid - 1) + 1 = (i - l) + (j + 1 - mid - 1)
      <4>1. /\ (l..(i - 1)) \cup ((mid + 1)..(j + 1 - 1)) = ((l..(i - 1)) \cup ((mid + 1)..(j - 1))) \cup {j}
            /\ j \in (i..mid) \cup (j..r)
            /\ (i..mid) \cup ((j + 1)..r) \subseteq (i..mid) \cup (j..r)
            /\ i \in l..(mid + 1) /\ j + 1 \in (mid + 1)..(r + 1)
            /\ (i - l) + (j - mid - 1) + 1 = (i - l) + (j + 1 - mid - 1)
        BY <1>6, <1>7, <3>1, RightPassed
      <4>2. /\ Passed(t) = (l..(i - 1)) \cup ((mid + 1)..(j - 1))
            /\ Left(t) = (i..mid) \cup (j..r)
        BY <1>a DEF Passed, Left
      <4>3. /\ Passed(t)' = (l..(i - 1)) \cup ((mid + 1)..(j + 1 - 1))
            /\ Left(t)' = (i..mid) \cup ((j + 1)..r)
        BY <1>a, <3>3 DEF Passed, Left
      <4>. QED BY <4>1, <4>2, <4>3, Zenon
    <3>5. \A k \in Left(t)' : InOrder(base[j], base[k])
      BY <1>6, <1>7, <1>8, <3>1, <3>4, RightFirst
    <3>6. j + 1 \in Nat /\ base[j] \in Products
      <4>1. j \in l..r
        BY <1>6, <1>7, <3>1
      <4>. QED BY <1>4, <1>8, <4>1
    <3>8. /\ i \in Nat /\ j + 1 \in Nat
          /\ i \in t.left..(t.mid + 1) /\ j + 1 \in (t.mid + 1)..(t.right + 1)
      BY <1>4, <1>a, <3>4, <3>6
    <3>9. (loop.i - t.left) + (loop.j - t.mid - 1) + 1 = (i - t.left) + ((j + 1) - t.mid - 1)
      BY <1>a, <3>4
    <3>10. Takes(t, i, j + 1, j)
      BY <3>2, <3>4, <3>5, <3>6, <3>8, <3>9, Zenon DEF Takes
    <3>. QED BY <1>b, <1>c, <1>5, <3>10, MergeLoopGrows
  <2>. QED BY <2>1, <2>2
<1>10. LoopInv'
  <2>1. Head(tasks') = t
    BY <1>1
  <2>2. Calls("merging")' => MergeLoop(Head(tasks))'
    BY <1>9, <2>1 DEF MergeLoop, Passed, Left
  <2>3. ~Calls("sort")'
    BY <1>1, <2>1 DEF Calls
  <2>. QED BY <2>2, <2>3 DEF LoopInv
<1>11. TaskInv' /\ OrderInv' /\ UntouchedInv' /\ PartsInOrder'
  BY <1>1, <1>3 DEF TaskInv, OrderInv, UntouchedInv, PartsInOrder, Fits, Untouched, InOrder, nmemb
<1>12. SortsType'
  BY <1>1, <1>3, <1>9 DEF SortsType, nmemb
<1>. QED BY <1>10, <1>11, <1>12 DEF SortsInv

LEMMA CopyBackStep ==
    ASSUME SortsInv, CopyBack
    PROVE  SortsInv'
<1> SUFFICES ASSUME NEW t, t = Head(tasks), NEW l, NEW mid, NEW r,
                    l = t.left, mid = t.mid, r = t.right, NEW q, q = loop.tmp
             PROVE SortsInv'
  OBVIOUS
<1>1. /\ tasks # <<>> /\ t.call = "merging" /\ t.call \in Merges
      /\ tasks' = Tail(tasks) /\ loop' = loop /\ function' = function
      /\ loop.i > mid /\ loop.j > r
      /\ base' = [k \in DOMAIN base |-> IF k \in l..r THEN q[k - l + 1] ELSE base[k]]
  BY DEF CopyBack, Calls, Merges
<1>2. /\ SortsType /\ TaskInv /\ OrderInv /\ UntouchedInv /\ LoopInv /\ PartsInOrder
      /\ loop \in [i : Nat, j : Nat, tmp : Seq(Products)]
      /\ tasks \in Seq(Tasks) /\ Tail(tasks) \in Seq(Tasks)
  BY <1>1, HeadFacts, TailLemma
<1>3. MergeLoop(t)
  BY <1>1, <1>2 DEF LoopInv, Calls
<1>4. /\ l \in Nat /\ mid \in Nat /\ r \in Nat /\ l <= mid /\ mid < r /\ r < nmemb
      /\ l \in Int /\ r \in Int /\ l <= r /\ t.call # "isort"
      /\ \A m \in l..r : m \in DOMAIN base /\ base[m] \in Products
  BY <1>1, MergeFacts
<1>5. loop.i = mid + 1 /\ loop.j = r + 1
  <2>1. /\ loop.i \in t.left..(t.mid + 1) /\ loop.j \in (t.mid + 1)..(t.right + 1)
        /\ loop.i \in Nat /\ loop.j \in Nat
    BY <1>2, <1>3 DEF MergeLoop
  <2>2. loop.i \in l..(mid + 1) /\ loop.j \in (mid + 1)..(r + 1)
    BY <2>1
  <2>3. loop.i > mid /\ loop.j > r
    BY <1>1
  <2>4. l \in Int /\ mid \in Int /\ r \in Int
    BY <1>4
  <2>. QED BY <2>1, <2>2, <2>3, <2>4
<1>6. \A m : m \in Passed(t) <=> m \in l..r
  BY <1>4, <1>5 DEF Passed
<1>7. /\ q \in Seq(Products) /\ Len(q) = r - l + 1 /\ DOMAIN q = 1..(r - l + 1)
      /\ \A p \in DOMAIN q : \E m \in l..r : q[p] = base[m]
      /\ \A m \in l..r : \E p \in DOMAIN q : q[p] = base[m]
      /\ \A p, s \in DOMAIN q : p < s => InOrder(q[p], q[s])
  <2>1. /\ q \in Seq(Products) /\ Len(q) = (loop.i - l) + (loop.j - mid - 1)
        /\ \A p \in DOMAIN q : \E m \in Passed(t) : q[p] = base[m]
        /\ \A m \in Passed(t) : \E p \in DOMAIN q : q[p] = base[m]
        /\ \A p, s \in DOMAIN q : p < s => InOrder(q[p], q[s])
    BY <1>2, <1>3 DEF MergeLoop
  <2>2. (loop.i - l) + (loop.j - mid - 1) = r - l + 1
    BY <1>4, <1>5
  <2>3. Len(q) = r - l + 1 /\ DOMAIN q = 1..(r - l + 1)
    BY <2>1, <2>2
  <2>. QED BY <1>6, <2>1, <2>3
<1>8. DOMAIN base = 0..(nmemb - 1) /\ base \in [0..(nmemb - 1) -> Products]
  BY <1>2, BaseFacts
<1>9. \A k \in l..r : base'[k] = q[k - l + 1] /\ k - l + 1 \in DOMAIN q
  <2> SUFFICES ASSUME NEW k \in l..r PROVE base'[k] = q[k - l + 1] /\ k - l + 1 \in DOMAIN q
    OBVIOUS
  <2>1. k \in DOMAIN base
    BY <1>4
  <2>2. base'[k] = q[k - l + 1]
    BY <1>1, <2>1
  <2>3. k - l + 1 \in 1..(r - l + 1)
    BY <1>4
  <2>. QED BY <1>7, <2>2, <2>3
<1>10. \A k \in DOMAIN base : k \notin l..r => base'[k] = base[k]
  BY <1>1
<1>11. base' \in [0..(nmemb - 1) -> Products]
  <2>1. \A k \in 0..(nmemb - 1) : (IF k \in l..r THEN q[k - l + 1] ELSE base[k]) \in Products
    <3> TAKE k \in 0..(nmemb - 1)
    <3>1. CASE k \in l..r
      <4>1. k - l + 1 \in DOMAIN q
        BY <3>1, <1>9
      <4>2. q[k - l + 1] \in Products
        BY <4>1, <1>7
      <4>. QED BY <3>1, <4>2
    <3>2. CASE k \notin l..r
      BY <3>2, <1>8
    <3>. QED BY <3>1, <3>2
  <2>. QED BY <1>1, <1>8, <2>1
<1>12. Rearranged(base', base, l, r)
  <2>1. DOMAIN base' = DOMAIN base
    BY <1>1
  <2>2. ASSUME NEW k \in l..r PROVE \E m \in l..r : base'[k] = base[m]
    <3>1. base'[k] = q[k - l + 1] /\ k - l + 1 \in DOMAIN q
      BY <1>9
    <3>2. PICK m \in l..r : q[k - l + 1] = base[m]
      BY <1>7, <3>1
    <3>. QED BY <3>1, <3>2
  <2>3. ASSUME NEW m \in l..r PROVE \E k \in l..r : base'[k] = base[m]
    <3>1. PICK p \in DOMAIN q : q[p] = base[m]
      BY <1>7
    <3>2. p + l - 1 \in l..r /\ (p + l - 1) - l + 1 = p
      <4>1. p \in 1..(r - l + 1) /\ l \in Int /\ r \in Int
        BY <1>4, <1>7
      <4>. QED BY <4>1
    <3>3. base'[p + l - 1] = q[(p + l - 1) - l + 1]
      BY <1>9, <3>2
    <3>. QED BY <3>1, <3>2, <3>3
  <2>. QED BY <1>10, <2>1, <2>2, <2>3 DEF Rearranged
<1>13. ASSUME NEW a \in l..r, NEW b \in l..r, a < b PROVE InOrder(base'[a], base'[b])
  <2>1. a - l + 1 \in DOMAIN q /\ b - l + 1 \in DOMAIN q /\ a - l + 1 < b - l + 1
    BY <1>4, <1>9, <1>13
  <2>2. InOrder(q[a - l + 1], q[b - l + 1])
    BY <1>7, <2>1
  <2>. QED BY <1>9, <2>2
<1>14. Replaces(<<>>, l, r) /\ DOMAIN <<>> = {} /\ tasks' = <<>> \o Tail(tasks)
  BY <1>1, <1>2, <1>4, NoCalls
<1>15. LoopInv'
  BY <1>1, <1>2, NextBegins
<1>16. loop' \in [i : Nat, j : Nat, tmp : Seq(Products)]
  BY <1>1, <1>2
<1>17. \A a, b \in l..r : a < b /\ (\A k \in DOMAIN <<>> : ~Covers(<<>>[k], a, b))
            => InOrder(base'[a], base'[b])
  BY <1>13
<1>18. \A k \in DOMAIN <<>> : \A m \in DOMAIN base : Untouched(<<>>[k], m)'
  BY <1>14
<1>19. base' = base \/ (l <= r /\ Rearranged(base', base, l, r))
  BY <1>4, <1>12
<1>20. l = Head(tasks).left /\ r = Head(tasks).right /\ Head(tasks).call # "isort" /\ tasks # <<>>
  BY <1>1
<1>21. l \in Int /\ r \in Int /\ function' = function
  BY <1>1, <1>4
<1>. QED BY <1>11, <1>14, <1>15, <1>16, <1>17, <1>18, <1>19, <1>20, <1>21, StepLemma

(***************************************************************************)
(* isort(), which is the only call when it runs.                           *)
(***************************************************************************)

\* The only call that is left.
LEMMA OnlyCall ==
    ASSUME NEW x \in Tasks, tasks' = <<x>>, base' \in [0..(nmemb' - 1) -> Products],
           nmemb' \in Nat \ {0}, loop' \in [i : Nat, j : Nat, tmp : Seq(Products)],
           function' \in Functions, Fits(x, 1)', x.call \notin {"sort", "merging"},
           \A m \in DOMAIN base' : Untouched(x, m)',
           {base'[k].id : k \in DOMAIN base'} = DOMAIN base',
           \A b \in DOMAIN base' : \A a \in 0..(b - 1) : ~Covers(x, a, b) => InOrder(base[a], base[b])'
    PROVE  SortsInv'
<1>1. /\ tasks' \in Seq(Tasks) /\ DOMAIN tasks' = {1} /\ tasks'[1] = x /\ Head(tasks') = x
      /\ tasks' # <<>>
  OBVIOUS
<1>2. SortsType'
  BY <1>1 DEF SortsType
<1>3. TaskInv' /\ OrderInv'
  BY <1>1 DEF TaskInv, OrderInv, Fits
<1>4. UntouchedInv'
  BY <1>1 DEF UntouchedInv, Untouched
<1>5. LoopInv'
  BY <1>1 DEF LoopInv, Calls
<1>6. PartsInOrder'
  BY <1>1 DEF PartsInOrder, InOrder
<1>. QED BY <1>2, <1>3, <1>4, <1>5, <1>6 DEF SortsInv

LEMMA IsortFacts ==
    ASSUME SortsInv, Calls("isort"), NEW t, t = Head(tasks), NEW i, i = t.left
    PROVE  /\ tasks # <<>> /\ tasks = <<t>> /\ t \in Tasks /\ t.call = "isort"
           /\ i \in Nat /\ i > 0 /\ i <= nmemb /\ t.right = nmemb - 1 /\ nmemb \in Nat /\ nmemb > 0
           /\ function \notin PivotTypes /\ function \in Functions
           /\ DOMAIN base = 0..(nmemb - 1) /\ base \in [0..(nmemb - 1) -> Products]
           /\ \A m \in 0..(nmemb - 1) : base[m] \in Products /\ base[m].id \in Nat
           /\ \A m \in 0..(i - 1) : base[m].id < i
           /\ \A m \in i..(nmemb - 1) : base[m].id = m
           /\ \A b \in 0..(i - 1) : \A a \in 0..(b - 1) : InOrder(base[a], base[b])
<1>1. tasks # <<>> /\ t.call = "isort"
  BY DEF Calls
<1>2. /\ SortsType /\ UntouchedInv /\ PartsInOrder /\ tasks \in Seq(Tasks) /\ 1 \in DOMAIN tasks
      /\ t = tasks[1] /\ t \in Tasks /\ Fits(t, 1) /\ i \in Nat /\ i <= nmemb
  BY <1>1, HeadFacts
<1>3. /\ Len(tasks) = 1 /\ i > 0 /\ t.right = nmemb - 1 /\ function \notin PivotTypes
  BY <1>1, <1>2 DEF Fits
<1>4. tasks = <<t>>
  BY <1>2, <1>3
<1>5. /\ nmemb \in Nat /\ nmemb > 0 /\ DOMAIN base = 0..(nmemb - 1)
      /\ base \in [0..(nmemb - 1) -> Products]
      /\ \A m \in 0..(nmemb - 1) : base[m] \in Products /\ base[m].id \in Nat
  BY <1>2, BaseFacts
<1>6. \A m \in 0..(nmemb - 1) : IF m < i THEN base[m].id < i ELSE base[m].id = m
  BY <1>1, <1>2, <1>5 DEF UntouchedInv, Untouched
<1>7. \A m \in 0..(i - 1) : base[m].id < i
  BY <1>2, <1>5, <1>6
<1>8. \A m \in i..(nmemb - 1) : base[m].id = m
  BY <1>2, <1>5, <1>6
<1>9. ASSUME NEW b \in 0..(i - 1), NEW a \in 0..(b - 1) PROVE InOrder(base[a], base[b])
  <2>1. ~Covers(t, a, b)
    BY <1>1, <1>2 DEF Covers
  <2>2. \A k \in DOMAIN tasks : tasks[k] = t
    BY <1>4
  <2>3. \A k \in DOMAIN tasks : ~Covers(tasks[k], a, b)
    BY <2>1, <2>2
  <2>4. b \in DOMAIN base
    BY <1>2, <1>5
  <2>. QED BY <1>2, <2>3, <2>4 DEF PartsInOrder
<1>10. function \in Functions
  BY <1>2 DEF SortsType
<1>. QED BY <1>1, <1>2, <1>3, <1>4, <1>5, <1>7, <1>8, <1>9, <1>10

\* isort() puts element i to its place among those before it.
LEMMA InsertedLemma ==
    ASSUME NEW n \in Nat, NEW i \in 0..n, NEW at \in 0..i, NEW arr \in [0..n -> Products],
           NEW new, new = Inserted(arr, i, at)
    PROVE  /\ new \in [0..n -> Products] /\ Rearranged(new, arr, at, i)
           /\ new[at] = arr[i]
           /\ \A k \in (at + 1)..i : new[k] = arr[k - 1]
           /\ \A k \in 0..n : k \notin at..i => new[k] = arr[k]
<1>1. DOMAIN arr = 0..n /\ at..i \subseteq 0..n /\ i \in Int /\ at \in Int /\ at \in 0..n
  OBVIOUS
<1>2. new = [k \in DOMAIN arr |-> IF k = at THEN arr[i] ELSE IF k \in (at + 1)..i THEN arr[k - 1] ELSE arr[k]]
  BY DEF Inserted
<1>3. \A k \in 0..n : k \in (at + 1)..i => k - 1 \in 0..n
  BY <1>1
<1>4. new \in [0..n -> Products]
  BY <1>1, <1>2, <1>3
<1>5. new[at] = arr[i]
  BY <1>1, <1>2
<1>6. \A k \in (at + 1)..i : new[k] = arr[k - 1]
  BY <1>1, <1>2
<1>7. \A k \in 0..n : k \notin at..i => new[k] = arr[k]
  BY <1>1, <1>2
<1>8. ASSUME NEW k \in at..i PROVE \E m \in at..i : new[k] = arr[m]
  <2>1. CASE k = at
    BY <2>1, <1>1, <1>5
  <2>2. CASE k # at
    <3>1. k \in (at + 1)..i /\ k - 1 \in at..i
      BY <2>2, <1>1
    <3>. QED BY <3>1, <1>6
  <2>. QED BY <2>1, <2>2
<1>9. ASSUME NEW m \in at..i PROVE \E k \in at..i : new[k] = arr[m]
  <2>1. CASE m = i
    <3>1. at \in at..i
      BY <1>1
    <3>. QED BY <2>1, <3>1, <1>5
  <2>2. CASE m # i
    <3>1. m + 1 \in (at + 1)..i /\ m + 1 \in at..i /\ (m + 1) - 1 = m
      BY <2>2, <1>1
    <3>. QED BY <3>1, <1>6
  <2>. QED BY <2>1, <2>2
<1>10. DOMAIN new = DOMAIN arr
  BY <1>2
<1>11. Rearranged(new, arr, at, i)
  BY <1>1, <1>7, <1>8, <1>9, <1>10 DEF Rearranged
<1>. QED BY <1>4, <1>5, <1>6, <1>7, <1>11

LEMMA InsertStep ==
    ASSUME SortsInv, Calls("isort"), NEW t, t = Head(tasks), NEW i, i = t.left, i <= t.right,
           NEW at \in 0..i,
           \A k \in at..(i - 1) : compareProducts(base[k], base[i]) > 0,
           at > 0 => compareProducts(base[at - 1], base[i]) <= 0,
           base' = Inserted(base, i, at), tasks' = <<[t EXCEPT !.left = i + 1]>>,
           loop' = loop, function' = function
    PROVE  SortsInv'
<1>1. /\ tasks # <<>> /\ tasks = <<t>> /\ t \in Tasks /\ t.call = "isort"
      /\ i \in Nat /\ i > 0 /\ i <= nmemb /\ t.right = nmemb - 1 /\ nmemb \in Nat /\ nmemb > 0
      /\ function \notin PivotTypes /\ function \in Functions
      /\ DOMAIN base = 0..(nmemb - 1) /\ base \in [0..(nmemb - 1) -> Products]
      /\ \A m \in 0..(nmemb - 1) : base[m] \in Products /\ base[m].id \in Nat
      /\ \A m \in 0..(i - 1) : base[m].id < i
      /\ \A m \in i..(nmemb - 1) : base[m].id = m
      /\ \A b \in 0..(i - 1) : \A a \in 0..(b - 1) : InOrder(base[a], base[b])
  BY IsortFacts
<1>2. /\ SortsType /\ PartsInOrder /\ loop \in [i : Nat, j : Nat, tmp : Seq(Products)]
  BY <1>1, HeadFacts
<1>3. nmemb - 1 \in Nat /\ i \in 0..(nmemb - 1) /\ at \in Nat /\ at <= i
      /\ i \in i..(nmemb - 1) /\ base[i] \in Products /\ base[i].id = i
  <2>1. nmemb - 1 \in Nat /\ i \in 0..(nmemb - 1) /\ at \in Nat /\ at <= i /\ i \in i..(nmemb - 1)
    BY <1>1
  <2>. QED BY <1>1, <2>1
<1>4. /\ base' \in [0..(nmemb - 1) -> Products] /\ Rearranged(base', base, at, i)
      /\ base'[at] = base[i]
      /\ \A k \in (at + 1)..i : base'[k] = base[k - 1]
      /\ \A k \in 0..(nmemb - 1) : k \notin at..i => base'[k] = base[k]
  <2>1. nmemb - 1 \in Nat /\ i \in 0..(nmemb - 1) /\ base \in [0..(nmemb - 1) -> Products]
    BY <1>1, <1>3
  <2>2. base' = Inserted(base, i, at)
    OBVIOUS
  <2>3. base' \in [0..(nmemb - 1) -> Products] /\ Rearranged(base', base, at, i) /\ base'[at] = base[i]
    BY <2>1, <2>2, InsertedLemma
  <2>4. \A k \in (at + 1)..i : base'[k] = base[k - 1]
    BY <2>1, <2>2, InsertedLemma
  <2>5. \A k \in 0..(nmemb - 1) : k \notin at..i => base'[k] = base[k]
    BY <2>1, <2>2, InsertedLemma
  <2>. QED BY <2>3, <2>4, <2>5
<1>5. nmemb' = nmemb
  BY <1>2, <1>4, SameSize
<1>6. {base'[k].id : k \in DOMAIN base'} = DOMAIN base'
  <2>1. at \in Int /\ i \in Int /\ at..i \subseteq DOMAIN base
    BY <1>1, <1>3
  <2>. QED BY <1>2, <1>4, <2>1, RearrangedIds
<1> DEFINE x == [t EXCEPT !.left = i + 1]
<1>7. x \in Tasks /\ x.call = "isort" /\ x.left = i + 1 /\ x.right = nmemb - 1
  BY <1>1 DEF Tasks
<1>8. tasks' = <<x>> /\ Len(tasks') = 1
  OBVIOUS
<1> HIDE DEF x
<1>9. Fits(x, 1)'
  BY <1>1, <1>3, <1>5, <1>7, <1>8 DEF Fits, Merges, PivotTypes
\* Elements that are before i now.
<1>10. \A m \in 0..i : m # at => \E c \in 0..(i - 1) : base'[m] = base[c] /\ c = (IF m < at THEN m ELSE m - 1)
  <2> SUFFICES ASSUME NEW m \in 0..i, m # at
               PROVE  \E c \in 0..(i - 1) : base'[m] = base[c] /\ c = (IF m < at THEN m ELSE m - 1)
    OBVIOUS
  <2>1. CASE m < at
    <3>1. m \in 0..(i - 1) /\ m \in 0..(nmemb - 1) /\ m \notin at..i
      BY <2>1, <1>1, <1>3
    <3>. QED BY <2>1, <3>1, <1>4
  <2>2. CASE ~(m < at)
    <3>1. m \in (at + 1)..i /\ m - 1 \in 0..(i - 1)
      BY <2>2, <1>3
    <3>. QED BY <2>2, <3>1, <1>4
  <2>. QED BY <2>1, <2>2
<1>11. ASSUME NEW m \in 0..(nmemb - 1) PROVE IF m < i + 1 THEN base'[m].id < i + 1 ELSE base'[m].id = m
  <2>1. CASE m = at
    BY <2>1, <1>3, <1>4
  <2>2. CASE m # at /\ m <= i
    <3>1. PICK c \in 0..(i - 1) : base'[m] = base[c]
      BY <2>2, <1>3, <1>10
    <3>2. base[c].id < i /\ base[c].id \in Nat
      BY <1>1, <3>1
    <3>3. base'[m].id < i + 1
      BY <3>1, <3>2, <1>1
    <3>. QED BY <2>2, <3>3, <1>1
  <2>3. CASE ~(m <= i)
    <3>1. m \in i..(nmemb - 1) /\ m \notin at..i
      BY <2>3, <1>1
    <3>. QED BY <2>3, <3>1, <1>1, <1>4
  <2>. QED BY <2>1, <2>2, <2>3
<1>12. \A m \in DOMAIN base' : Untouched(x, m)'
  <2> SUFFICES ASSUME NEW m \in 0..(nmemb - 1) PROVE Untouched(x, m)'
    BY <1>4
  <2>. QED BY <1>7, <1>11 DEF Untouched, Merges
<1>13. ASSUME NEW b \in 0..i, NEW a \in 0..(b - 1) PROVE InOrder(base'[a], base'[b])
  <2>1. a \in 0..i /\ a \in Int /\ b \in Int /\ a < b
    <3>1. b \in Int /\ a \in Int /\ 0 <= b /\ b <= i /\ 0 <= a /\ a <= b - 1 /\ i \in Int
      BY <1>1
    <3>. QED BY <3>1
  <2>2. CASE a # at /\ b # at
    <3>1. PICK c \in 0..(i - 1) : base'[a] = base[c] /\ c = (IF a < at THEN a ELSE a - 1)
      BY <2>1, <2>2, <1>10
    <3>2. PICK d \in 0..(i - 1) : base'[b] = base[d] /\ d = (IF b < at THEN b ELSE b - 1)
      BY <2>1, <2>2, <1>10
    <3>3. c \in 0..(d - 1)
      BY <2>1, <2>2, <3>1, <3>2, <1>3
    <3>. QED BY <3>1, <3>2, <3>3, <1>1
  <2>3. CASE b = at
    <3>1. a \in 0..(at - 1) /\ at > 0 /\ at - 1 \in 0..(i - 1) /\ a \in 0..(nmemb - 1) /\ a \notin at..i
      BY <2>1, <2>3, <1>1, <1>3
    <3>2. base'[a] = base[a] /\ base'[b] = base[i]
      BY <2>3, <3>1, <1>4
    <3>3. /\ base[at - 1] \in Products /\ base[at - 1].id < i /\ base[a] \in Products
          /\ base[at - 1].id \in Nat
      BY <1>1, <3>1
    <3>4. InOrder(base[at - 1], base[i])
      BY <1>3, <3>1, <3>3 DEF InOrder
    <3>5. a = at - 1 \/ InOrder(base[a], base[at - 1])
      <4>1. a # at - 1 => a \in 0..(at - 2)
        BY <3>1, <1>3
      <4>2. at - 1 - 1 = at - 2
        BY <1>3
      <4>. QED BY <1>1, <3>1, <4>1, <4>2
    <3>. QED BY <1>3, <3>2, <3>3, <3>4, <3>5, InOrderTransitive
  <2>4. CASE a = at
    <3>1. b \in (at + 1)..i /\ b - 1 \in at..(i - 1) /\ b - 1 \in 0..(nmemb - 1)
      BY <2>1, <2>4, <1>1, <1>3
    <3>2. base'[a] = base[i] /\ base'[b] = base[b - 1] /\ base[b - 1] \in Products
      BY <2>4, <3>1, <1>1, <1>4
    <3>3. compareProducts(base[b - 1], base[i]) > 0
      BY <3>1
    <3>4. compareProducts(base[i], base[b - 1]) < 0 /\ compareProducts(base[i], base[b - 1]) \in {-1, 0, 1}
      BY <1>3, <3>2, <3>3, CompareLemma
    <3>. QED BY <3>2, <3>4 DEF InOrder
  <2>. QED BY <2>2, <2>3, <2>4
<1>14. \A b \in DOMAIN base' : \A a \in 0..(b - 1) : ~Covers(x, a, b) => InOrder(base[a], base[b])'
  <2> SUFFICES ASSUME NEW b \in 0..(nmemb - 1), NEW a \in 0..(b - 1), ~Covers(x, a, b)
               PROVE  InOrder(base[a], base[b])'
    BY <1>4
  <2>1. b \in 0..i
    BY <1>3, <1>7 DEF Covers
  <2>2. InOrder(base'[a], base'[b])
    BY <2>1, <1>13
  <2>. QED BY <2>2 DEF InOrder
<1>15. base' \in [0..(nmemb' - 1) -> Products] /\ nmemb' \in Nat \ {0}
  BY <1>1, <1>4, <1>5
<1>16. /\ loop' \in [i : Nat, j : Nat, tmp : Seq(Products)] /\ function' \in Functions
       /\ x.call \notin {"sort", "merging"}
  BY <1>1, <1>2, <1>7
<1>. QED BY <1>6, <1>7, <1>8, <1>9, <1>12, <1>14, <1>15, <1>16, OnlyCall

LEMMA InsertNextStep ==
    ASSUME SortsInv, InsertNext
    PROVE  SortsInv'
<1> SUFFICES ASSUME NEW t, t = Head(tasks), NEW i, i = t.left PROVE SortsInv'
  OBVIOUS
<1>1. Calls("isort") /\ loop' = loop /\ function' = function
  BY DEF InsertNext
<1>2. CASE i > t.right
  <2>1. base' = base /\ tasks' = Tail(tasks)
    BY <1>2 DEF InsertNext
  <2>2. /\ tasks = <<t>> /\ t.call = "isort" /\ t.right = nmemb - 1 /\ i \in Nat /\ nmemb \in Nat
        /\ DOMAIN base = 0..(nmemb - 1) /\ nmemb > 0 /\ t.right = nmemb - 1 /\ tasks # <<>>
        /\ \A b \in 0..(i - 1) : \A a \in 0..(b - 1) : InOrder(base[a], base[b])
    BY <1>1, IsortFacts
  <2>3. tasks' = <<>>
    BY <2>1, <2>2
  <2>4. SortsType /\ PartsInOrder /\ TaskInv
    BY <2>2, HeadFacts
  <2>5. SortsType'
    <3>1. tasks' \in Seq(Tasks)
      BY <2>3
    <3>2. nmemb' = nmemb
      BY <2>1 DEF nmemb
    <3>. QED BY <1>1, <2>1, <2>4, <3>1, <3>2, Zenon DEF SortsType
  <2>6. TaskInv' /\ OrderInv' /\ UntouchedInv' /\ LoopInv'
    BY <2>3 DEF TaskInv, OrderInv, UntouchedInv, LoopInv, Calls
  <2>7. ASSUME NEW b \in DOMAIN base, NEW a \in 0..(b - 1) PROVE InOrder(base[a], base[b])
    <3>1. b \in 0..(i - 1)
      BY <1>2, <2>2
    <3>. QED BY <2>2, <3>1
  <2>8. PartsInOrder'
    BY <1>1, <2>1, <2>4, <2>7 DEF PartsInOrder, InOrder
  <2>. QED BY <2>5, <2>6, <2>8 DEF SortsInv
<1>3. CASE ~(i > t.right)
  <2>1. PICK at \in 0..i : /\ \A k \in at..(i - 1) : compareProducts(base[k], base[i]) > 0
                           /\ at > 0 => compareProducts(base[at - 1], base[i]) <= 0
                           /\ base' = Inserted(base, i, at)
    BY <1>3 DEF InsertNext
  <2>2. tasks' = <<[t EXCEPT !.left = i + 1]>>
    BY <1>3 DEF InsertNext
  <2>3. i <= t.right
    BY <1>1, <1>3, IsortFacts
  <2>. QED BY <1>1, <2>1, <2>2, <2>3, InsertStep
<1>. QED BY <1>2, <1>3

(***************************************************************************)
(* The theorems.                                                           *)
(***************************************************************************)

LEMMA AgainStep ==
    ASSUME SortsInv, Again
    PROVE  SortsInv'
<1> SUFFICES ASSUME NEW x, x = First(function, nmemb) PROVE SortsInv'
  OBVIOUS
<1>1. /\ tasks = <<>> /\ function = "RANDOM" /\ function \in PivotTypes
      /\ base' = base /\ loop' = loop /\ function' = function /\ tasks' = <<x>>
  BY DEF Again, PivotTypes, nmemb
<1>2. /\ SortsType /\ PartsInOrder /\ nmemb \in Nat /\ nmemb > 0 /\ nmemb' = nmemb
      /\ base \in [0..(nmemb - 1) -> Products] /\ DOMAIN base = 0..(nmemb - 1)
      /\ loop \in [i : Nat, j : Nat, tmp : Seq(Products)] /\ function \in Functions
  BY <1>1, BaseFacts DEF SortsInv, SortsType, nmemb
<1>3. x \in Tasks /\ x.call = "quick" /\ x.left = 0 /\ x.right = nmemb - 1
  BY <1>1, <1>2 DEF First, Task, Tasks
<1>4. Fits(x, 1)'
  BY <1>1, <1>2, <1>3 DEF Fits, Merges
<1>5. \A m \in DOMAIN base' : Untouched(x, m)'
  BY <1>3 DEF Untouched, Merges
<1>6. \A b \in DOMAIN base' : \A a \in 0..(b - 1) : ~Covers(x, a, b) => InOrder(base[a], base[b])'
  BY <1>1, <1>2 DEF PartsInOrder, InOrder
<1>7. {base'[k].id : k \in DOMAIN base'} = DOMAIN base'
  BY <1>1, <1>2 DEF PartsInOrder
<1>8. base' \in [0..(nmemb' - 1) -> Products] /\ nmemb' \in Nat \ {0}
  BY <1>1, <1>2
<1>9. /\ loop' \in [i : Nat, j : Nat, tmp : Seq(Products)] /\ function' \in Functions
      /\ x.call \notin {"sort", "merging"}
  BY <1>1, <1>2, <1>3
<1>. QED BY <1>1, <1>3, <1>4, <1>5, <1>6, <1>7, <1>8, <1>9, OnlyCall

LEMMA SortsInitLemma ==
    ASSUME SortsInit
    PROVE  SortsInv
<1>1. PICK f \in Functions, arr \in Arrays : Call(f, arr)
  BY DEF SortsInit, Functions
<1>2. /\ base \in Arrays /\ function \in Functions
      /\ tasks = <<First(function, nmemb)>> /\ loop = [i |-> 0, j |-> 0, tmp |-> <<>>]
  BY <1>1 DEF Call, nmemb
<1>3. /\ nmemb \in Nat /\ nmemb > 0 /\ base \in [0..(nmemb - 1) -> Products]
      /\ DOMAIN base = 0..(nmemb - 1) /\ \A k \in DOMAIN base : base[k].id = k
  <2>1. /\ nmemb \in Nat \ {0} /\ base \in [0..(nmemb - 1) -> Products]
        /\ \A k \in DOMAIN base : base[k].id = k
    BY <1>2, ArraysAssumption DEF nmemb
  <2>. QED BY <2>1
<1> DEFINE x == First(function, nmemb)
<1>4. x \in Tasks /\ x.right = nmemb - 1 /\ x.mid = 0
      /\ \/ x.call = "quick" /\ x.left = 0 /\ function \in PivotTypes
         \/ x.call = "mergesort" /\ x.left = 0 /\ function \notin PivotTypes
         \/ x.call = "isort" /\ x.left = 1 /\ function \notin PivotTypes
  BY <1>2, <1>3 DEF First, Task, Tasks, Functions, MergeCalls
<1>5. tasks = <<x>>
  BY <1>2
<1> HIDE DEF x
<1>6. /\ tasks \in Seq(Tasks) /\ DOMAIN tasks = {1} /\ tasks[1] = x /\ Head(tasks) = x
      /\ tasks # <<>> /\ Len(tasks) = 1
  BY <1>4, <1>5
<1>7. SortsType
  <2>1. loop \in [i : Nat, j : Nat, tmp : Seq(Products)]
    BY <1>2
  <2>. QED BY <1>2, <1>3, <1>6, <2>1 DEF SortsType
<1>8. Fits(x, 1)
  BY <1>3, <1>4, <1>6 DEF Fits, Merges
<1>9. TaskInv /\ OrderInv
  BY <1>6, <1>8 DEF TaskInv, OrderInv
<1>10. UntouchedInv
  <2> SUFFICES ASSUME NEW m \in DOMAIN base PROVE Untouched(x, m)
    BY <1>6 DEF UntouchedInv
  <2>1. base[m].id = m /\ m \in Nat
    BY <1>3
  <2>. QED BY <1>4, <2>1 DEF Untouched, Merges
<1>11. LoopInv
  BY <1>4, <1>6 DEF LoopInv, Calls
<1>12. PartsInOrder
  <2>1. {base[k].id : k \in DOMAIN base} = DOMAIN base
    BY <1>3
  <2>2. ASSUME NEW b \in DOMAIN base, NEW a \in 0..(b - 1) PROVE Covers(tasks[1], a, b)
    <3>1. a \in Int /\ b \in Int /\ 0 <= a /\ 1 <= b /\ b <= nmemb - 1
      BY <1>3
    <3>. QED BY <1>3, <1>4, <1>6, <3>1 DEF Covers
  <2>. QED BY <1>6, <2>1, <2>2 DEF PartsInOrder
<1>. QED BY <1>7, <1>9, <1>10, <1>11, <1>12 DEF SortsInv

LEMMA SortsStutter ==
    ASSUME SortsInv, UNCHANGED sorting
    PROVE  SortsInv'
<1>1. /\ base' = base /\ tasks' = tasks /\ loop' = loop /\ function' = function
      /\ SortsType /\ TaskInv /\ OrderInv /\ UntouchedInv /\ LoopInv /\ PartsInOrder
  BY DEF SortsInv, sorting
<1>2. SortsType' /\ TaskInv' /\ OrderInv' /\ UntouchedInv'
  BY <1>1 DEF SortsType, TaskInv, OrderInv, UntouchedInv, Fits, Untouched, nmemb
<1>3. PartsInOrder'
  BY <1>1 DEF PartsInOrder, InOrder
<1>4. LoopInv'
  BY <1>1 DEF LoopInv, Calls, SortLoop, MergeLoop, Passed, Left, InOrder
<1>. QED BY <1>2, <1>3, <1>4 DEF SortsInv

\* Every call of quick() and msort() keeps to its part, merge() and sort() keep
\* their loop invariants, and what no call to come is about is in order.
THEOREM SortsInvariant == SortsSpec => []SortsInv
<1>1. SortsInit => SortsInv
  BY SortsInitLemma
<1>2. SortsInv /\ [SortsNext]_sorting => SortsInv'
  <2> SUFFICES ASSUME SortsInv, [SortsNext]_sorting PROVE SortsInv'
    OBVIOUS
  <2>. QED BY PartOfOneStep, QuickStep, SortRoundStep, AgainStep, MergeSortStep, MergeStep,
              MergeRoundStep, CopyBackStep, InsertNextStep, SortsStutter DEF SortsNext
<1>. QED BY <1>1, <1>2, PTL DEF SortsSpec

\* For every array and pivot, quick() and msort() lose and double no element,
\* never have to compare elements of two parts again, and the array they leave is
\* sorted: that of the merge and insertion sorts with equal elements in the
\* order they came in.
THEOREM SortedInParts == SortsSpec => []PartsInOrder
<1>1. SortsInv => PartsInOrder
  BY DEF SortsInv
<1>. QED BY <1>1, SortsInvariant, PTL

=============================================================================
