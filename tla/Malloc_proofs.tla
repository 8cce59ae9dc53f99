---------------------------- MODULE Malloc_proofs ----------------------------
(***************************************************************************)
(* Proofs about the allocator: TraceInv is an invariant of its traces.     *)
(***************************************************************************)
EXTENDS MallocInv, NatFacts, FiniteSetTheorems

-----------------------------------------------------------------------------
\* Numbers: classes of sizes, and addresses.
LEMMA ConstFacts ==
    /\ LISTSIZE \in Nat /\ LISTSIZE >= 4 /\ LISTSIZE % 2 = 0
    /\ CHUNKSIZE \in Nat /\ CHUNKSIZE % 8 = 0 /\ CHUNKSIZE >= 16
    /\ MAX_HEAP \in Nat /\ MAX_HEAP % 8 = 0 /\ MAX_HEAP >= (LISTSIZE + 4) * 4 + CHUNKSIZE
    /\ LOW \in Nat /\ LOW = 4 * LISTSIZE + 16 /\ LOW % 8 = 0 /\ Prologue = 8
  BY ListAssumption, HeapAssumption DEF LOW, Prologue, DSIZE, WSIZE

LEMMA WordFacts ==
    /\ \A w \in Words : w \in Nat /\ w % 4 = 0 /\ w < MAX_HEAP
    /\ \A w \in Nat : w % 4 = 0 /\ w < MAX_HEAP => w \in Words
<1>1. ASSUME NEW w \in Words PROVE w \in Nat /\ w % 4 = 0 /\ w < MAX_HEAP
  <2>1. PICK i \in 0..(MAX_HEAP \div 4 - 1) : w = 4 * i
    BY DEF Words, WSIZE
  <2>. QED BY <2>1, ConstFacts
<1>2. ASSUME NEW w \in Nat, w % 4 = 0, w < MAX_HEAP PROVE w \in Words
  <2>1. w \div 4 \in 0..(MAX_HEAP \div 4 - 1) /\ w = 4 * (w \div 4)
    BY <1>2, ConstFacts
  <2>. QED BY <2>1 DEF Words, WSIZE
<1>. QED BY <1>1, <1>2

\* The halvings of a size, and how many of the first are more than 1.
Halving(size) == Walk([t \in Nat |-> t \div 2], size)

LEMMA HalvingFacts ==
    ASSUME NEW size \in Nat
    PROVE  /\ Halving(size)[0] = size
           /\ \A n \in Nat : Halving(size)[n] \in Nat
           /\ \A n \in Nat : Halving(size)[n + 1] = Halving(size)[n] \div 2
<1> DEFINE half == [t \in Nat |-> t \div 2]
           S == {n \in Nat : Halving(size)[n] \in Nat}
<1>1. Halving(size)[0] = size
  BY WalkFacts DEF Halving
<1>2. \A n \in Nat : Halving(size)[n + 1] = half[Halving(size)[n]]
  BY WalkFacts DEF Halving
<1>3. \A t \in Nat : half[t] = t \div 2 /\ half[t] \in Nat
  OBVIOUS
<1> HIDE DEF half
<1>4. S = Nat
  <2>1. 0 \in S
    BY <1>1
  <2>2. ASSUME NEW n \in S PROVE n + 1 \in S
    BY <1>2, <1>3
  <2>3. S \in SUBSET Nat
    OBVIOUS
  <2> HIDE DEF S
  <2>. QED BY <2>1, <2>2, <2>3, SetInduction
<1>5. \A n \in Nat : Halving(size)[n] \in Nat
  BY <1>4
<1>. QED BY <1>1, <1>2, <1>3, <1>5

Rounds(size) == {log \in 0..(LISTSIZE - 1) : Halving(size)[log] > 1}

LEMMA RoundsFacts ==
    ASSUME NEW size \in Nat
    PROVE  /\ IsFiniteSet(Rounds(size)) /\ Cardinality(Rounds(size)) \in 0..LISTSIZE
           /\ calclass(size) = Cardinality(Rounds(size)) - 4
<1>1. IsFiniteSet(0..(LISTSIZE - 1)) /\ Cardinality(0..(LISTSIZE - 1)) = LISTSIZE
  BY FS_Interval, ConstFacts
<1>2. Rounds(size) \in SUBSET (0..(LISTSIZE - 1))
  BY DEF Rounds
<1>3. IsFiniteSet(Rounds(size)) /\ Cardinality(Rounds(size)) <= LISTSIZE
  BY <1>1, <1>2, FS_Subset
<1>4. Cardinality(Rounds(size)) \in Nat
  BY <1>3, FS_CardinalityType
<1>5. calclass(size) = Cardinality(Rounds(size)) - 4
  BY DEF calclass, Rounds, Halving
<1>. QED BY <1>3, <1>4, <1>5, ConstFacts

\* The class of a block is that of a list, and a larger size has no smaller class.
LEMMA ClassFacts ==
    ASSUME NEW size \in Nat, size >= 16
    PROVE  calclass(size) \in Classes
<1>1. 0..3 \subseteq Rounds(size)
  <2>1. /\ Halving(size)[0] = size /\ Halving(size)[0] \in Nat
        /\ Halving(size)[1] = Halving(size)[0] \div 2 /\ Halving(size)[1] \in Nat
        /\ Halving(size)[2] = Halving(size)[1] \div 2 /\ Halving(size)[2] \in Nat
        /\ Halving(size)[3] = Halving(size)[2] \div 2 /\ Halving(size)[3] \in Nat
    <3>1. 0 + 1 = 1 /\ 1 + 1 = 2 /\ 2 + 1 = 3
      OBVIOUS
    <3>. QED BY <3>1, HalvingFacts
  <2>2. /\ Halving(size)[0] > 1 /\ Halving(size)[1] > 1
        /\ Halving(size)[2] > 1 /\ Halving(size)[3] > 1
    BY <2>1
  <2>. QED BY <2>2, ConstFacts DEF Rounds
<1>2. Cardinality(0..3) = 4
  <2>1. \A n \in Nat : Cardinality(0..n) = n + 1
    BY FS_Interval
  <2>2. Cardinality(0..3) = 3 + 1
    BY <2>1, Zenon
  <2>. QED BY <2>2
<1>3. IsFiniteSet(Rounds(size)) /\ Cardinality(Rounds(size)) \in 0..LISTSIZE
  BY RoundsFacts
<1>4. Cardinality(0..3) <= Cardinality(Rounds(size))
  BY <1>1, <1>3, FS_Subset
<1>. QED BY <1>2, <1>3, <1>4, RoundsFacts, ConstFacts DEF Classes

LEMMA ClassGrows ==
    ASSUME NEW small \in Nat, NEW large \in Nat, small <= large
    PROVE  calclass(small) <= calclass(large) /\ calclass(small) \in Int /\ calclass(large) \in Int
<1> DEFINE S == {n \in Nat : Halving(small)[n] <= Halving(large)[n]}
<1>1. S = Nat
  <2>1. 0 \in S
    BY HalvingFacts
  <2>2. ASSUME NEW n \in S PROVE n + 1 \in S
    <3>1. Halving(small)[n] \in Nat /\ Halving(large)[n] \in Nat
      BY HalvingFacts
    <3>2. Halving(small)[n + 1] = Halving(small)[n] \div 2 /\ Halving(large)[n + 1] = Halving(large)[n] \div 2
      BY HalvingFacts
    <3>. QED BY <3>1, <3>2
  <2>3. S \in SUBSET Nat
    OBVIOUS
  <2> HIDE DEF S
  <2>. QED BY <2>1, <2>2, <2>3, SetInduction
<1>2. \A n \in Nat : Halving(small)[n] \in Nat /\ Halving(large)[n] \in Nat
  BY HalvingFacts
<1>3. Rounds(small) \subseteq Rounds(large)
  BY <1>1, <1>2, ConstFacts DEF Rounds
<1>4. Cardinality(Rounds(small)) <= Cardinality(Rounds(large))
  BY <1>3, RoundsFacts, FS_Subset
<1>. QED BY <1>4, RoundsFacts

LEMMA RootFacts ==
    ASSUME NEW c \in Classes
    PROVE  /\ ROOT(c) \in Words /\ ROOT(c) \in Nat /\ 8 <= ROOT(c) /\ ROOT(c) < LOW - 8
           /\ \A d \in Classes : ROOT(c) = ROOT(d) => c = d
<1>1. ROOT(c) = 8 + 4 * c /\ c \in Nat /\ c < LISTSIZE
  BY ConstFacts DEF ROOT, WSIZE, Classes
<1>2. \A d \in Classes : ROOT(d) = 8 + 4 * d /\ d \in Nat
  BY ConstFacts DEF ROOT, WSIZE, Classes
<1>. QED BY <1>1, <1>2, WordFacts, ConstFacts

-----------------------------------------------------------------------------
\* Tilings of the heap, and the words of their blocks.
LEMMA TileFacts ==
    ASSUME NEW S, NEW end, Tiles(S, end), NEW p \in DOMAIN S
    PROVE  /\ p \in Nat /\ p >= 8 /\ p % 8 = 0
           /\ S[p] \in Nat /\ S[p] >= 16 /\ S[p] % 8 = 0 /\ p + S[p] <= end
           /\ end \in Nat /\ end <= MAX_HEAP /\ end % 8 = 0 /\ end >= LOW
           /\ p # Prologue => p >= LOW
<1>1. /\ end \in Nat /\ end <= MAX_HEAP /\ end % 8 = 0
      /\ Prologue \in DOMAIN S /\ S[Prologue] = (LISTSIZE + 2) * 4 /\ Prologue = 8
  BY ConstFacts DEF Tiles, WSIZE
<1>2. \A q \in DOMAIN S : /\ q \in Nat /\ q >= 8 /\ q % 8 = 0
                          /\ S[q] \in Nat /\ S[q] >= 16 /\ S[q] % 8 = 0 /\ q + S[q] <= end
  BY <1>1 DEF Tiles
<1>3. Prologue + S[Prologue] = LOW /\ LOW <= end
  BY <1>1, <1>2, ConstFacts
<1>4. p # Prologue => Prologue + S[Prologue] <= p
  <2>1. p # Prologue => Prologue < p
    BY <1>1, <1>2
  <2>2. Prologue < p => Prologue + S[Prologue] <= p
    BY <1>1 DEF Tiles
  <2>. QED BY <2>1, <2>2
<1>. QED BY <1>1, <1>2, <1>3, <1>4

LEMMA Apart ==
    ASSUME NEW S, NEW end, Tiles(S, end), NEW p \in DOMAIN S, NEW q \in DOMAIN S, p # q
    PROVE  p + S[p] <= q \/ q + S[q] <= p
<1>1. p \in Nat /\ q \in Nat
  BY TileFacts
<1>2. p < q => p + S[p] <= q
  BY DEF Tiles
<1>3. q < p => q + S[q] <= p
  BY DEF Tiles
<1>. QED BY <1>1, <1>2, <1>3

LEMMA BlockWords ==
    ASSUME NEW S, NEW end, Tiles(S, end), NEW p \in DOMAIN S
    PROVE  /\ p - 4 \in Words /\ p \in Words /\ p + 4 \in Words /\ p + S[p] - 8 \in Words
           /\ end - 4 \in Words
<1>1. /\ p \in Nat /\ p >= 8 /\ p % 8 = 0
      /\ S[p] \in Nat /\ S[p] >= 16 /\ S[p] % 8 = 0 /\ p + S[p] <= end
      /\ end \in Nat /\ end <= MAX_HEAP /\ end % 8 = 0 /\ end >= LOW
  BY TileFacts
<1>2. p - 4 \in Nat /\ (p - 4) % 4 = 0 /\ p - 4 < MAX_HEAP
  BY <1>1, ConstFacts
<1>3. p % 4 = 0 /\ p < MAX_HEAP
  BY <1>1, ConstFacts
<1>4. p + 4 \in Nat /\ (p + 4) % 4 = 0 /\ p + 4 < MAX_HEAP
  BY <1>1, ConstFacts
<1>5. (p + S[p]) - 8 \in Nat /\ ((p + S[p]) - 8) % 4 = 0 /\ (p + S[p]) - 8 < MAX_HEAP
  BY <1>1, ConstFacts
<1>6. end - 4 \in Nat /\ (end - 4) % 4 = 0 /\ end - 4 < MAX_HEAP
  BY <1>1, ConstFacts
<1>. QED BY <1>1, <1>2, <1>3, <1>4, <1>5, <1>6, WordFacts

\* The words insert() and delete() may write: roots, and links of the blocks G.
Links(G) == {ROOT(c) : c \in Classes} \cup G \cup {p + 4 : p \in G}

LEMMA LinksApart ==
    ASSUME NEW S, NEW end, Tiles(S, end), NEW G, G \subseteq DOMAIN S \ {Prologue}
    PROVE  /\ end - 4 \notin Links(G)
           /\ \A p \in DOMAIN S : p - 4 \notin Links(G) /\ p + S[p] - 8 \notin Links(G)
           /\ \A p \in DOMAIN S \ (G \cup {Prologue}) : \A w \in Words :
                 p <= w /\ w < p + S[p] - 8 => w \notin Links(G)
<1>1. end \in Nat /\ end >= LOW /\ LOW \in Nat /\ LOW = Prologue + S[Prologue] /\ Prologue = 8
      /\ Prologue \in DOMAIN S
  BY TileFacts, ConstFacts DEF Tiles, WSIZE
<1>2. ASSUME NEW w \in Links(G)
      PROVE  \/ w \in Nat /\ 8 <= w /\ w < LOW - 8
             \/ \E g \in G : w = g \/ w = g + 4
  BY RootFacts DEF Links
<1>3. \A g \in G : g \in DOMAIN S /\ g \in Nat /\ g >= LOW /\ S[g] \in Nat /\ S[g] >= 16
                   /\ g + S[g] <= end /\ g % 8 = 0
  BY TileFacts
<1>4. end - 4 \notin Links(G)
  BY <1>1, <1>2, <1>3
<1>5. ASSUME NEW p \in DOMAIN S PROVE p - 4 \notin Links(G) /\ p + S[p] - 8 \notin Links(G)
  <2>1. p \in Nat /\ S[p] \in Nat /\ S[p] >= 16 /\ (p = 8 \/ p >= LOW) /\ p % 8 = 0 /\ S[p] % 8 = 0
    BY TileFacts, <1>1
  <2>2. ASSUME NEW g \in G PROVE p - 4 # g /\ p - 4 # g + 4 /\ (p + S[p]) - 8 # g /\ (p + S[p]) - 8 # g + 4
    <3>1. g = p \/ p + S[p] <= g \/ g + S[g] <= p
      BY <1>3, Apart
    <3>. QED BY <3>1, <2>1, <1>3
  <2>3. p = 8 => S[p] = LOW - 8
    BY <1>1, <2>1
  <2>4. \A w : w \in Nat /\ 8 <= w /\ w < LOW - 8 => p - 4 # w /\ (p + S[p]) - 8 # w
    BY <1>1, <2>1, <2>3
  <2>5. p + S[p] - 8 = (p + S[p]) - 8
    BY <2>1
  <2>. QED BY <1>2, <2>2, <2>4, <2>5
<1>6. ASSUME NEW p \in DOMAIN S \ (G \cup {Prologue}), NEW w \in Words, p <= w, w < p + S[p] - 8
      PROVE  w \notin Links(G)
  <2>1. p \in Nat /\ S[p] \in Nat /\ p >= LOW /\ w \in Nat
    BY TileFacts, WordFacts
  <2>2. ASSUME NEW g \in G PROVE w # g /\ w # g + 4
    <3>1. p + S[p] <= g \/ g + S[g] <= p
      BY <1>3, Apart
    <3>. QED BY <3>1, <2>1, <1>3, <1>6
  <2>. QED BY <1>1, <1>2, <1>6, <2>1, <2>2
<1>. QED BY <1>4, <1>5, <1>6

-----------------------------------------------------------------------------
\* The lists, as functions of the blocks that are on them.
LEMMA ChainsDelete ==
    ASSUME NEW root, NEW next, NEW prev, NEW cl, NEW F, NEW rank, NULL \notin F,
           \A p \in F : rank[p] \in Nat /\ cl[p] \in Classes,
           Chains(root, next, prev, cl, F, rank), NEW b \in F,
           NEW root2, NEW next2, NEW prev2,
           \A c \in Classes :
              root2[c] = IF c = cl[b] /\ root[cl[b]] = b THEN next[b] ELSE root[c],
           \A p \in F \ {b} :
              next2[p] = IF root[cl[b]] # b /\ p = prev[b] THEN next[b] ELSE next[p],
           \A p \in F \ {b} :
              prev2[p] = IF root[cl[b]] # b /\ p = next[b] THEN prev[b] ELSE prev[p]
    PROVE  Chains(root2, next2, prev2, cl, F \ {b}, rank)
<1>1. ASSUME NEW p \in F
      PROVE  /\ (next[p] # p /\ prev[p] # p) \/ p = root[cl[p]]
             /\ next[p] = NULL \/ /\ next[p] \in F /\ cl[next[p]] = cl[p] /\ prev[next[p]] = p
                                  /\ rank[p] < rank[next[p]] /\ next[p] # root[cl[p]]
             /\ p = root[cl[p]] \/ /\ prev[p] \in F /\ cl[prev[p]] = cl[p] /\ next[prev[p]] = p
                                   /\ rank[prev[p]] < rank[p]
  BY DEF Chains
<1>2. \A c \in Classes : root[c] = NULL \/ (root[c] \in F /\ cl[root[c]] = c)
  BY DEF Chains
<1>3. next[b] # b
  BY <1>1
<1>4. CASE root[cl[b]] = b
  <2>1. ASSUME NEW c \in Classes
        PROVE root2[c] = NULL \/ (root2[c] \in F \ {b} /\ cl[root2[c]] = c)
    BY <1>1, <1>2, <1>3, <1>4
  <2>2. ASSUME NEW p \in F \ {b}
        PROVE  \/ next2[p] = NULL
               \/ /\ next2[p] \in F \ {b} /\ cl[next2[p]] = cl[p] /\ prev2[next2[p]] = p
                  /\ rank[p] < rank[next2[p]] /\ next2[p] # root2[cl[p]]
    BY <1>1, <1>4
  <2>3. ASSUME NEW p \in F \ {b}
        PROVE  \/ p = root2[cl[p]]
               \/ /\ prev2[p] \in F \ {b} /\ cl[prev2[p]] = cl[p] /\ next2[prev2[p]] = p
                  /\ rank[prev2[p]] < rank[p]
    BY <1>1, <1>4
  <2>. QED BY <2>1, <2>2, <2>3 DEF Chains
<1>5. CASE root[cl[b]] # b
  <2>0. /\ prev[b] \in F \ {b} /\ cl[prev[b]] = cl[b] /\ next[prev[b]] = b /\ rank[prev[b]] < rank[b]
        /\ \A c \in Classes : root2[c] = root[c]
    BY <1>1, <1>5
  <2>1. ASSUME NEW c \in Classes
        PROVE root2[c] = NULL \/ (root2[c] \in F \ {b} /\ cl[root2[c]] = c)
    BY <1>2, <1>5, <2>0
  <2>2. ASSUME NEW p \in F \ {b}
        PROVE  \/ next2[p] = NULL
               \/ /\ next2[p] \in F \ {b} /\ cl[next2[p]] = cl[p] /\ prev2[next2[p]] = p
                  /\ rank[p] < rank[next2[p]] /\ next2[p] # root2[cl[p]]
    <3>1. CASE p = prev[b]
      <4>1. next2[p] = next[b]
        BY <3>1, <1>5
      <4>2. CASE next[b] # NULL
        <5>1. /\ next[b] \in F \ {b} /\ cl[next[b]] = cl[b] /\ rank[b] < rank[next[b]]
              /\ next[b] # root[cl[b]]
          BY <1>1, <1>3, <4>2
        <5>2. prev2[next[b]] = p
          BY <5>1, <3>1, <1>5
        <5>3. rank[p] < rank[next[b]]
          BY <5>1, <2>0, <3>1
        <5>. QED BY <5>1, <5>2, <5>3, <4>1, <2>0, <3>1
      <4>. QED BY <4>1, <4>2
    <3>2. CASE p # prev[b]
      <4>1. next2[p] = next[p] /\ next[p] # b
        BY <3>2, <1>1, <1>5
      <4>2. CASE next[p] # NULL
        <5>1. next[p] # next[b]
          BY <1>1, <4>2
        <5>2. prev2[next[p]] = p
          BY <5>1, <1>1, <4>1, <4>2
        <5>. QED BY <5>2, <4>1, <4>2, <1>1, <2>0
      <4>. QED BY <4>1, <4>2
    <3>. QED BY <3>1, <3>2
  <2>3. ASSUME NEW p \in F \ {b}
        PROVE  \/ p = root2[cl[p]]
               \/ /\ prev2[p] \in F \ {b} /\ cl[prev2[p]] = cl[p] /\ next2[prev2[p]] = p
                  /\ rank[prev2[p]] < rank[p]
    <3>1. CASE p = root[cl[p]]
      BY <3>1, <2>0
    <3>2. CASE p # root[cl[p]] /\ p = next[b]
      <4>1. prev2[p] = prev[b] /\ next2[prev[b]] = next[b] /\ cl[p] = cl[b] /\ rank[b] < rank[p]
        BY <3>2, <2>0, <1>1, <1>5
      <4>. QED BY <4>1, <3>2, <2>0
    <3>3. CASE p # root[cl[p]] /\ p # next[b]
      <4>1. /\ prev2[p] = prev[p] /\ prev[p] \in F /\ cl[prev[p]] = cl[p] /\ next[prev[p]] = p
            /\ rank[prev[p]] < rank[p]
        BY <3>3, <1>1, <1>5
      <4>2. prev[p] # b
        BY <4>1, <3>3
      <4>3. next2[prev[p]] = p
        BY <4>1, <4>2, <2>0
      <4>. QED BY <4>1, <4>2, <4>3
    <3>. QED BY <3>1, <3>2, <3>3
  <2>. QED BY <2>1, <2>2, <2>3 DEF Chains
<1>. QED BY <1>4, <1>5

\* The block b becomes the root of its list, or the second after the root first.
Inserted(root, next, prev, cl, F, rank, b, first, root2, next2, prev2, rank2) ==
    /\ b \notin F /\ b # NULL /\ cl[b] \in Classes /\ first = root[cl[b]]
    /\ \A c \in Classes : root2[c] = IF c = cl[b] /\ first = NULL THEN b ELSE root[c]
    /\ \A p \in F : next2[p] = IF p = first THEN b ELSE next[p]
    /\ next2[b] = IF first = NULL THEN NULL ELSE next[first]
    /\ first # NULL => prev2[b] = first
    /\ \A p \in F : prev2[p] = IF first # NULL /\ p = next[first] THEN b ELSE prev[p]
    /\ \A p \in F : rank2[p] = 2 * rank[p]
    /\ rank2[b] = IF first = NULL THEN 0 ELSE 2 * rank[first] + 1

LEMMA ChainsInsert ==
    ASSUME NEW root, NEW next, NEW prev, NEW cl, NEW F, NEW rank, NULL \notin F,
           \A p \in F : rank[p] \in Nat /\ cl[p] \in Classes,
           Chains(root, next, prev, cl, F, rank),
           NEW b, NEW first, NEW root2, NEW next2, NEW prev2, NEW rank2,
           Inserted(root, next, prev, cl, F, rank, b, first, root2, next2, prev2, rank2)
    PROVE  Chains(root2, next2, prev2, cl, F \cup {b}, rank2)
<1> USE DEF Inserted
<1>1. ASSUME NEW p \in F
      PROVE  /\ (next[p] # p /\ prev[p] # p) \/ p = root[cl[p]]
             /\ next[p] = NULL \/ /\ next[p] \in F /\ cl[next[p]] = cl[p] /\ prev[next[p]] = p
                                  /\ rank[p] < rank[next[p]] /\ next[p] # root[cl[p]]
             /\ p = root[cl[p]] \/ /\ prev[p] \in F /\ cl[prev[p]] = cl[p] /\ next[prev[p]] = p
                                   /\ rank[prev[p]] < rank[p]
  BY DEF Chains
<1>2. \A c \in Classes : root[c] = NULL \/ (root[c] \in F /\ cl[root[c]] = c)
  BY DEF Chains
<1>3. \A p, q \in F : rank[p] < rank[q] => rank2[p] < rank2[q]
  OBVIOUS
<1>4. CASE first = NULL
  <2>0. /\ \A p \in F : next2[p] = next[p] /\ prev2[p] = prev[p]
        /\ \A c \in Classes : c # cl[b] => root2[c] = root[c]
        /\ root2[cl[b]] = b /\ next2[b] = NULL
    BY <1>4
  <2>1. ASSUME NEW c \in Classes
        PROVE root2[c] = NULL \/ (root2[c] \in F \cup {b} /\ cl[root2[c]] = c)
    BY <1>2, <2>0
  <2>2. ASSUME NEW p \in F
        PROVE  \/ next2[p] = NULL
               \/ /\ next2[p] \in F \cup {b} /\ cl[next2[p]] = cl[p] /\ prev2[next2[p]] = p
                  /\ rank2[p] < rank2[next2[p]] /\ next2[p] # root2[cl[p]]
    <3>1. CASE next[p] # NULL
      BY <3>1, <1>1, <1>3, <2>0
    <3>. QED BY <3>1, <2>0
  <2>3. ASSUME NEW p \in F
        PROVE  \/ p = root2[cl[p]]
               \/ /\ prev2[p] \in F \cup {b} /\ cl[prev2[p]] = cl[p] /\ next2[prev2[p]] = p
                  /\ rank2[prev2[p]] < rank2[p]
    <3>1. p = root[cl[p]] => cl[p] # cl[b]
      <4>1. p # first
        BY <1>4
      <4>. QED BY <4>1
    <3>. QED BY <3>1, <1>1, <1>3, <2>0
  <2>. QED BY <2>0, <2>1, <2>2, <2>3 DEF Chains
<1>5. CASE first # NULL
  <2>0. /\ first \in F /\ cl[first] = cl[b] /\ \A c \in Classes : root2[c] = root[c]
        /\ next2[b] = next[first] /\ prev2[b] = first /\ next2[first] = b
        /\ rank2[b] = 2 * rank[first] + 1 /\ rank2[first] = 2 * rank[first] /\ rank[first] \in Nat
    BY <1>2, <1>5
  <2>1. ASSUME NEW c \in Classes
        PROVE root2[c] = NULL \/ (root2[c] \in F \cup {b} /\ cl[root2[c]] = c)
    BY <1>2, <2>0
  <2>2. ASSUME NEW p \in F, p # first
        PROVE  \/ next2[p] = NULL
               \/ /\ next2[p] \in F \cup {b} /\ cl[next2[p]] = cl[p] /\ prev2[next2[p]] = p
                  /\ rank2[p] < rank2[next2[p]] /\ next2[p] # root2[cl[p]]
    <3>1. CASE next[p] # NULL
      <4>1. next2[p] = next[p] /\ next[p] \in F /\ cl[next[p]] = cl[p] /\ prev[next[p]] = p
            /\ rank2[p] < rank2[next[p]] /\ next[p] # root[cl[p]]
        BY <2>2, <3>1, <1>1, <1>3
      <4>2. next[p] # next[first]
        BY <2>0, <2>2, <3>1, <1>1
      <4>3. prev2[next[p]] = p
        BY <4>1, <4>2
      <4>. QED BY <4>1, <4>3, <2>0
    <3>. QED BY <3>1, <2>2
  <2>3. \/ next2[first] = NULL
        \/ /\ next2[first] \in F \cup {b} /\ cl[next2[first]] = cl[first] /\ prev2[next2[first]] = first
           /\ rank2[first] < rank2[next2[first]] /\ next2[first] # root2[cl[first]]
    BY <2>0
  <2>4. \/ next2[b] = NULL
        \/ /\ next2[b] \in F \cup {b} /\ cl[next2[b]] = cl[b] /\ prev2[next2[b]] = b
           /\ rank2[b] < rank2[next2[b]] /\ next2[b] # root2[cl[b]]
    <3>1. CASE next[first] # NULL
      <4>1. /\ next[first] \in F /\ cl[next[first]] = cl[first] /\ rank[first] < rank[next[first]]
            /\ next[first] # root[cl[first]]
        BY <3>1, <2>0, <1>1
      <4>2. prev2[next[first]] = b
        BY <4>1, <1>5
      <4>3. rank2[next[first]] = 2 * rank[next[first]] /\ rank[next[first]] \in Nat
        BY <4>1
      <4>. QED BY <4>1, <4>2, <4>3, <2>0
    <3>. QED BY <3>1, <2>0
  <2>5. ASSUME NEW p \in F
        PROVE  \/ p = root2[cl[p]]
               \/ /\ prev2[p] \in F \cup {b} /\ cl[prev2[p]] = cl[p] /\ next2[prev2[p]] = p
                  /\ rank2[prev2[p]] < rank2[p]
    <3>1. CASE p = root[cl[p]]
      BY <3>1, <2>0
    <3>2. CASE p # root[cl[p]] /\ p = next[first]
      <4>1. p # NULL /\ prev2[p] = b /\ cl[p] = cl[b] /\ next2[b] = p /\ rank[first] < rank[p]
        BY <3>2, <1>1, <1>5, <2>0
      <4>2. rank2[p] = 2 * rank[p] /\ rank[p] \in Nat
        OBVIOUS
      <4>. QED BY <4>1, <4>2, <2>0
    <3>3. CASE p # root[cl[p]] /\ p # next[first]
      <4>1. /\ prev2[p] = prev[p] /\ prev[p] \in F /\ cl[prev[p]] = cl[p] /\ next[prev[p]] = p
            /\ rank2[prev[p]] < rank2[p]
        BY <3>3, <1>1, <1>3
      <4>2. prev[p] # first
        BY <4>1, <3>3
      <4>. QED BY <4>1, <4>2
    <3>. QED BY <3>1, <3>2, <3>3
  <2>6. \/ b = root2[cl[b]]
        \/ /\ prev2[b] \in F \cup {b} /\ cl[prev2[b]] = cl[b] /\ next2[prev2[b]] = b
           /\ rank2[prev2[b]] < rank2[b]
    BY <2>0
  <2>. QED BY <2>1, <2>2, <2>3, <2>4, <2>5, <2>6 DEF Chains
<1>. QED BY <1>4, <1>5

\* The lists are the same when what they are made of is the same.
LEMMA ChainsSame ==
    ASSUME NEW root, NEW next, NEW prev, NEW cl, NEW F, NEW rank,
           \A p \in F : cl[p] \in Classes,
           Chains(root, next, prev, cl, F, rank),
           NEW root2, NEW next2, NEW prev2, NEW cl2, NEW rank2,
           \A c \in Classes : root2[c] = root[c],
           \A p \in F : next2[p] = next[p] /\ prev2[p] = prev[p] /\ cl2[p] = cl[p] /\ rank2[p] = rank[p]
    PROVE  Chains(root2, next2, prev2, cl2, F, rank2)
<1>1. \A c \in Classes : root2[c] = NULL \/ (root2[c] \in F /\ cl2[root2[c]] = c)
  BY DEF Chains
<1>2. \A p \in F : \/ next2[p] = NULL
                   \/ /\ next2[p] \in F /\ cl2[next2[p]] = cl2[p] /\ prev2[next2[p]] = p
                      /\ rank2[p] < rank2[next2[p]] /\ next2[p] # root2[cl2[p]]
  BY DEF Chains
<1>3. \A p \in F : \/ p = root2[cl2[p]]
                   \/ /\ prev2[p] \in F /\ cl2[prev2[p]] = cl2[p] /\ next2[prev2[p]] = p
                      /\ rank2[prev2[p]] < rank2[p]
  BY DEF Chains
<1>. QED BY <1>1, <1>2, <1>3 DEF Chains

-----------------------------------------------------------------------------
\* What the heap says of its blocks.
LEMMA TagFacts ==
    ASSUME NEW m, NEW S, NEW F, NEW X, NEW end, Tiles(S, end), Shape(m, S, F, X, end),
           NEW p \in DOMAIN S \ X
    PROVE  /\ GETSIZE(m, p - 4) = S[p] /\ GETSIZE(m, p + S[p] - 8) = S[p]
           /\ GETALLOC(m, p - 4) = (IF p \in F THEN 0 ELSE 1)
           /\ GETALLOC(m, p + S[p] - 8) = (IF p \in F THEN 0 ELSE 1)
           /\ GETALLOC(m, end - 4) = 1 /\ GETSIZE(m, end - 4) = 0
<1>1. S[p] \in Nat /\ S[p] % 8 = 0
  BY TileFacts
<1>2. /\ m[p - 4] = S[p] + (IF p \in F THEN 0 ELSE 1) /\ m[p + S[p] - 8] = m[p - 4]
      /\ m[end - 4] = 1
  BY DEF Shape, WSIZE, DSIZE
<1>3. CASE p \in F
  <2>1. m[p - 4] = S[p] /\ S[p] - (S[p] % 8) = S[p] /\ S[p] % 2 = 0
    <3>1. m[p - 4] = S[p] + 0
      BY <1>2, <1>3
    <3>2. S[p] - (S[p] % 8) = S[p]
      BY <1>1
    <3>3. S[p] % 2 = 0
      BY <1>1
    <3>4. m[p - 4] = S[p]
      BY <1>1, <3>1
    <3>. QED BY <3>2, <3>3, <3>4
  <2>. QED BY <1>2, <1>3, <2>1 DEF GETSIZE, GETALLOC
<1>4. CASE p \notin F
  <2>1. m[p - 4] = S[p] + 1 /\ (S[p] + 1) - ((S[p] + 1) % 8) = S[p] /\ (S[p] + 1) % 2 = 1
    BY <1>1, <1>2, <1>4
  <2>. QED BY <1>2, <1>4, <2>1 DEF GETSIZE, GETALLOC
<1>. QED BY <1>3, <1>4

LEMMA FreeFacts ==
    ASSUME NEW m, NEW S, NEW F, NEW X, NEW end, HeapState(m, end, S, F, X)
    PROVE  /\ m \in [Words -> Int] /\ Tiles(S, end) /\ Shape(m, S, F, X, end)
           /\ F \subseteq DOMAIN S \ {Prologue} /\ X \subseteq DOMAIN S \ (F \cup {Prologue})
           /\ NULL \notin F
           /\ \A p \in F : /\ p \in Nat /\ p >= LOW /\ p % 8 = 0 /\ p \in DOMAIN S \ X
                           /\ p \in Words /\ p + 4 \in Words /\ p + S[p] \notin F
                           /\ ClassOf(S)[p] = calclass(S[p]) /\ ClassOf(S)[p] \in Classes
           /\ \E rank \in [F -> Nat] :
                 Chains(RootsIn(m), NextIn(m, F), PrevIn(m, F), ClassOf(S), F, rank)
<1>1. /\ m \in [Words -> Int] /\ Tiles(S, end) /\ Shape(m, S, F, X, end)
      /\ F \subseteq DOMAIN S \ {Prologue} /\ X \subseteq DOMAIN S \ (F \cup {Prologue})
  BY DEF HeapState
<1>2. ASSUME NEW p \in F
      PROVE  /\ p \in Nat /\ p >= LOW /\ p % 8 = 0 /\ p \in DOMAIN S \ X
             /\ p \in Words /\ p + 4 \in Words /\ p + S[p] \notin F
             /\ ClassOf(S)[p] = calclass(S[p]) /\ ClassOf(S)[p] \in Classes
  <2>1. p \in DOMAIN S \ X /\ p # Prologue
    BY <1>1
  <2>2. p \in Nat /\ p >= LOW /\ p % 8 = 0 /\ S[p] \in Nat /\ S[p] >= 16
    BY <1>1, <2>1, TileFacts
  <2>3. p \in Words /\ p + 4 \in Words
    BY <1>1, <2>1, BlockWords
  <2>4. calclass(S[p]) \in Classes
    BY <2>2, ClassFacts
  <2>. QED BY <2>1, <2>2, <2>3, <2>4 DEF HeapState, ClassOf
<1>3. NULL \notin F
  BY <1>2, ConstFacts DEF NULL
<1>4. \E rank \in [F -> Nat] : Chains(RootsIn(m), NextIn(m, F), PrevIn(m, F), ClassOf(S), F, rank)
  BY DEF HeapState, Listed
<1>. QED BY <1>1, <1>2, <1>3, <1>4

OnlyLinks(m, m2, G) ==
    m2 \in [Words -> Int] /\ \A w \in Words : w \notin Links(G) => m2[w] = m[w]

\* What is written to links is no tag and no data of another block.
LEMMA LinksFrame ==
    ASSUME NEW m, NEW S, NEW F, NEW X, NEW end, Tiles(S, end), Shape(m, S, F, X, end),
           NEW G, G \subseteq DOMAIN S \ {Prologue}, NEW m2, OnlyLinks(m, m2, G)
    PROVE  /\ Shape(m2, S, F, X, end)
           /\ \A p \in DOMAIN S : m2[p - 4] = m[p - 4] /\ m2[p + S[p] - 8] = m[p + S[p] - 8]
           /\ Spared(m, S, m2, S, DOMAIN S \ (G \cup {Prologue}))
<1>1. \A p \in DOMAIN S : m2[p - 4] = m[p - 4] /\ m2[p + S[p] - 8] = m[p + S[p] - 8]
  BY LinksApart, BlockWords DEF OnlyLinks
<1>2. m2[end - 4] = m[end - 4]
  <2>1. end - 4 \in Words
    BY BlockWords DEF Tiles
  <2>. QED BY <2>1, LinksApart DEF OnlyLinks
<1>3. Shape(m2, S, F, X, end)
  BY <1>1, <1>2 DEF Shape, WSIZE, DSIZE
<1>4. Spared(m, S, m2, S, DOMAIN S \ (G \cup {Prologue}))
  BY LinksApart DEF OnlyLinks, Spared, DSIZE
<1>. QED BY <1>1, <1>3, <1>4

\* The words that delete() writes.
LEMMA DeleteWords ==
    ASSUME NEW m, NEW S, NEW F, NEW X, NEW end, HeapState(m, end, S, F, X), NEW b \in F,
           NEW c, c = calclass(S[b])
    PROVE  /\ delete(m, b) \in [Words -> Int]
           /\ m[ROOT(c)] = b => \A w \in Words :
                 delete(m, b)[w] = IF w = ROOT(c) THEN m[b + 4] ELSE m[w]
           /\ m[ROOT(c)] # b =>
                 /\ m[b] \in F /\ (m[b + 4] = NULL \/ m[b + 4] \in F)
                 /\ \A w \in Words :
                       delete(m, b)[w] = IF w = m[b] + 4 THEN m[b + 4]
                                         ELSE IF m[b + 4] # NULL /\ w = m[b + 4] THEN m[b] ELSE m[w]
<1>1. GETSIZE(m, HEADER(b)) = S[b]
  BY FreeFacts, TagFacts DEF HEADER, WSIZE
<1>2. /\ m \in [Words -> Int] /\ c \in Classes /\ ClassOf(S)[b] = c
      /\ b \in Nat /\ b \in Words /\ b + 4 \in Words
      /\ \A p \in F : p \in Nat /\ p % 8 = 0 /\ p \in Words /\ p + 4 \in Words
  BY FreeFacts
<1>3. ROOT(c) \in Words
  BY <1>2, RootFacts
<1>4. m[ROOT(c)] # b => m[b] \in F /\ (m[b + 4] = NULL \/ m[b + 4] \in F)
  <2>1. PICK rank \in [F -> Nat] :
           Chains(RootsIn(m), NextIn(m, F), PrevIn(m, F), ClassOf(S), F, rank)
    BY FreeFacts
  <2>2. /\ RootsIn(m)[c] = m[ROOT(c)] /\ NextIn(m, F)[b] = m[b + 4] /\ PrevIn(m, F)[b] = m[b]
    BY <1>2 DEF RootsIn, NextIn, PrevIn, NEXTSEG, PREVSEG, WSIZE
  <2>3. b = RootsIn(m)[c] \/ PrevIn(m, F)[b] \in F
    BY <2>1, <1>2 DEF Chains
  <2>4. NextIn(m, F)[b] = NULL \/ NextIn(m, F)[b] \in F
    BY <2>1 DEF Chains
  <2>. QED BY <2>2, <2>3, <2>4
<1>5. CASE m[ROOT(c)] = b
  <2>1. delete(m, b) = [m EXCEPT ![ROOT(c)] = m[b + 4]]
    BY <1>1, <1>5 DEF delete, NEXTSEG, WSIZE
  <2>. QED BY <2>1, <1>2, <1>3, <1>5
<1>6. CASE m[ROOT(c)] # b
  <2>1. delete(m, b) =
           IF m[b + 4] # NULL
           THEN [[m EXCEPT ![m[b] + 4] = m[b + 4]] EXCEPT ![m[b + 4]] = m[b]]
           ELSE [m EXCEPT ![m[b] + 4] = m[b + 4]]
    BY <1>1, <1>6 DEF delete, NEXTSEG, PREVSEG, WSIZE
  <2>2. m[b] \in F /\ m[b] + 4 \in Words /\ m[b + 4] \in Int /\ m[b] \in Int
    BY <1>2, <1>4, <1>6
  <2>3. CASE m[b + 4] = NULL
    BY <2>1, <2>2, <2>3, <1>2, <1>6
  <2>4. CASE m[b + 4] # NULL
    <3>1. m[b + 4] \in F /\ m[b + 4] \in Words
      BY <1>2, <1>4, <1>6, <2>4
    <3>2. m[b + 4] # m[b] + 4
      <4>1. m[b + 4] \in Nat /\ m[b] \in Nat /\ m[b + 4] % 8 = 0 /\ m[b] % 8 = 0
        BY <3>1, <2>2, <1>2
      <4>. QED BY <4>1
    <3>. QED BY <2>1, <2>2, <2>4, <3>1, <3>2, <1>2, <1>6
  <2>. QED BY <2>3, <2>4
<1>. QED BY <1>5, <1>6

\* delete() takes a block off its list: it is on none then, and is not in use.
LEMMA Unlist ==
    ASSUME NEW m, NEW S, NEW F, NEW X, NEW end, HeapState(m, end, S, F, X), NEW b \in F
    PROVE  /\ HeapState(delete(m, b), end, S, F \ {b}, X \cup {b})
           /\ Used(S, F \ {b}, X \cup {b}) = Used(S, F, X)
           /\ Spared(m, S, delete(m, b), S, Used(S, F, X))
           /\ \A p \in DOMAIN S : /\ delete(m, b)[p - 4] = m[p - 4]
                                  /\ delete(m, b)[p + S[p] - 8] = m[p + S[p] - 8]
<1> DEFINE c == calclass(S[b])
           m2 == delete(m, b)
           G == F \ {b}
<1>1. /\ m \in [Words -> Int] /\ Tiles(S, end) /\ Shape(m, S, F, X, end)
      /\ F \subseteq DOMAIN S \ {Prologue} /\ X \subseteq DOMAIN S \ (F \cup {Prologue})
      /\ NULL \notin F /\ c \in Classes /\ ClassOf(S)[b] = c
      /\ \A p \in F : p \in Nat /\ p % 8 = 0 /\ p >= LOW /\ p \in Words /\ p + 4 \in Words
                      /\ ClassOf(S)[p] \in Classes
  BY FreeFacts
<1>2. /\ m2 \in [Words -> Int]
      /\ m[ROOT(c)] = b => \A w \in Words : m2[w] = IF w = ROOT(c) THEN m[b + 4] ELSE m[w]
      /\ m[ROOT(c)] # b =>
            /\ m[b] \in F /\ (m[b + 4] = NULL \/ m[b + 4] \in F)
            /\ \A w \in Words : m2[w] = IF w = m[b] + 4 THEN m[b + 4]
                                        ELSE IF m[b + 4] # NULL /\ w = m[b + 4] THEN m[b] ELSE m[w]
  BY DeleteWords
<1>3. PICK rank \in [F -> Nat] :
         Chains(RootsIn(m), NextIn(m, F), PrevIn(m, F), ClassOf(S), F, rank)
  BY FreeFacts
<1> HIDE DEF m2, c
<1>4. OnlyLinks(m, m2, F)
  BY <1>1, <1>2 DEF OnlyLinks, Links
<1>5. /\ Shape(m2, S, F, X, end)
      /\ \A p \in DOMAIN S : m2[p - 4] = m[p - 4] /\ m2[p + S[p] - 8] = m[p + S[p] - 8]
      /\ Spared(m, S, m2, S, DOMAIN S \ (F \cup {Prologue}))
  BY <1>1, <1>4, LinksFrame
<1>6. Shape(m2, S, G, X \cup {b}, end)
  BY <1>5 DEF Shape
<1>7. Listed(m2, S, G)
  <2>0. \A d \in Classes : /\ ROOT(d) \in Words /\ ROOT(d) \in Nat /\ ROOT(d) < LOW
                           /\ \A e \in Classes : ROOT(e) = ROOT(d) => e = d
    BY RootFacts, ConstFacts
  <2>1. /\ \A d \in Classes : RootsIn(m)[d] = m[ROOT(d)] /\ RootsIn(m2)[d] = m2[ROOT(d)]
        /\ \A p \in F : NextIn(m, F)[p] = m[p + 4] /\ PrevIn(m, F)[p] = m[p]
        /\ \A p \in G : NextIn(m2, G)[p] = m2[p + 4] /\ PrevIn(m2, G)[p] = m2[p]
    BY DEF RootsIn, NextIn, PrevIn, NEXTSEG, PREVSEG, WSIZE
  <2>2. ASSUME NEW d \in Classes
        PROVE  RootsIn(m2)[d] = IF d = c /\ RootsIn(m)[c] = b THEN NextIn(m, F)[b] ELSE RootsIn(m)[d]
    <3>1. CASE m[ROOT(c)] = b
      BY <3>1, <1>1, <1>2, <2>0, <2>1
    <3>2. CASE m[ROOT(c)] # b
      <4>1. \A p \in F : ROOT(d) # p /\ ROOT(d) # p + 4
        BY <1>1, <2>0, ConstFacts
      <4>2. m2[ROOT(d)] = m[ROOT(d)]
        BY <4>1, <3>2, <1>2, <2>0
      <4>. QED BY <4>2, <3>2, <1>1, <2>1
    <3>. QED BY <3>1, <3>2
  <2>3. ASSUME NEW p \in G
        PROVE  /\ NextIn(m2, G)[p] = IF RootsIn(m)[c] # b /\ p = PrevIn(m, F)[b] THEN NextIn(m, F)[b]
                                     ELSE NextIn(m, F)[p]
               /\ PrevIn(m2, G)[p] = IF RootsIn(m)[c] # b /\ p = NextIn(m, F)[b] THEN PrevIn(m, F)[b]
                                     ELSE PrevIn(m, F)[p]
    <3>1. /\ p \in Nat /\ p % 8 = 0 /\ p >= LOW /\ p \in Words /\ p + 4 \in Words /\ p # NULL
      BY <1>1
    <3>2. CASE m[ROOT(c)] = b
      <4>1. ROOT(c) # p /\ ROOT(c) # p + 4
        BY <1>1, <2>0, <3>1, ConstFacts
      <4>2. m2[p + 4] = m[p + 4] /\ m2[p] = m[p]
        BY <4>1, <3>1, <3>2, <1>2
      <4>3. RootsIn(m)[c] = b
        BY <3>2, <1>1, <2>1
      <4>. QED BY <4>2, <4>3, <2>1
    <3>3. CASE m[ROOT(c)] # b
      <4>1. /\ m[b] \in Nat /\ m[b] % 8 = 0
            /\ m[b + 4] # NULL => m[b + 4] \in Nat /\ m[b + 4] % 8 = 0
        BY <3>3, <1>1, <1>2
      <4>2. /\ p + 4 = m[b] + 4 <=> p = m[b]
            /\ p # m[b] + 4
            /\ m[b + 4] # NULL => p + 4 # m[b + 4]
        BY <4>1, <3>1
      <4>3. m2[p + 4] = IF p = m[b] THEN m[b + 4] ELSE m[p + 4]
        BY <4>2, <3>1, <3>3, <1>2
      <4>4. m2[p] = IF p = m[b + 4] THEN m[b] ELSE m[p]
        BY <4>2, <3>1, <3>3, <1>2
      <4>5. RootsIn(m)[c] # b
        BY <3>3, <1>1, <2>1
      <4>. QED BY <4>3, <4>4, <4>5, <2>1
    <3>. QED BY <3>2, <3>3
  <2>4. Chains(RootsIn(m2), NextIn(m2, G), PrevIn(m2, G), ClassOf(S), G, rank)
    <3>1. \A p \in F : rank[p] \in Nat /\ ClassOf(S)[p] \in Classes
      BY <1>1
    <3>2. NULL \notin F /\ ClassOf(S)[b] = c
      BY <1>1
    <3> DEFINE root == RootsIn(m)
               next == NextIn(m, F)
               prev == PrevIn(m, F)
               cl == ClassOf(S)
               root2 == RootsIn(m2)
               next2 == NextIn(m2, G)
               prev2 == PrevIn(m2, G)
    <3>3. \A d \in Classes :
             root2[d] = IF d = cl[b] /\ root[cl[b]] = b THEN next[b] ELSE root[d]
      BY <3>2, <2>2
    <3>4. \A p \in F \ {b} :
             next2[p] = IF root[cl[b]] # b /\ p = prev[b] THEN next[b] ELSE next[p]
      BY <3>2, <2>3
    <3>5. \A p \in F \ {b} :
             prev2[p] = IF root[cl[b]] # b /\ p = next[b] THEN prev[b] ELSE prev[p]
      BY <3>2, <2>3
    <3>6. /\ NULL \notin F /\ Chains(root, next, prev, cl, F, rank)
          /\ \A p \in F : rank[p] \in Nat /\ cl[p] \in Classes
      BY <1>3, <3>1, <3>2
    <3> HIDE DEF root, next, prev, cl, root2, next2, prev2
    <3>7. Chains(root2, next2, prev2, cl, F \ {b}, rank)
      BY <3>3, <3>4, <3>5, <3>6, ChainsDelete
    <3>. QED BY <3>7 DEF cl, root2, next2, prev2
  <2>5. Chains(RootsIn(m2), NextIn(m2, G), PrevIn(m2, G), ClassOf(S), G, [p \in G |-> rank[p]])
    BY <2>4, <1>1, ChainsSame
  <2>6. [p \in G |-> rank[p]] \in [G -> Nat]
    OBVIOUS
  <2>. QED BY <2>5, <2>6 DEF Listed
<1>8. HeapState(m2, end, S, G, X \cup {b})
  BY <1>1, <1>2, <1>6, <1>7 DEF HeapState
<1>9. Used(S, G, X \cup {b}) = Used(S, F, X)
  BY DEF Used
<1>10. Spared(m, S, m2, S, Used(S, F, X))
  BY <1>5 DEF Spared, Used
<1>. QED BY <1>5, <1>8, <1>9, <1>10 DEF m2

\* The words that insert() writes.
LEMMA InsertWords ==
    ASSUME NEW m, NEW S, NEW F, NEW X, NEW end, HeapState(m, end, S, F, X),
           NEW b \in X, m[b - 4] = S[b], NEW c, c = calclass(S[b]),
           NEW first, first = m[ROOT(c)]
    PROVE  /\ insert(m, b) \in [Words -> Int]
           /\ first = NULL => \A w \in Words :
                 insert(m, b)[w] = IF w = ROOT(c) THEN b ELSE IF w = b \/ w = b + 4 THEN NULL ELSE m[w]
           /\ first # NULL =>
                 /\ first \in F /\ (m[first + 4] = NULL \/ m[first + 4] \in F)
                 /\ \A w \in Words :
                       insert(m, b)[w] = IF m[first + 4] # NULL /\ w = m[first + 4] THEN b
                                         ELSE IF w = first + 4 THEN b ELSE IF w = b THEN first
                                         ELSE IF w = b + 4 THEN m[first + 4] ELSE m[w]
<1>1. /\ m \in [Words -> Int] /\ Tiles(S, end) /\ b \in DOMAIN S /\ b \notin F
      /\ \A p \in F : p \in Nat /\ p % 8 = 0 /\ p \in Words /\ p + 4 \in Words
  BY FreeFacts
<1>2. /\ b \in Nat /\ b % 8 = 0 /\ S[b] \in Nat /\ S[b] % 8 = 0 /\ S[b] >= 16
      /\ b \in Words /\ b + 4 \in Words
  BY <1>1, TileFacts, BlockWords
<1>3. GETSIZE(m, HEADER(b)) = S[b]
  BY <1>2 DEF GETSIZE, HEADER, WSIZE
<1>4. c \in Classes /\ ROOT(c) \in Words
  BY <1>2, ClassFacts, RootFacts
<1>5. first # NULL => first \in F /\ (m[first + 4] = NULL \/ m[first + 4] \in F)
  <2>1. PICK rank \in [F -> Nat] :
           Chains(RootsIn(m), NextIn(m, F), PrevIn(m, F), ClassOf(S), F, rank)
    BY FreeFacts
  <2>2. RootsIn(m)[c] = m[ROOT(c)] /\ \A p \in F : NextIn(m, F)[p] = m[p + 4]
    BY <1>4 DEF RootsIn, NextIn, NEXTSEG, WSIZE
  <2>3. RootsIn(m)[c] = NULL \/ RootsIn(m)[c] \in F
    BY <2>1, <1>4 DEF Chains
  <2>4. \A p \in F : NextIn(m, F)[p] = NULL \/ NextIn(m, F)[p] \in F
    BY <2>1 DEF Chains
  <2>. QED BY <2>2, <2>3, <2>4
<1>6. CASE first = NULL
  <2>1. insert(m, b) = [m EXCEPT ![ROOT(c)] = b, ![b + 4] = NULL, ![b] = NULL]
    BY <1>3, <1>6 DEF insert, NEXTSEG, PREVSEG, WSIZE
  <2>2. ROOT(c) # b /\ ROOT(c) # b + 4
    <3>1. b = 8 \/ b >= LOW
      BY <1>1, TileFacts, ConstFacts
    <3>2. b # Prologue
      BY FreeFacts
    <3>. QED BY <3>1, <3>2, <1>2, <1>4, RootFacts, ConstFacts
  <2>3. NULL \in Int
    BY DEF NULL
  <2>. QED BY <2>1, <2>2, <2>3, <1>1, <1>2, <1>4, <1>6
<1>7. CASE first # NULL
  <2> DEFINE linked == [m EXCEPT ![b + 4] = m[first + 4], ![b] = first, ![first + 4] = b]
  <2>1. /\ first \in F /\ (m[first + 4] = NULL \/ m[first + 4] \in F) /\ first # b
        /\ first \in Nat /\ first % 8 = 0 /\ first + 4 \in Words /\ m[first + 4] \in Int
    BY <1>1, <1>5, <1>7
  <2>2. linked \in [Words -> Int] /\ b # first + 4 /\ b + 4 # first + 4
    BY <1>1, <1>2, <2>1
  <2>3. \A w \in Words : linked[w] = IF w = first + 4 THEN b ELSE IF w = b THEN first
                                     ELSE IF w = b + 4 THEN m[first + 4] ELSE m[w]
    BY <1>1, <1>2, <2>1, <2>2
  <2>4. linked[b + 4] = m[first + 4]
    BY <2>2, <2>3, <1>2
  <2>5. insert(m, b) = IF linked[b + 4] # NULL THEN [linked EXCEPT ![linked[b + 4]] = b] ELSE linked
    BY <1>3, <1>7 DEF insert, NEXTSEG, PREVSEG, WSIZE
  <2> HIDE DEF linked
  <2>6. CASE m[first + 4] = NULL
    BY <2>1, <2>2, <2>3, <2>4, <2>5, <2>6, <1>7
  <2>7. CASE m[first + 4] # NULL
    <3>1. m[first + 4] \in F /\ m[first + 4] \in Words
      BY <2>1, <2>7, <1>1
    <3>. QED BY <2>1, <2>2, <2>3, <2>4, <2>5, <2>7, <3>1, <1>2, <1>7
  <2>. QED BY <2>6, <2>7
<1>. QED BY <1>6, <1>7

\* insert() puts a block that both its tags say to be free on the list of its class.
LEMMA Enlist ==
    ASSUME NEW m, NEW S, NEW F, NEW X, NEW end, HeapState(m, end, S, F, X),
           NEW b \in X, m[b - 4] = S[b], m[b + S[b] - 8] = S[b],
           b + S[b] \notin F, \A q \in F : q + S[q] # b
    PROVE  /\ HeapState(insert(m, b), end, S, F \cup {b}, X \ {b})
           /\ Used(S, F \cup {b}, X \ {b}) = Used(S, F, X)
           /\ Spared(m, S, insert(m, b), S, Used(S, F, X))
<1> DEFINE c == calclass(S[b])
           first == m[ROOT(c)]
           m2 == insert(m, b)
           G == F \cup {b}
<1>1. /\ m \in [Words -> Int] /\ Tiles(S, end) /\ Shape(m, S, F, X, end)
      /\ F \subseteq DOMAIN S \ {Prologue} /\ X \subseteq DOMAIN S \ (F \cup {Prologue})
      /\ NULL \notin F /\ b \in DOMAIN S \ {Prologue} /\ b \notin F
      /\ \A p \in F : p \in Nat /\ p % 8 = 0 /\ p >= LOW /\ p \in Words /\ p + 4 \in Words
                      /\ ClassOf(S)[p] \in Classes /\ p + S[p] \notin F
  BY FreeFacts
<1>2. /\ m2 \in [Words -> Int]
      /\ first = NULL => \A w \in Words :
            m2[w] = IF w = ROOT(c) THEN b ELSE IF w = b \/ w = b + 4 THEN NULL ELSE m[w]
      /\ first # NULL =>
            /\ first \in F /\ (m[first + 4] = NULL \/ m[first + 4] \in F)
            /\ \A w \in Words :
                  m2[w] = IF m[first + 4] # NULL /\ w = m[first + 4] THEN b
                          ELSE IF w = first + 4 THEN b ELSE IF w = b THEN first
                          ELSE IF w = b + 4 THEN m[first + 4] ELSE m[w]
  BY InsertWords
<1>3. PICK rank \in [F -> Nat] :
         Chains(RootsIn(m), NextIn(m, F), PrevIn(m, F), ClassOf(S), F, rank)
  BY FreeFacts
<1>4. /\ b \in Nat /\ b % 8 = 0 /\ b >= LOW /\ S[b] \in Nat /\ S[b] >= 16
      /\ b \in Words /\ b + 4 \in Words /\ b # NULL
      /\ c \in Classes /\ ClassOf(S)[b] = c /\ ROOT(c) \in Words
  BY <1>1, TileFacts, BlockWords, ClassFacts, RootFacts, ConstFacts DEF ClassOf, NULL
<1> HIDE DEF m2, c, first
<1>5. OnlyLinks(m, m2, G)
  <2> SUFFICES ASSUME NEW w \in Words, w \notin Links(G) PROVE m2[w] = m[w]
    BY <1>2 DEF OnlyLinks
  <2>1. w # ROOT(c) /\ \A g \in G : w # g /\ w # g + 4
    BY <1>4 DEF Links
  <2>. QED BY <2>1, <1>2
<1>6. /\ Shape(m2, S, F, X, end)
      /\ \A p \in DOMAIN S : m2[p - 4] = m[p - 4] /\ m2[p + S[p] - 8] = m[p + S[p] - 8]
      /\ Spared(m, S, m2, S, DOMAIN S \ (G \cup {Prologue}))
  BY <1>1, <1>5, LinksFrame
<1>7. Shape(m2, S, G, X \ {b}, end)
  <2>1. m2[b - 4] = S[b] + 0 /\ m2[b + S[b] - 8] = m2[b - 4]
    BY <1>1, <1>4, <1>6
  <2>2. \A p \in DOMAIN S \ (X \ {b}) :
           m2[p - 4] = S[p] + (IF p \in G THEN 0 ELSE 1) /\ m2[p + S[p] - 8] = m2[p - 4]
    <3> SUFFICES ASSUME NEW p \in DOMAIN S \ (X \ {b})
                 PROVE  m2[p - 4] = S[p] + (IF p \in G THEN 0 ELSE 1) /\ m2[p + S[p] - 8] = m2[p - 4]
      OBVIOUS
    <3>1. CASE p = b
      BY <2>1, <3>1
    <3>2. CASE p # b
      BY <3>2, <1>6 DEF Shape, WSIZE, DSIZE
    <3>. QED BY <3>1, <3>2
  <2>3. m2[end - 4] = 1
    BY <1>6 DEF Shape, WSIZE
  <2>. QED BY <2>2, <2>3 DEF Shape, WSIZE, DSIZE
<1>8. Listed(m2, S, G)
  <2>0. \A d \in Classes : /\ ROOT(d) \in Words /\ ROOT(d) \in Nat /\ ROOT(d) < LOW
                           /\ \A e \in Classes : ROOT(e) = ROOT(d) => e = d
    BY RootFacts, ConstFacts
  <2> DEFINE root == RootsIn(m)
             next == NextIn(m, F)
             prev == PrevIn(m, F)
             cl == ClassOf(S)
             root2 == RootsIn(m2)
             next2 == NextIn(m2, G)
             prev2 == PrevIn(m2, G)
             rank2 == [p \in G |-> IF p = b THEN IF first = NULL THEN 0 ELSE 2 * rank[first] + 1
                                   ELSE 2 * rank[p]]
  <2>1. /\ \A d \in Classes : root[d] = m[ROOT(d)] /\ root2[d] = m2[ROOT(d)]
        /\ \A p \in F : next[p] = m[p + 4] /\ prev[p] = m[p]
        /\ \A p \in G : next2[p] = m2[p + 4] /\ prev2[p] = m2[p]
    BY DEF RootsIn, NextIn, PrevIn, NEXTSEG, PREVSEG, WSIZE
  <2>2. /\ cl[b] = c /\ first = root[cl[b]] /\ \A p \in F : rank[p] \in Nat /\ cl[p] \in Classes
        /\ Chains(root, next, prev, cl, F, rank)
    BY <1>1, <1>3, <1>4, <2>1 DEF first
  <2>3. ASSUME NEW d \in Classes
        PROVE  root2[d] = IF d = cl[b] /\ first = NULL THEN b ELSE root[d]
    <3>0. \A p \in G : ROOT(d) # p /\ ROOT(d) # p + 4
      BY <1>1, <1>4, <2>0, ConstFacts
    <3>1. CASE first = NULL
      <4>1. m2[ROOT(d)] = IF ROOT(d) = ROOT(c) THEN b ELSE m[ROOT(d)]
        BY <3>0, <3>1, <1>2, <2>0
      <4>. QED BY <4>1, <3>1, <1>4, <2>0, <2>1, <2>2
    <3>2. CASE first # NULL
      <4>1. m2[ROOT(d)] = m[ROOT(d)]
        BY <3>0, <3>2, <1>2, <2>0
      <4>. QED BY <4>1, <3>2, <2>1
    <3>. QED BY <3>1, <3>2
  <2>4. ASSUME NEW p \in F
        PROVE  /\ next2[p] = IF p = first THEN b ELSE next[p]
               /\ prev2[p] = IF first # NULL /\ p = next[first] THEN b ELSE prev[p]
    <3>1. /\ p \in Nat /\ p % 8 = 0 /\ p >= LOW /\ p \in Words /\ p + 4 \in Words /\ p # NULL /\ p # b
          /\ p # b + 4 /\ p + 4 # b /\ p + 4 # b + 4
      BY <1>1, <1>4
    <3>2. CASE first = NULL
      <4>1. ROOT(c) # p /\ ROOT(c) # p + 4
        BY <1>4, <2>0, <3>1, ConstFacts
      <4>2. m2[p + 4] = m[p + 4] /\ m2[p] = m[p]
        BY <4>1, <3>1, <3>2, <1>2
      <4>. QED BY <4>2, <3>1, <3>2, <2>1
    <3>3. CASE first # NULL
      <4>1. /\ first \in F /\ first \in Nat /\ first % 8 = 0
            /\ m[first + 4] # NULL => m[first + 4] \in Nat /\ m[first + 4] % 8 = 0
        BY <3>3, <1>1, <1>2
      <4>2. /\ p + 4 = first + 4 <=> p = first
            /\ p # first + 4
            /\ m[first + 4] # NULL => p + 4 # m[first + 4]
        BY <4>1, <3>1
      <4>3. m2[p + 4] = IF p = first THEN b ELSE m[p + 4]
        BY <4>2, <3>1, <3>3, <1>2
      <4>4. m2[p] = IF p = m[first + 4] THEN b ELSE m[p]
        BY <4>2, <3>1, <3>3, <1>2
      <4>. QED BY <4>1, <4>3, <4>4, <3>3, <2>1
    <3>. QED BY <3>2, <3>3
  <2>5. next2[b] = IF first = NULL THEN NULL ELSE next[first]
    <3>1. CASE first = NULL
      <4>1. ROOT(c) # b + 4
        BY <1>4, <2>0, ConstFacts
      <4>2. m2[b + 4] = NULL
        BY <4>1, <3>1, <1>2, <1>4
      <4>. QED BY <4>2, <3>1, <2>1
    <3>2. CASE first # NULL
      <4>1. /\ first \in F /\ first \in Nat /\ first % 8 = 0 /\ first # b
            /\ m[first + 4] # NULL => m[first + 4] \in Nat /\ m[first + 4] % 8 = 0
        BY <3>2, <1>1, <1>2
      <4>2. b + 4 # first + 4 /\ b + 4 # b /\ (m[first + 4] # NULL => b + 4 # m[first + 4])
        BY <4>1, <1>4
      <4>3. m2[b + 4] = m[first + 4]
        BY <4>2, <3>2, <1>2, <1>4
      <4>. QED BY <4>1, <4>3, <3>2, <2>1
    <3>. QED BY <3>1, <3>2
  <2>6. first # NULL => prev2[b] = first
    <3> SUFFICES ASSUME first # NULL PROVE prev2[b] = first
      OBVIOUS
    <3>1. /\ first \in F /\ first \in Nat /\ first % 8 = 0 /\ first # b
          /\ m[first + 4] # NULL => m[first + 4] \in F
      BY <1>1, <1>2
    <3>2. b # first + 4 /\ (m[first + 4] # NULL => b # m[first + 4])
      BY <3>1, <1>1, <1>4
    <3>3. m2[b] = first
      BY <3>2, <1>2, <1>4
    <3>. QED BY <3>3, <2>1
  <2>7. /\ \A p \in F : rank2[p] = 2 * rank[p]
        /\ rank2[b] = IF first = NULL THEN 0 ELSE 2 * rank[first] + 1
    BY <1>1
  <2>8. \A d \in Classes : root2[d] = IF d = cl[b] /\ first = NULL THEN b ELSE root[d]
    BY <2>3
  <2>9. \A p \in F : next2[p] = IF p = first THEN b ELSE next[p]
    BY <2>4
  <2>10. \A p \in F : prev2[p] = IF first # NULL /\ p = next[first] THEN b ELSE prev[p]
    BY <2>4
  <2>11. rank2 \in [G -> Nat]
    BY <1>2, <2>2
  <2>12. NULL \notin F /\ b \notin F /\ b # NULL /\ cl[b] \in Classes
    BY <1>1, <1>4
  <2> HIDE DEF root, next, prev, cl, root2, next2, prev2, rank2
  <2>13. Inserted(root, next, prev, cl, F, rank, b, first, root2, next2, prev2, rank2)
    BY <2>2, <2>5, <2>6, <2>7, <2>8, <2>9, <2>10, <2>12 DEF Inserted
  <2>14. Chains(root2, next2, prev2, cl, G, rank2)
    BY <2>2, <2>12, <2>13, ChainsInsert
  <2>. QED BY <2>11, <2>14 DEF Listed, root2, next2, prev2, cl
<1>9. HeapState(m2, end, S, G, X \ {b})
  <2>1. \A p \in G : p + S[p] \notin G
    <3>1. \A p \in F : p + S[p] \notin G
      BY <1>1
    <3>2. b + S[b] # b
      BY <1>4
    <3>. QED BY <3>1, <3>2
  <2>2. G \subseteq DOMAIN S \ {Prologue} /\ X \ {b} \subseteq DOMAIN S \ (G \cup {Prologue})
    BY <1>1
  <2>. QED BY <2>1, <2>2, <1>1, <1>2, <1>7, <1>8 DEF HeapState
<1>10. Used(S, G, X \ {b}) = Used(S, F, X)
  BY DEF Used
<1>11. Spared(m, S, m2, S, Used(S, F, X))
  BY <1>6 DEF Spared, Used
<1>. QED BY <1>9, <1>10, <1>11 DEF m2

-----------------------------------------------------------------------------
\* What a state of the heap depends on.
LEMMA ListedSame ==
    ASSUME NEW m, NEW S, NEW F, NEW m2, NEW S2, Listed(m, S, F),
           \A p \in F : p \in DOMAIN S /\ p \in DOMAIN S2 /\ S2[p] = S[p] /\ ClassOf(S)[p] \in Classes,
           \A w \in Links(F) : m2[w] = m[w]
    PROVE  Listed(m2, S2, F)
<1>1. PICK rank \in [F -> Nat] :
         Chains(RootsIn(m), NextIn(m, F), PrevIn(m, F), ClassOf(S), F, rank)
  BY DEF Listed
<1>2. \A c \in Classes : RootsIn(m2)[c] = RootsIn(m)[c]
  BY DEF RootsIn, Links
<1>3. \A p \in F : /\ NextIn(m2, F)[p] = NextIn(m, F)[p] /\ PrevIn(m2, F)[p] = PrevIn(m, F)[p]
                   /\ ClassOf(S2)[p] = ClassOf(S)[p]
  BY DEF NextIn, PrevIn, Links, NEXTSEG, PREVSEG, WSIZE, ClassOf
<1>4. Chains(RootsIn(m2), NextIn(m2, F), PrevIn(m2, F), ClassOf(S2), F, rank)
  BY <1>1, <1>2, <1>3, ChainsSame
<1>. QED BY <1>4 DEF Listed

LEMMA Frame ==
    ASSUME NEW m, NEW S, NEW F, NEW X, NEW end, HeapState(m, end, S, F, X),
           NEW m2 \in [Words -> Int],
           \A w \in Links(F) : m2[w] = m[w],
           \A p \in DOMAIN S \ X : m2[p - 4] = m[p - 4] /\ m2[p + S[p] - 8] = m[p + S[p] - 8],
           m2[end - 4] = m[end - 4]
    PROVE  HeapState(m2, end, S, F, X)
<1>1. Listed(m2, S, F)
  <2>1. \A p \in F : p \in DOMAIN S /\ ClassOf(S)[p] \in Classes
    BY FreeFacts
  <2>2. Listed(m, S, F)
    BY DEF HeapState
  <2>. QED BY <2>1, <2>2, ListedSame
<1>2. Shape(m2, S, F, X, end)
  BY FreeFacts DEF Shape, WSIZE, DSIZE
<1>. QED BY <1>1, <1>2 DEF HeapState

\* The words of the tags of a block, and of its data.
LEMMA TagApart ==
    ASSUME NEW S, NEW end, Tiles(S, end), NEW b \in DOMAIN S, NEW t \in {b - 4, b + S[b] - 8}
    PROVE  /\ t \in Words /\ t # end - 4
           /\ \A p \in DOMAIN S : p # b => t # p - 4 /\ t # p + S[p] - 8
           /\ \A p \in DOMAIN S : ~(p <= t /\ t < p + S[p] - 8)
<1>1. /\ b \in Nat /\ b >= 8 /\ b % 8 = 0 /\ S[b] \in Nat /\ S[b] >= 16 /\ S[b] % 8 = 0
      /\ end \in Nat /\ b + S[b] <= end
  BY TileFacts
<1>2. t \in Words /\ t \in Nat
  BY BlockWords, WordFacts
<1>3. t # end - 4
  BY <1>1
<1>4. ASSUME NEW p \in DOMAIN S PROVE ~(p <= t /\ t < p + S[p] - 8)
  <2>1. p \in Nat /\ S[p] \in Nat /\ S[p] >= 16
    BY TileFacts
  <2>2. p = b \/ b + S[b] <= p \/ p + S[p] <= b
    BY Apart
  <2>. QED BY <1>1, <2>1, <2>2
<1>5. ASSUME NEW p \in DOMAIN S, p # b PROVE t # p - 4 /\ t # p + S[p] - 8
  <2>1. p \in Nat /\ S[p] \in Nat /\ S[p] >= 16 /\ p % 8 = 0 /\ S[p] % 8 = 0
    BY TileFacts
  <2>2. b + S[b] <= p \/ p + S[p] <= b
    BY <1>5, Apart
  <2>. QED BY <1>1, <2>1, <2>2
<1>. QED BY <1>2, <1>3, <1>4, <1>5

LEMMA DataApart ==
    ASSUME NEW S, NEW end, Tiles(S, end), NEW b \in DOMAIN S, NEW w \in Words,
           b <= w, w < b + S[b] - 8
    PROVE  /\ w # end - 4
           /\ \A p \in DOMAIN S : w # p - 4 /\ w # p + S[p] - 8
           /\ \A p \in DOMAIN S : p <= w /\ w < p + S[p] - 8 => p = b
<1>1. /\ b \in Nat /\ S[b] \in Nat /\ end \in Nat /\ b + S[b] <= end /\ w \in Nat
  BY TileFacts, WordFacts
<1>2. ASSUME NEW p \in DOMAIN S
      PROVE w # p - 4 /\ w # p + S[p] - 8 /\ (p <= w /\ w < p + S[p] - 8 => p = b)
  <2>1. p \in Nat /\ S[p] \in Nat /\ S[p] >= 16
    BY TileFacts
  <2>2. p = b \/ b + S[b] <= p \/ p + S[p] <= b
    BY Apart
  <2>. QED BY <1>1, <2>1, <2>2
<1>. QED BY <1>1, <1>2

LEMMA SparedTwice ==
    ASSUME NEW m, NEW S, NEW m2, NEW S2, NEW m3, NEW S3, NEW U, NEW V, U \subseteq V,
           Spared(m, S, m2, S2, U), Spared(m2, S2, m3, S3, V)
    PROVE  Spared(m, S, m3, S3, U)
  BY DEF Spared

LEMMA UsedFacts ==
    ASSUME NEW m, NEW S, NEW F, NEW X, NEW end, HeapState(m, end, S, F, X)
    PROVE  \A p \in Used(S, F, X) : /\ p \in DOMAIN S /\ p \notin F /\ p \notin X /\ p # Prologue
                                    /\ p \in Nat /\ p >= LOW /\ p % 8 = 0
                                    /\ S[p] \in Nat /\ S[p] >= 16 /\ S[p] % 8 = 0 /\ p + S[p] <= end
  BY TileFacts DEF Used, HeapState

\* The tags of a block may be written while they count for nothing.
LEMMA Retag ==
    ASSUME NEW m, NEW S, NEW F, NEW X, NEW end, HeapState(m, end, S, F, X), NEW b \in X,
           NEW alloc \in {0, 1}
    PROVE  /\ HeapState(Tag(m, b, S[b], alloc), end, S, F, X)
           /\ Tag(m, b, S[b], alloc)[b - 4] = S[b] + alloc
           /\ Tag(m, b, S[b], alloc)[b + S[b] - 8] = S[b] + alloc
           /\ \A w \in Words : w # b - 4 /\ w # b + S[b] - 8 => Tag(m, b, S[b], alloc)[w] = m[w]
           /\ Spared(m, S, Tag(m, b, S[b], alloc), S, Used(S, F, X))
<1> DEFINE m2 == Tag(m, b, S[b], alloc)
<1>1. m \in [Words -> Int] /\ Tiles(S, end) /\ b \in DOMAIN S /\ b \notin F
      /\ F \subseteq DOMAIN S \ {Prologue}
  BY FreeFacts
<1>2. S[b] \in Nat /\ b - 4 \in Words /\ b + S[b] - 8 \in Words
  BY <1>1, TileFacts, BlockWords
<1>3. /\ m2 \in [Words -> Int]
      /\ m2[b - 4] = S[b] + alloc /\ m2[b + S[b] - 8] = S[b] + alloc
      /\ \A w \in Words : w # b - 4 /\ w # b + S[b] - 8 => m2[w] = m[w]
  BY <1>1, <1>2 DEF Tag, HEADER, PACK, WSIZE, DSIZE
<1> HIDE DEF m2
<1>4. \A w \in Links(F) : m2[w] = m[w]
  <2>1. \A w \in Links(F) : w \in Words
    BY FreeFacts, RootFacts DEF Links
  <2>. QED BY <2>1, <1>1, <1>3, LinksApart
<1>5. \A p \in DOMAIN S \ X : m2[p - 4] = m[p - 4] /\ m2[p + S[p] - 8] = m[p + S[p] - 8]
  <2> SUFFICES ASSUME NEW p \in DOMAIN S \ X
               PROVE m2[p - 4] = m[p - 4] /\ m2[p + S[p] - 8] = m[p + S[p] - 8]
    OBVIOUS
  <2>1. p # b /\ p - 4 \in Words /\ p + S[p] - 8 \in Words
    BY <1>1, BlockWords
  <2>2. /\ b - 4 # p - 4 /\ b - 4 # p + S[p] - 8
        /\ b + S[b] - 8 # p - 4 /\ b + S[b] - 8 # p + S[p] - 8
    BY <1>1, <2>1, TagApart
  <2>. QED BY <1>3, <2>1, <2>2
<1>6. m2[end - 4] = m[end - 4]
  BY <1>1, <1>3, TagApart, BlockWords
<1>7. HeapState(m2, end, S, F, X)
  BY <1>3, <1>4, <1>5, <1>6, Frame
<1>8. Spared(m, S, m2, S, Used(S, F, X))
  BY <1>1, <1>3, TagApart DEF Spared, Used, DSIZE
<1>. QED BY <1>3, <1>7, <1>8 DEF m2

\* A block both of whose tags say that it is allocated is in use.
LEMMA Engage ==
    ASSUME NEW m, NEW S, NEW F, NEW X, NEW end, HeapState(m, end, S, F, X), NEW b \in X,
           m[b - 4] = S[b] + 1, m[b + S[b] - 8] = S[b] + 1
    PROVE  /\ HeapState(m, end, S, F, X \ {b})
           /\ Used(S, F, X \ {b}) = Used(S, F, X) \cup {b}
<1>1. b \in DOMAIN S /\ b \notin F /\ b # Prologue
  BY FreeFacts
<1>2. Shape(m, S, F, X \ {b}, end)
  BY <1>1 DEF HeapState, Shape, WSIZE, DSIZE
<1>. QED BY <1>1, <1>2 DEF HeapState, Used

\* A block in use is given up before its tags are written.
LEMMA Release ==
    ASSUME NEW m, NEW S, NEW F, NEW X, NEW end, HeapState(m, end, S, F, X),
           NEW b \in Used(S, F, X)
    PROVE  /\ HeapState(m, end, S, F, X \cup {b})
           /\ Used(S, F, X \cup {b}) = Used(S, F, X) \ {b}
  BY DEF HeapState, Shape, Used

-----------------------------------------------------------------------------
\* Two blocks become one, one becomes two, and the heap gets one more: until the
\* tags of the result are written, only the tiling is another one.
Merge(S, p) == [q \in DOMAIN S \ {p + S[p]} |-> IF q = p THEN S[p] + S[p + S[p]] ELSE S[q]]
Split(S, p, s) ==
    [q \in DOMAIN S \cup {p + s} |-> IF q = p THEN s ELSE IF q = p + s THEN S[p] - s ELSE S[q]]
Grow(S, p, s) == [q \in DOMAIN S \cup {p} |-> IF q = p THEN s ELSE S[q]]

LEMMA MergeTiles ==
    ASSUME NEW S, NEW end, Tiles(S, end), NEW p \in DOMAIN S, p # Prologue, p + S[p] \in DOMAIN S
    PROVE  Tiles(Merge(S, p), end)
<1> DEFINE n == p + S[p]
           T == Merge(S, p)
<1>1. /\ p \in Nat /\ p >= LOW /\ S[p] \in Nat /\ S[p] >= 16 /\ S[p] % 8 = 0
      /\ n \in Nat /\ S[n] \in Nat /\ S[n] >= 16 /\ S[n] % 8 = 0 /\ n + S[n] <= end
  BY TileFacts
<1>2. /\ DOMAIN T = DOMAIN S \ {n} /\ p \in DOMAIN T /\ n # p /\ T[p] = S[p] + S[n]
      /\ \A q \in DOMAIN T : q # p => T[q] = S[q]
      /\ p + T[p] = n + S[n]
  BY <1>1 DEF Merge
<1>3. \A q \in DOMAIN S : /\ q \in Nat /\ q >= 8 /\ q % 8 = 0 /\ S[q] \in Nat /\ S[q] >= 16
                          /\ S[q] % 8 = 0 /\ q + S[q] <= end
  BY TileFacts
<1>4. ASSUME NEW q \in DOMAIN S, q + S[q] = n PROVE q = p
  <2>1. q # p => p + S[p] <= q \/ q + S[q] <= p
    BY Apart
  <2>. QED BY <2>1, <1>1, <1>3, <1>4
<1>5. n + S[n] # n
  BY <1>1
<1>6. /\ end \in Nat /\ end % 8 = 0 /\ end <= MAX_HEAP /\ Prologue \in DOMAIN S
      /\ S[Prologue] = (LISTSIZE + 2) * WSIZE /\ Prologue = 8
      /\ \A q \in DOMAIN S : q + S[q] = end \/ q + S[q] \in DOMAIN S
      /\ \A q \in DOMAIN S : q = Prologue \/ \E r \in DOMAIN S : r + S[r] = q
      /\ \E q \in DOMAIN S : q + S[q] = end
  BY ConstFacts DEF Tiles
<1>7. Prologue \in DOMAIN T /\ T[Prologue] = (LISTSIZE + 2) * WSIZE
  <2>1. n # Prologue
    BY <1>1, <1>6, ConstFacts
  <2>. QED BY <2>1, <1>2, <1>6
<1> HIDE DEF T, n
<1>8. ASSUME NEW q \in DOMAIN T
      PROVE  /\ q \in Nat /\ q >= 8 /\ q % 8 = 0 /\ T[q] \in Nat /\ T[q] >= 16 /\ T[q] % 8 = 0
             /\ q + T[q] <= end /\ (q + T[q] = end \/ q + T[q] \in DOMAIN T)
             /\ (q = Prologue \/ \E r \in DOMAIN T : r + T[r] = q)
  <2>1. CASE q = p
    <3>1. /\ q \in Nat /\ q >= 8 /\ q % 8 = 0 /\ T[q] \in Nat /\ T[q] >= 16 /\ T[q] % 8 = 0
          /\ q + T[q] <= end
      BY <2>1, <1>1, <1>2, <1>3
    <3>2. q + T[q] = end \/ q + T[q] \in DOMAIN T
      BY <2>1, <1>2, <1>5, <1>6 DEF n
    <3>3. PICK r \in DOMAIN S : r + S[r] = p
      BY <1>6
    <3>4. r # n /\ r # p
      BY <3>3, <1>1, <1>3 DEF n
    <3>5. r \in DOMAIN T /\ r + T[r] = q
      BY <3>3, <3>4, <1>2, <2>1
    <3>. QED BY <3>1, <3>2, <3>5
  <2>2. CASE q # p
    <3>1. q \in DOMAIN S /\ q # n /\ T[q] = S[q] /\ q + S[q] # n
      BY <2>2, <1>2, <1>4
    <3>2. q = Prologue \/ \E r \in DOMAIN T : r + T[r] = q
      <4>1. CASE q # Prologue
        <5>1. PICK r \in DOMAIN S : r + S[r] = q
          BY <3>1, <4>1, <1>6
        <5>2. CASE r = n
          BY <5>1, <5>2, <1>2
        <5>3. CASE r # n
          <6>1. r # p
            BY <5>1, <3>1 DEF n
          <6>. QED BY <6>1, <5>1, <5>3, <1>2
        <5>. QED BY <5>2, <5>3
      <4>. QED BY <4>1
    <3>. QED BY <3>1, <3>2, <1>2, <1>3, <1>6
  <2>. QED BY <2>1, <2>2
<1>9. \E q \in DOMAIN T : q + T[q] = end
  <2>1. PICK q \in DOMAIN S : q + S[q] = end
    BY <1>6
  <2>2. CASE q = n
    BY <2>1, <2>2, <1>2
  <2>3. CASE q # n
    <3>1. q # p
      BY <2>1, <1>1, <1>3 DEF n
    <3>. QED BY <3>1, <2>1, <2>3, <1>2
  <2>. QED BY <2>2, <2>3
<1>10. ASSUME NEW q \in DOMAIN T, NEW r \in DOMAIN T, q < r PROVE q + T[q] <= r
  <2>1. q \in DOMAIN S /\ r \in DOMAIN S /\ r # n /\ q # r /\ q + S[q] <= r
    <3>1. q \in DOMAIN S /\ r \in DOMAIN S /\ r # n
      BY <1>2
    <3>2. q + S[q] <= r
      BY <3>1, <1>10 DEF Tiles
    <3>. QED BY <3>1, <3>2, <1>3, <1>10
  <2>2. CASE q # p
    BY <2>1, <2>2, <1>2
  <2>3. CASE q = p
    <3>1. n < r
      BY <2>1, <2>3, <1>1, <1>3 DEF n
    <3>2. n + S[n] <= r
      BY <3>1, <2>1, <1>1, <1>3 DEF n, Tiles
    <3>. QED BY <3>2, <2>3, <1>2
  <2>. QED BY <2>2, <2>3
<1>11. Tiles(T, end)
  BY <1>6, <1>7, <1>8, <1>9, <1>10 DEF Tiles
<1>. QED BY <1>11 DEF T

LEMMA SplitTiles ==
    ASSUME NEW S, NEW end, Tiles(S, end), NEW p \in DOMAIN S, p # Prologue,
           NEW s \in Nat, s >= 16, s % 8 = 0, S[p] - s >= 16
    PROVE  Tiles(Split(S, p, s), end) /\ p + s \notin DOMAIN S
<1> DEFINE n == p + s
           T == Split(S, p, s)
<1>1. /\ p \in Nat /\ p >= LOW /\ S[p] \in Nat /\ S[p] % 8 = 0 /\ n \in Nat /\ p % 8 = 0
      /\ p + S[p] <= end /\ p < n /\ n < p + S[p]
  BY TileFacts
<1>2. \A q \in DOMAIN S : /\ q \in Nat /\ q >= 8 /\ q % 8 = 0 /\ S[q] \in Nat /\ S[q] >= 16
                          /\ S[q] % 8 = 0 /\ q + S[q] <= end
  BY TileFacts
<1>3. n \notin DOMAIN S
  <2>1. n \in DOMAIN S => p + S[p] <= n
    BY <1>1 DEF Tiles
  <2>. QED BY <2>1, <1>1
<1>4. /\ DOMAIN T = DOMAIN S \cup {n} /\ T[p] = s /\ T[n] = S[p] - s
      /\ \A q \in DOMAIN S : q # p => T[q] = S[q]
  BY <1>1, <1>3 DEF Split
<1>5. p + T[p] = n /\ n + T[n] = p + S[p]
  BY <1>1, <1>4
<1>6. /\ end \in Nat /\ end % 8 = 0 /\ end <= MAX_HEAP /\ Prologue \in DOMAIN S
      /\ S[Prologue] = (LISTSIZE + 2) * WSIZE /\ Prologue = 8
      /\ \A q \in DOMAIN S : q + S[q] = end \/ q + S[q] \in DOMAIN S
      /\ \A q \in DOMAIN S : q = Prologue \/ \E r \in DOMAIN S : r + S[r] = q
      /\ \E q \in DOMAIN S : q + S[q] = end
  BY ConstFacts DEF Tiles
<1>7. Prologue \in DOMAIN T /\ T[Prologue] = (LISTSIZE + 2) * WSIZE
  BY <1>4, <1>6
<1>7a. n % 8 = 0 /\ T[n] \in Nat /\ T[n] >= 16 /\ T[n] % 8 = 0 /\ n >= 8
  BY <1>1, <1>4, ConstFacts
<1> HIDE DEF T, n
<1>8. ASSUME NEW q \in DOMAIN T
      PROVE  /\ q \in Nat /\ q >= 8 /\ q % 8 = 0 /\ T[q] \in Nat /\ T[q] >= 16 /\ T[q] % 8 = 0
             /\ q + T[q] <= end /\ (q + T[q] = end \/ q + T[q] \in DOMAIN T)
             /\ (q = Prologue \/ \E r \in DOMAIN T : r + T[r] = q)
  <2>1. CASE q = n
    BY <2>1, <1>1, <1>4, <1>5, <1>6, <1>7a
  <2>2. CASE q # n
    <3>1. q \in DOMAIN S
      BY <2>2, <1>4
    <3>2. q = Prologue \/ \E r \in DOMAIN T : r + T[r] = q
      <4>1. CASE q # Prologue
        <5>1. PICK r \in DOMAIN S : r + S[r] = q
          BY <3>1, <4>1, <1>6
        <5>2. CASE r = p
          BY <5>1, <5>2, <1>4, <1>5
        <5>3. CASE r # p
          BY <5>1, <5>3, <1>4
        <5>. QED BY <5>2, <5>3
      <4>. QED BY <4>1
    <3>3. CASE q = p
      <4>1. T[q] = s /\ q + T[q] = n /\ n \in DOMAIN T /\ q \in Nat /\ q >= 8 /\ q % 8 = 0
        BY <3>3, <1>2, <1>4, <1>5
      <4>2. q + T[q] <= end
        BY <4>1, <1>1, <1>6
      <4>. QED BY <3>2, <4>1, <4>2
    <3>4. CASE q # p
      <4>1. T[q] = S[q]
        BY <3>1, <3>4, <1>4
      <4>. QED BY <4>1, <3>1, <3>2, <1>2, <1>4, <1>6
    <3>. QED BY <3>3, <3>4
  <2>. QED BY <2>1, <2>2
<1>9. \E q \in DOMAIN T : q + T[q] = end
  <2>1. PICK q \in DOMAIN S : q + S[q] = end
    BY <1>6
  <2>2. CASE q = p
    BY <2>1, <2>2, <1>4, <1>5
  <2>3. CASE q # p
    BY <2>1, <2>3, <1>4
  <2>. QED BY <2>2, <2>3
<1>10. ASSUME NEW q \in DOMAIN T, NEW r \in DOMAIN T, q < r PROVE q + T[q] <= r
  <2>1. CASE q = n
    <3>1. r \in DOMAIN S /\ r # n /\ r \in Nat
      BY <2>1, <1>1, <1>2, <1>4, <1>10
    <3>2. p < r
      BY <3>1, <2>1, <1>1, <1>10
    <3>3. p + S[p] <= r
      BY <3>1, <3>2 DEF Tiles
    <3>. QED BY <3>3, <2>1, <1>5
  <2>2. CASE q # n /\ r = n
    <3>1. q \in DOMAIN S
      BY <2>2, <1>4
    <3>2. q = p \/ p + S[p] <= q \/ q + S[q] <= p
      BY <3>1, Apart
    <3>3. CASE q = p
      BY <3>3, <2>2, <1>1, <1>5
    <3>4. CASE q # p
      <4>1. q + S[q] <= p /\ T[q] = S[q]
        BY <3>1, <3>2, <3>4, <2>2, <1>1, <1>2, <1>4, <1>10
      <4>. QED BY <4>1, <3>1, <2>2, <1>1, <1>2
    <3>. QED BY <3>3, <3>4
  <2>3. CASE q # n /\ r # n
    <3>1. q \in DOMAIN S /\ r \in DOMAIN S
      BY <2>3, <1>4
    <3>2. q + S[q] <= r
      BY <3>1, <1>10 DEF Tiles
    <3>3. CASE q = p
      BY <3>1, <3>2, <3>3, <1>1, <1>2, <1>5
    <3>4. CASE q # p
      BY <3>1, <3>2, <3>4, <1>4
    <3>. QED BY <3>3, <3>4
  <2>. QED BY <2>1, <2>2, <2>3
<1>11. Tiles(T, end)
  BY <1>6, <1>7, <1>8, <1>9, <1>10 DEF Tiles
<1>. QED BY <1>3, <1>11 DEF T, n

LEMMA GrowTiles ==
    ASSUME NEW S, NEW end, Tiles(S, end), NEW s \in Nat, s >= 16, s % 8 = 0, end + s <= MAX_HEAP
    PROVE  Tiles(Grow(S, end, s), end + s) /\ end \notin DOMAIN S
<1> DEFINE T == Grow(S, end, s)
<1>1. \A q \in DOMAIN S : /\ q \in Nat /\ q >= 8 /\ q % 8 = 0 /\ S[q] \in Nat /\ S[q] >= 16
                          /\ S[q] % 8 = 0 /\ q + S[q] <= end
  BY TileFacts
<1>2. /\ end \in Nat /\ end % 8 = 0 /\ end <= MAX_HEAP /\ Prologue \in DOMAIN S
      /\ S[Prologue] = (LISTSIZE + 2) * WSIZE /\ Prologue = 8
      /\ \A q \in DOMAIN S : q + S[q] = end \/ q + S[q] \in DOMAIN S
      /\ \A q \in DOMAIN S : q = Prologue \/ \E r \in DOMAIN S : r + S[r] = q
      /\ \E q \in DOMAIN S : q + S[q] = end
  BY ConstFacts DEF Tiles
<1>3. end \notin DOMAIN S /\ end >= 8
  BY <1>1, <1>2
<1>4. DOMAIN T = DOMAIN S \cup {end} /\ T[end] = s /\ \A q \in DOMAIN S : T[q] = S[q]
  BY <1>3 DEF Grow
<1> HIDE DEF T
<1>5. end + s \in Nat /\ (end + s) % 8 = 0 /\ end < end + s
  BY <1>2
<1>6. ASSUME NEW q \in DOMAIN T
      PROVE  /\ q \in Nat /\ q >= 8 /\ q % 8 = 0 /\ T[q] \in Nat /\ T[q] >= 16 /\ T[q] % 8 = 0
             /\ q + T[q] <= end + s /\ (q + T[q] = end + s \/ q + T[q] \in DOMAIN T)
             /\ (q = Prologue \/ \E r \in DOMAIN T : r + T[r] = q)
  <2>1. CASE q = end
    BY <2>1, <1>2, <1>3, <1>4, <1>5
  <2>2. CASE q # end
    <3>1. q \in DOMAIN S /\ T[q] = S[q]
      BY <2>2, <1>4
    <3>2. q = Prologue \/ \E r \in DOMAIN T : r + T[r] = q
      BY <3>1, <1>2, <1>4
    <3>3. q + S[q] <= end + s
      <4>1. q + S[q] \in Nat /\ q + S[q] <= end
        BY <3>1, <1>1
      <4>2. end \in Nat /\ end + s \in Nat /\ end < end + s
        BY <1>2, <1>5
      <4>. QED BY <4>1, <4>2
    <3>. QED BY <3>1, <3>2, <3>3, <1>1, <1>2, <1>4
  <2>. QED BY <2>1, <2>2
<1>7. \E q \in DOMAIN T : q + T[q] = end + s
  BY <1>4
<1>8. ASSUME NEW q \in DOMAIN T, NEW r \in DOMAIN T, q < r PROVE q + T[q] <= r
  <2>1. CASE q = end
    <3>1. r \in DOMAIN S
      BY <2>1, <1>2, <1>4, <1>8
    <3>. QED BY <3>1, <2>1, <1>1, <1>2, <1>8
  <2>2. CASE q # end /\ r = end
    BY <2>2, <1>1, <1>4
  <2>3. CASE q # end /\ r # end
    <3>1. q \in DOMAIN S /\ r \in DOMAIN S /\ T[q] = S[q]
      BY <2>3, <1>4
    <3>. QED BY <3>1, <1>8 DEF Tiles
  <2>. QED BY <2>1, <2>2, <2>3
<1>9. Prologue \in DOMAIN T /\ T[Prologue] = (LISTSIZE + 2) * WSIZE
  BY <1>2, <1>4
<1>10. Tiles(T, end + s)
  BY <1>2, <1>5, <1>6, <1>7, <1>8, <1>9 DEF Tiles
<1>. QED BY <1>3, <1>10 DEF T

LEMMA Absorb ==
    ASSUME NEW m, NEW S, NEW F, NEW X, NEW end, HeapState(m, end, S, F, X),
           NEW p \in X, p + S[p] \in X
    PROVE  /\ HeapState(m, end, Merge(S, p), F, X \ {p + S[p]})
           /\ Used(Merge(S, p), F, X \ {p + S[p]}) = Used(S, F, X)
           /\ Spared(m, S, m, Merge(S, p), Used(S, F, X))
           /\ Merge(S, p)[p] = S[p] + S[p + S[p]] /\ p \in X \ {p + S[p]}
<1> DEFINE n == p + S[p]
           T == Merge(S, p)
<1>1. /\ Tiles(S, end) /\ p \in DOMAIN S /\ n \in DOMAIN S /\ p # Prologue /\ n # Prologue
      /\ p \notin F /\ n \notin F
      /\ F \subseteq DOMAIN S \ {Prologue} /\ X \subseteq DOMAIN S \ (F \cup {Prologue})
  BY FreeFacts
<1>2. S[p] \in Nat /\ S[p] >= 16 /\ p \in Nat /\ n # p
  BY <1>1, TileFacts
<1>3. /\ DOMAIN T = DOMAIN S \ {n} /\ T[p] = S[p] + S[n]
      /\ \A q \in DOMAIN T : q # p => T[q] = S[q]
  BY <1>1, <1>2 DEF Merge
<1>4. Tiles(T, end)
  BY <1>1, MergeTiles
<1> HIDE DEF T, n
<1>5. Shape(m, T, F, X \ {n}, end)
  BY <1>1, <1>3 DEF HeapState, Shape
<1>6. Listed(m, T, F)
  <2>1. \A q \in F : q \in DOMAIN S /\ q \in DOMAIN T /\ T[q] = S[q] /\ ClassOf(S)[q] \in Classes
    BY <1>1, <1>3, FreeFacts
  <2>. QED BY <2>1, ListedSame DEF HeapState
<1>7. HeapState(m, end, T, F, X \ {n})
  BY <1>1, <1>2, <1>3, <1>4, <1>5, <1>6 DEF HeapState
<1>8. Used(T, F, X \ {n}) = Used(S, F, X)
  BY <1>1, <1>3 DEF Used, n
<1>9. Spared(m, S, m, T, Used(S, F, X))
  BY <1>1, <1>3 DEF Used, n, Spared
<1>. QED BY <1>2, <1>3, <1>7, <1>8, <1>9 DEF T, n

LEMMA Carve ==
    ASSUME NEW m, NEW S, NEW F, NEW X, NEW end, HeapState(m, end, S, F, X),
           NEW p \in X, NEW s \in Nat, s >= 16, s % 8 = 0, S[p] - s >= 16
    PROVE  /\ HeapState(m, end, Split(S, p, s), F, X \cup {p + s})
           /\ Used(Split(S, p, s), F, X \cup {p + s}) = Used(S, F, X)
           /\ Spared(m, S, m, Split(S, p, s), Used(S, F, X))
           /\ Split(S, p, s)[p] = s /\ Split(S, p, s)[p + s] = S[p] - s
           /\ p + s \notin DOMAIN S
<1> DEFINE n == p + s
           T == Split(S, p, s)
<1>1. /\ Tiles(S, end) /\ p \in DOMAIN S /\ p # Prologue /\ p \notin F
      /\ F \subseteq DOMAIN S \ {Prologue} /\ X \subseteq DOMAIN S \ (F \cup {Prologue})
  BY FreeFacts
<1>2. S[p] \in Nat /\ p \in Nat /\ n # p
  BY <1>1, TileFacts
<1>3. Tiles(T, end) /\ n \notin DOMAIN S
  BY <1>1, SplitTiles
<1>4. /\ DOMAIN T = DOMAIN S \cup {n} /\ T[p] = s /\ T[n] = S[p] - s
      /\ \A q \in DOMAIN S : q # p => T[q] = S[q]
  BY <1>1, <1>2, <1>3 DEF Split
<1>4a. n # Prologue
  BY <1>1, <1>3 DEF Tiles
<1> HIDE DEF T, n
<1>5. Shape(m, T, F, X \cup {n}, end)
  BY <1>1, <1>4 DEF HeapState, Shape
<1>6. Listed(m, T, F)
  <2>1. \A q \in F : q \in DOMAIN S /\ q \in DOMAIN T /\ T[q] = S[q] /\ ClassOf(S)[q] \in Classes
    BY <1>1, <1>4, FreeFacts
  <2>. QED BY <2>1, ListedSame DEF HeapState
<1>7. HeapState(m, end, T, F, X \cup {n})
  <2>1. \A q \in F : q + T[q] \notin F
    BY <1>1, <1>4 DEF HeapState
  <2>2. F \subseteq DOMAIN T \ {Prologue} /\ X \cup {n} \subseteq DOMAIN T \ (F \cup {Prologue})
    BY <1>1, <1>3, <1>4, <1>4a
  <2>. QED BY <2>1, <2>2, <1>3, <1>5, <1>6 DEF HeapState
<1>8. Used(T, F, X \cup {n}) = Used(S, F, X)
  BY <1>1, <1>3, <1>4 DEF Used
<1>9. Spared(m, S, m, T, Used(S, F, X))
  BY <1>1, <1>4 DEF Used, Spared
<1>. QED BY <1>3, <1>4, <1>7, <1>8, <1>9 DEF T, n

\* New words at the end of the heap: m2 has the tag of the new end.
LEMMA Lengthen ==
    ASSUME NEW m, NEW S, NEW F, NEW X, NEW end, HeapState(m, end, S, F, X),
           NEW s \in Nat, s >= 16, s % 8 = 0, end + s <= MAX_HEAP,
           NEW m2 \in [Words -> Int], m2[end + s - 4] = 1,
           \A w \in Words : w < end - 4 => m2[w] = m[w]
    PROVE  /\ HeapState(m2, end + s, Grow(S, end, s), F, X \cup {end})
           /\ Used(Grow(S, end, s), F, X \cup {end}) = Used(S, F, X)
           /\ Spared(m, S, m2, Grow(S, end, s), Used(S, F, X))
           /\ Grow(S, end, s)[end] = s
<1> DEFINE T == Grow(S, end, s)
<1>1. /\ Tiles(S, end) /\ Shape(m, S, F, X, end) /\ end \in Nat
      /\ F \subseteq DOMAIN S \ {Prologue} /\ X \subseteq DOMAIN S \ (F \cup {Prologue})
  BY FreeFacts DEF Tiles
<1>2. Tiles(T, end + s) /\ end \notin DOMAIN S
  BY <1>1, GrowTiles
<1>3. DOMAIN T = DOMAIN S \cup {end} /\ T[end] = s /\ \A q \in DOMAIN S : T[q] = S[q]
  BY <1>2 DEF Grow
<1>4. end # Prologue
  BY <1>1, <1>2 DEF Tiles
<1> HIDE DEF T
<1>5. \A q \in DOMAIN S : /\ q \in Nat /\ S[q] \in Nat /\ S[q] >= 16 /\ q + S[q] <= end
                          /\ q - 4 \in Words /\ q + S[q] - 8 \in Words /\ q \in Words /\ q + 4 \in Words
  BY <1>1, TileFacts, BlockWords
<1>6. \A q \in DOMAIN S : m2[q - 4] = m[q - 4] /\ m2[q + S[q] - 8] = m[q + S[q] - 8]
  <2> SUFFICES ASSUME NEW q \in DOMAIN S
               PROVE  m2[q - 4] = m[q - 4] /\ m2[q + S[q] - 8] = m[q + S[q] - 8]
    OBVIOUS
  <2>1. q - 4 < end - 4 /\ q + S[q] - 8 < end - 4
    BY <1>1, <1>5
  <2>. QED BY <2>1, <1>5
<1>7. Shape(m2, T, F, X \cup {end}, end + s)
  BY <1>1, <1>3, <1>6 DEF Shape, WSIZE, DSIZE
<1>8. Listed(m2, T, F)
  <2>1. \A q \in F : q \in DOMAIN S /\ q \in DOMAIN T /\ T[q] = S[q] /\ ClassOf(S)[q] \in Classes
    BY <1>1, <1>3, FreeFacts
  <2>2. ASSUME NEW w \in Links(F) PROVE m2[w] = m[w]
    <3>0. w \in Words
      BY <1>1, <1>5, RootFacts DEF Links
    <3>1. CASE \E c \in Classes : w = ROOT(c)
      <4>1. w \in Nat /\ w < LOW - 8
        BY <3>1, RootFacts
      <4>2. LOW <= end
        BY <1>1, TileFacts DEF Tiles
      <4>. QED BY <3>0, <4>1, <4>2, <1>1, ConstFacts
    <3>2. CASE \E q \in F : w = q \/ w = q + 4
      <4>1. PICK q \in F : w = q \/ w = q + 4
        BY <3>2
      <4>2. q \in DOMAIN S
        BY <1>1
      <4>3. w < end - 4
        BY <4>1, <4>2, <1>1, <1>5
      <4>. QED BY <3>0, <4>3
    <3>. QED BY <3>1, <3>2 DEF Links
  <2>. QED BY <2>1, <2>2, ListedSame DEF HeapState
<1>9. HeapState(m2, end + s, T, F, X \cup {end})
  <2>1. \A q \in F : q + T[q] \notin F
    BY <1>1, <1>3 DEF HeapState
  <2>2. F \subseteq DOMAIN T \ {Prologue} /\ X \cup {end} \subseteq DOMAIN T \ (F \cup {Prologue})
    BY <1>1, <1>2, <1>3, <1>4
  <2>. QED BY <2>1, <2>2, <1>2, <1>7, <1>8 DEF HeapState
<1>10. Used(T, F, X \cup {end}) = Used(S, F, X)
  BY <1>1, <1>2, <1>3 DEF Used
<1>11. Spared(m, S, m2, T, Used(S, F, X))
  <2> SUFFICES ASSUME NEW q \in Used(S, F, X), NEW w \in Words, q <= w, w < q + S[q] - 8
               PROVE  m2[w] = m[w]
    BY <1>3 DEF Spared, Used, DSIZE
  <2>1. w < end - 4
    BY <1>1, <1>5, WordFacts DEF Used
  <2>. QED BY <2>1
<1>. QED BY <1>3, <1>9, <1>10, <1>11 DEF T

-----------------------------------------------------------------------------
\* Where an operation has got to that began at m and S with the blocks U in use:
\* they still are, and hold what they held.
Reached(m, S, U, m2, end2, S2, F2, X2) ==
    HeapState(m2, end2, S2, F2, X2) /\ Used(S2, F2, X2) = U /\ Spared(m, S, m2, S2, U)

LEMMA ReachedFirst ==
    ASSUME NEW m, NEW S, NEW F, NEW X, NEW end, HeapState(m, end, S, F, X),
           NEW U, U = Used(S, F, X)
    PROVE  Reached(m, S, U, m, end, S, F, X)
  BY DEF Reached, Spared, Used

LEMMA ReachedNext ==
    ASSUME NEW m0, NEW S0, NEW U, NEW m, NEW end, NEW S, NEW F, NEW X,
           Reached(m0, S0, U, m, end, S, F, X),
           NEW m2, NEW end2, NEW S2, NEW F2, NEW X2, HeapState(m2, end2, S2, F2, X2),
           Used(S2, F2, X2) = Used(S, F, X), Spared(m, S, m2, S2, Used(S, F, X))
    PROVE  Reached(m0, S0, U, m2, end2, S2, F2, X2)
<1>1. Spared(m0, S0, m2, S2, U)
  BY SparedTwice DEF Reached
<1>. QED BY <1>1 DEF Reached

\* A block not in use is joined with a free neighbour, which leaves its list.
LEMMA JoinPrev ==
    ASSUME NEW m0, NEW S0, NEW U, NEW m, NEW end, NEW S, NEW F, NEW X,
           Reached(m0, S0, U, m, end, S, F, X),
           NEW b, X = {b}, NEW q \in F, q + S[q] = b
    PROVE  /\ Reached(m0, S0, U, delete(m, q), end, Merge(S, q), F \ {q}, {q})
           /\ Merge(S, q)[q] = S[q] + S[b]
<1>0. HeapState(m, end, S, F, X)
  BY DEF Reached
<1>1. b \in DOMAIN S /\ b \notin F /\ q \in DOMAIN S /\ q # b
  BY <1>0, FreeFacts
<1>2. /\ HeapState(delete(m, q), end, S, F \ {q}, X \cup {q})
      /\ Used(S, F \ {q}, X \cup {q}) = Used(S, F, X)
      /\ Spared(m, S, delete(m, q), S, Used(S, F, X))
  BY <1>0, Unlist
<1>3. Reached(m0, S0, U, delete(m, q), end, S, F \ {q}, X \cup {q})
  BY <1>2, ReachedNext
<1>4. /\ HeapState(delete(m, q), end, Merge(S, q), F \ {q}, (X \cup {q}) \ {b})
      /\ Used(Merge(S, q), F \ {q}, (X \cup {q}) \ {b}) = Used(S, F \ {q}, X \cup {q})
      /\ Spared(delete(m, q), S, delete(m, q), Merge(S, q), Used(S, F \ {q}, X \cup {q}))
      /\ Merge(S, q)[q] = S[q] + S[b]
  <2> DEFINE m2 == delete(m, q)
             F2 == F \ {q}
             X2 == X \cup {q}
  <2>1. HeapState(m2, end, S, F2, X2) /\ q \in X2 /\ q + S[q] \in X2
    BY <1>2
  <2> HIDE DEF m2, F2, X2
  <2>2. /\ HeapState(m2, end, Merge(S, q), F2, X2 \ {b})
        /\ Used(Merge(S, q), F2, X2 \ {b}) = Used(S, F2, X2)
        /\ Spared(m2, S, m2, Merge(S, q), Used(S, F2, X2))
        /\ Merge(S, q)[q] = S[q] + S[b]
    BY <2>1, Absorb
  <2>. QED BY <2>2 DEF m2, F2, X2
<1>5. Reached(m0, S0, U, delete(m, q), end, Merge(S, q), F \ {q}, (X \cup {q}) \ {b})
  <2> DEFINE m2 == delete(m, q)
             S2 == Merge(S, q)
             F2 == F \ {q}
             X1 == X \cup {q}
             X2 == X1 \ {b}
  <2>1. Reached(m0, S0, U, m2, end, S, F2, X1)
    BY <1>3
  <2>2. /\ HeapState(m2, end, S2, F2, X2) /\ Used(S2, F2, X2) = Used(S, F2, X1)
        /\ Spared(m2, S, m2, S2, Used(S, F2, X1))
    BY <1>4
  <2> HIDE DEF m2, S2, F2, X1, X2
  <2>3. Reached(m0, S0, U, m2, end, S2, F2, X2)
    BY <2>1, <2>2, ReachedNext
  <2>. QED BY <2>3 DEF m2, S2, F2, X1, X2
<1>6. (X \cup {q}) \ {b} = {q}
  BY <1>1
<1>. QED BY <1>4, <1>5, <1>6

LEMMA JoinNext ==
    ASSUME NEW m0, NEW S0, NEW U, NEW m, NEW end, NEW S, NEW F, NEW X,
           Reached(m0, S0, U, m, end, S, F, X),
           NEW b, X = {b}, NEW n \in F, b + S[b] = n
    PROVE  /\ Reached(m0, S0, U, delete(m, n), end, Merge(S, b), F \ {n}, X)
           /\ Merge(S, b)[b] = S[b] + S[n] /\ b + Merge(S, b)[b] \notin F
<1>0. HeapState(m, end, S, F, X)
  BY DEF Reached
<1>1. b \in DOMAIN S /\ b \notin F /\ n \in DOMAIN S /\ n # b
  BY <1>0, FreeFacts
<1>2. /\ HeapState(delete(m, n), end, S, F \ {n}, X \cup {n})
      /\ Used(S, F \ {n}, X \cup {n}) = Used(S, F, X)
      /\ Spared(m, S, delete(m, n), S, Used(S, F, X))
  BY <1>0, Unlist
<1>3. Reached(m0, S0, U, delete(m, n), end, S, F \ {n}, X \cup {n})
  BY <1>2, ReachedNext
<1>4. /\ HeapState(delete(m, n), end, Merge(S, b), F \ {n}, (X \cup {n}) \ {n})
      /\ Used(Merge(S, b), F \ {n}, (X \cup {n}) \ {n}) = Used(S, F \ {n}, X \cup {n})
      /\ Spared(delete(m, n), S, delete(m, n), Merge(S, b), Used(S, F \ {n}, X \cup {n}))
      /\ Merge(S, b)[b] = S[b] + S[n]
  BY <1>2, Absorb
<1>5. Reached(m0, S0, U, delete(m, n), end, Merge(S, b), F \ {n}, (X \cup {n}) \ {n})
  BY <1>3, <1>4, ReachedNext
<1>6. (X \cup {n}) \ {n} = X
  BY <1>1
<1>7. b + Merge(S, b)[b] \notin F
  <2>1. n + S[n] \notin F
    BY <1>0, FreeFacts
  <2>2. b \in Nat /\ S[b] \in Nat /\ S[n] \in Nat
    BY <1>0, <1>1, FreeFacts, TileFacts
  <2>. QED BY <2>1, <2>2, <1>4
<1>. QED BY <1>4, <1>5, <1>6, <1>7

\* What a join leaves as it was.
LEMMA MergeOthers ==
    ASSUME NEW S, NEW p, NEW q, q \in DOMAIN S, q # p, q # p + S[p]
    PROVE  Merge(S, p)[q] = S[q]
  BY DEF Merge

\* A block between others that are not free is tagged as free and listed.
LEMMA TagAndEnlist ==
    ASSUME NEW m0, NEW S0, NEW U, NEW m, NEW end, NEW S, NEW F, NEW X,
           Reached(m0, S0, U, m, end, S, F, X),
           NEW b, b \in X, b + S[b] \notin F, \A q \in F : q + S[q] # b
    PROVE  Reached(m0, S0, U, insert(Tag(m, b, S[b], 0), b), end, S, F \cup {b}, X \ {b})
<1> DEFINE m2 == Tag(m, b, S[b], 0)
<1>0. HeapState(m, end, S, F, X)
  BY DEF Reached
<1>1. S[b] \in Nat
  BY <1>0, FreeFacts, TileFacts
<1>2. /\ HeapState(m2, end, S, F, X) /\ m2[b - 4] = S[b] + 0 /\ m2[b + S[b] - 8] = S[b] + 0
      /\ Spared(m, S, m2, S, Used(S, F, X))
  BY <1>0, Retag
<1> HIDE DEF m2
<1>3. m2[b - 4] = S[b] /\ m2[b + S[b] - 8] = S[b]
  BY <1>1, <1>2
<1>4. Reached(m0, S0, U, m2, end, S, F, X)
  BY <1>2, ReachedNext
<1>5. /\ HeapState(insert(m2, b), end, S, F \cup {b}, X \ {b})
      /\ Used(S, F \cup {b}, X \ {b}) = Used(S, F, X)
      /\ Spared(m2, S, insert(m2, b), S, Used(S, F, X))
  BY <1>2, <1>3, Enlist
<1>6. Reached(m0, S0, U, insert(m2, b), end, S, F \cup {b}, X \ {b})
  BY <1>4, <1>5, ReachedNext
<1>. QED BY <1>6 DEF m2

\* coalesce() of a block whose tag says that it is free.
LEMMA Coalesce ==
    ASSUME NEW m0, NEW S0, NEW U, NEW m, NEW end, NEW S, NEW F, NEW X,
           Reached(m0, S0, U, m, end, S, F, X),
           NEW b, X = {b}, m[b - 4] = S[b], NEW h, h.mem = m, h.brk = end
    PROVE  /\ coalesce(h, b).brk = end
           /\ \E S2, F2 : /\ Reached(m0, S0, U, coalesce(h, b).mem, end, S2, F2, {})
                          /\ coalesce(h, b).ret \in F2 /\ S2[coalesce(h, b).ret] >= S[b]
<1>0. HeapState(m, end, S, F, X)
  BY DEF Reached
<1>1. /\ Tiles(S, end) /\ Shape(m, S, F, X, end) /\ b \in DOMAIN S /\ b # Prologue /\ b \notin F
      /\ F \subseteq DOMAIN S
  BY <1>0, FreeFacts
<1>2. \A p \in DOMAIN S : p \in Nat /\ S[p] \in Nat /\ S[p] >= 16 /\ S[p] % 8 = 0 /\ p + S[p] <= end
  BY <1>1, TileFacts
<1>3. PICK q \in DOMAIN S : q + S[q] = b
  BY <1>1 DEF Tiles
<1>4. q \in DOMAIN S \ X
  BY <1>2, <1>3
<1>5. PREVBLOCK(m, b) = q
  <2>1. b - 8 = q + S[q] - 8
    BY <1>2, <1>3, <1>1
  <2>2. GETSIZE(m, b - 8) = S[q]
    BY <1>1, <1>4, <2>1, TagFacts
  <2>. QED BY <2>2, <1>1, <1>2, <1>3 DEF PREVBLOCK, DSIZE
<1>6. GETALLOC(m, FOOTER(m, q)) = 0 <=> q \in F
  <2>1. FOOTER(m, q) = q + S[q] - 8
    BY <1>1, <1>2, <1>4, TagFacts DEF FOOTER, HEADER, WSIZE, DSIZE
  <2>2. GETALLOC(m, q + S[q] - 8) = IF q \in F THEN 0 ELSE 1
    BY <1>1, <1>4, TagFacts
  <2>. QED BY <2>1, <2>2
<1>7. GETSIZE(m, HEADER(b)) = S[b]
  BY <1>1, <1>2 DEF GETSIZE, HEADER, WSIZE
<1> DEFINE n == b + S[b]
<1>8. NEXTBLOCK(m, b) = n
  BY <1>7 DEF NEXTBLOCK
<1>9. GETALLOC(m, HEADER(n)) = 0 <=> n \in F
  <2>1. CASE n = end
    <3>1. n \notin F
      BY <2>1, <1>1, <1>2
    <3>2. GETALLOC(m, n - 4) = 1
      BY <2>1, <1>1, <1>4, TagFacts
    <3>. QED BY <3>1, <3>2 DEF HEADER, WSIZE
  <2>2. CASE n # end
    <3>1. n \in DOMAIN S \ X
      BY <2>2, <1>1, <1>2 DEF Tiles
    <3>2. GETALLOC(m, n - 4) = IF n \in F THEN 0 ELSE 1
      BY <3>1, <1>1, TagFacts
    <3>. QED BY <3>2 DEF HEADER, WSIZE
  <2>. QED BY <2>1, <2>2
<1>10. /\ q \in F => GETSIZE(m, HEADER(q)) = S[q]
       /\ n \in F => GETSIZE(m, HEADER(n)) = S[n]
  BY <1>1, <1>4, TagFacts DEF HEADER, WSIZE
<1>11. n # q /\ n # b /\ n \in Nat
  BY <1>1, <1>2, <1>3
<1> HIDE DEF n
<1> DEFINE m1 == IF q \in F THEN delete(m, q) ELSE m
           start == IF q \in F THEN q ELSE b
           S1 == IF q \in F THEN Merge(S, q) ELSE S
           F1 == F \ {q}
<1>12. /\ Reached(m0, S0, U, m1, end, S1, F1, {start})
       /\ S1[start] = S[b] + (IF q \in F THEN S[q] ELSE 0) /\ start + S1[start] = n
       /\ \A r \in F1 : S1[r] = S[r] /\ r + S1[r] # start
  <2>1. CASE q \in F
    <3>0. m1 = delete(m, q) /\ start = q /\ S1 = Merge(S, q)
      BY <2>1
    <3> HIDE DEF m1, start, S1
    <3>1. /\ Reached(m0, S0, U, delete(m, q), end, Merge(S, q), F \ {q}, {q})
          /\ Merge(S, q)[q] = S[q] + S[b]
      BY <2>1, <1>3, JoinPrev
    <3>2. S[q] + S[b] = S[b] + S[q] /\ q + (S[q] + S[b]) = b + S[b]
      BY <1>1, <1>2, <1>3
    <3>3. ASSUME NEW r \in F1 PROVE S1[r] = S[r] /\ r + S1[r] # start
      <4>1. r \in DOMAIN S /\ r # q /\ r # b /\ r \in F
        BY <1>1
      <4>2. Merge(S, q)[r] = S[r]
        BY <4>1, <1>3, MergeOthers
      <4>3. r + S[r] # q
        BY <4>1, <2>1, <1>0, FreeFacts
      <4>. QED BY <4>2, <4>3, <3>0
    <3>. QED BY <2>1, <3>0, <3>1, <3>2, <3>3 DEF n
  <2>2. CASE q \notin F
    <3>1. F1 = F /\ m1 = m /\ S1 = S /\ start = b
      BY <2>2
    <3>3. \A r \in F : r + S[r] # b
      <4> SUFFICES ASSUME NEW r \in F, r + S[r] = b PROVE FALSE
        OBVIOUS
      <4>1. r = q \/ r + S[r] <= q \/ q + S[q] <= r
        BY <1>1, Apart
      <4>. QED BY <4>1, <1>1, <1>2, <1>3, <2>2
    <3>4. S[b] + 0 = S[b]
      BY <1>1, <1>2
    <3> HIDE DEF S1, F1, start, m1
    <3>. QED BY <3>1, <3>3, <3>4, <2>2 DEF n
  <2>. QED BY <2>1, <2>2
<1>13. n \in F1 <=> n \in F
  BY <1>11
<1>14. n \in F => S1[n] = S[n]
  BY <1>12, <1>13
<1>14a. F1 \subseteq F
  OBVIOUS
<1> HIDE DEF m1, start, S1, F1
<1> DEFINE m2 == IF n \in F THEN delete(m1, n) ELSE m1
           S2 == IF n \in F THEN Merge(S1, start) ELSE S1
           F2 == F1 \ {n}
           size == S[b] + (IF q \in F THEN S[q] ELSE 0) + (IF n \in F THEN S[n] ELSE 0)
<1>15. /\ Reached(m0, S0, U, m2, end, S2, F2, {start})
       /\ S2[start] = size /\ start + S2[start] \notin F2
       /\ \A r \in F2 : r + S2[r] # start
  <2>1. CASE n \in F
    <3>0. m2 = delete(m1, n) /\ S2 = Merge(S1, start)
      BY <2>1
    <3>1. /\ Reached(m0, S0, U, delete(m1, n), end, Merge(S1, start), F1 \ {n}, {start})
          /\ Merge(S1, start)[start] = S1[start] + S1[n]
          /\ start + Merge(S1, start)[start] \notin F1
      <4>1. n \in F1 /\ start + S1[start] = n
        BY <2>1, <1>12, <1>13
      <4> DEFINE Y == {start}
      <4>2. Reached(m0, S0, U, m1, end, S1, F1, Y)
        BY <1>12
      <4>3. Y = {start}
        OBVIOUS
      <4> HIDE DEF Y
      <4>4. /\ Reached(m0, S0, U, delete(m1, n), end, Merge(S1, start), F1 \ {n}, Y)
            /\ Merge(S1, start)[start] = S1[start] + S1[n]
            /\ start + Merge(S1, start)[start] \notin F1
        BY <4>1, <4>2, <4>3, JoinNext
      <4>. QED BY <4>3, <4>4
    <3>2. S2[start] = size
      BY <2>1, <3>1, <1>12, <1>14
    <3>3. ASSUME NEW r \in F2 PROVE r + S2[r] # start
      <4>1. HeapState(m1, end, S1, F1, {start})
        BY <1>12 DEF Reached
      <4>2. r \in DOMAIN S1 /\ r # start /\ r # n /\ r \in F1
        BY <4>1, FreeFacts
      <4>3. Merge(S1, start)[r] = S1[r]
        BY <4>2, <1>12, MergeOthers
      <4>. QED BY <4>2, <4>3, <3>0, <1>12
    <3> HIDE DEF S2, m2, size
    <3>. QED BY <3>0, <3>1, <3>2, <3>3
  <2>2. CASE n \notin F
    <3>1. F2 = F1 /\ m2 = m1 /\ S2 = S1
      BY <2>2, <1>13
    <3>2. size = S1[start]
      <4>1. size = S1[start] + 0 /\ S1[start] \in Nat
        BY <2>2, <1>1, <1>2, <1>12, <1>4
      <4>. QED BY <4>1
    <3> HIDE DEF S2, F2, m2, size
    <3>. QED BY <3>1, <3>2, <1>12, <1>13, <2>2
  <2>. QED BY <2>1, <2>2
<1>16. coalesce(h, b) = [mem |-> insert(Tag(m2, start, size, 0), start), brk |-> end, ret |-> start]
  BY <1>5, <1>6, <1>7, <1>8, <1>9, <1>10 DEF coalesce, m1, start
<1>17. size >= S[b]
  <2>1. S[b] \in Nat /\ (IF q \in F THEN S[q] ELSE 0) \in Nat /\ (IF n \in F THEN S[n] ELSE 0) \in Nat
    BY <1>1, <1>2
  <2>. QED BY <2>1
<1> HIDE DEF m2, S2, F2, size
<1> DEFINE m3 == insert(Tag(m2, start, size, 0), start)
           Y == {start}
           G == F2 \cup {start}
<1>18. Reached(m0, S0, U, m3, end, S2, G, {})
  <2>1. Reached(m0, S0, U, m2, end, S2, F2, Y) /\ start \in Y /\ Y \ {start} = {}
    BY <1>15
  <2> HIDE DEF Y
  <2>2. Reached(m0, S0, U, insert(Tag(m2, start, S2[start], 0), start), end, S2, F2 \cup {start}, Y \ {start})
    BY <2>1, <1>15, TagAndEnlist
  <2>. QED BY <2>1, <2>2, <1>15
<1>19. start \in G /\ S2[start] >= S[b]
  BY <1>15, <1>17
<1> HIDE DEF m3, G
<1>20. /\ coalesce(h, b).mem = m3 /\ coalesce(h, b).brk = end /\ coalesce(h, b).ret = start
  BY <1>16 DEF m3
<1>. QED BY <1>18, <1>19, <1>20

-----------------------------------------------------------------------------
\* extend() of an even number of words: the heap is full, or the new bytes are in a
\* free block of at least their size.
LEMMA Extend ==
    ASSUME NEW m0, NEW S0, NEW U, NEW m, NEW end, NEW S, NEW F,
           Reached(m0, S0, U, m, end, S, F, {}), NEW h, h.mem = m, h.brk = end,
           NEW words \in Nat, words % 2 = 0, words >= 4
    PROVE  /\ end + 4 * words > MAX_HEAP =>
                extend(h, words) = [mem |-> m, brk |-> end, ret |-> NULL]
           /\ end + 4 * words <= MAX_HEAP =>
                /\ extend(h, words).brk = end + 4 * words
                /\ \E S2, F2 :
                      /\ Reached(m0, S0, U, extend(h, words).mem, end + 4 * words, S2, F2, {})
                      /\ extend(h, words).ret \in F2 /\ S2[extend(h, words).ret] >= 4 * words
<1> DEFINE size == 4 * words
           tagged == [Tag(m, end, size, 0) EXCEPT ![end + size - 4] = 1]
           g == [mem |-> tagged, brk |-> end + size]
<1>0. HeapState(m, end, S, F, {})
  BY DEF Reached
<1>1. /\ m \in [Words -> Int] /\ Tiles(S, end) /\ Prologue \in DOMAIN S
      /\ end \in Nat /\ end % 8 = 0 /\ end <= MAX_HEAP
  BY <1>0, FreeFacts DEF Tiles
<1>2. end >= LOW
  BY <1>1, TileFacts
<1>3. size \in Nat /\ size >= 16 /\ size % 8 = 0
  OBVIOUS
<1>4. (IF words % 2 = 1 THEN words + 1 ELSE words) * WSIZE = size
  BY DEF WSIZE
<1> HIDE DEF size
<1>5. extend(h, words) = IF end + size > MAX_HEAP THEN [mem |-> m, brk |-> end, ret |-> NULL]
                         ELSE coalesce(g, end)
  BY <1>4 DEF extend, PACK, WSIZE
<1>6. ASSUME end + size <= MAX_HEAP
      PROVE  /\ coalesce(g, end).brk = end + size
             /\ \E S2, F2 : /\ Reached(m0, S0, U, coalesce(g, end).mem, end + size, S2, F2, {})
                            /\ coalesce(g, end).ret \in F2 /\ S2[coalesce(g, end).ret] >= size
  <2>1. /\ end - 4 \in Words /\ end + size - 8 \in Words /\ end + size - 4 \in Words
    <3>1. end - 4 \in Nat /\ (end - 4) % 4 = 0 /\ end - 4 < MAX_HEAP
      BY <1>1, <1>2, ConstFacts
    <3>2. end + size - 8 \in Nat /\ (end + size - 8) % 4 = 0 /\ end + size - 8 < MAX_HEAP
      BY <1>1, <1>2, <1>3, <1>6, ConstFacts
    <3>3. end + size - 4 \in Nat /\ (end + size - 4) % 4 = 0 /\ end + size - 4 < MAX_HEAP
      BY <1>1, <1>2, <1>3, <1>6, ConstFacts
    <3>. QED BY <3>1, <3>2, <3>3, WordFacts
  <2>2. /\ end - 4 < end + size - 8 /\ end + size - 8 < end + size - 4
        /\ \A w \in Words : w < end - 4 => w # end - 4 /\ w # end + size - 8 /\ w # end + size - 4
    BY <1>1, <1>3, WordFacts
  <2>3. Tag(m, end, size, 0) = [m EXCEPT ![end - 4] = size, ![end + size - 8] = size]
    BY <1>3 DEF Tag, HEADER, PACK, WSIZE, DSIZE
  <2>4. /\ tagged \in [Words -> Int] /\ tagged[end - 4] = size /\ tagged[end + size - 4] = 1
        /\ \A w \in Words : w < end - 4 => tagged[w] = m[w]
    BY <1>1, <1>3, <2>1, <2>2, <2>3
  <2> HIDE DEF tagged
  <2> DEFINE T == Grow(S, end, size)
             X == {} \cup {end}
  <2>5. /\ HeapState(tagged, end + size, T, F, X)
        /\ Used(T, F, X) = Used(S, F, {})
        /\ Spared(m, S, tagged, T, Used(S, F, {}))
        /\ T[end] = size
    BY <1>0, <1>3, <1>6, <2>4, Lengthen
  <2>6. X = {end}
    OBVIOUS
  <2> HIDE DEF T, X, g
  <2>7. Reached(m0, S0, U, tagged, end + size, T, F, X)
    BY <2>5, ReachedNext
  <2>8. g.mem = tagged /\ g.brk = end + size /\ tagged[end - 4] = T[end]
    BY <2>4, <2>5 DEF g
  <2>9. /\ coalesce(g, end).brk = end + size
        /\ \E S2, F2 : /\ Reached(m0, S0, U, coalesce(g, end).mem, end + size, S2, F2, {})
                       /\ coalesce(g, end).ret \in F2 /\ S2[coalesce(g, end).ret] >= T[end]
    BY <2>6, <2>7, <2>8, Coalesce
  <2>. QED BY <2>5, <2>9
<1> HIDE DEF g
<1>7. end + size > MAX_HEAP <=> ~(end + size <= MAX_HEAP)
  BY <1>1, <1>3, ConstFacts
<1>8. size = 4 * words
  BY DEF size
<1>. QED BY <1>5, <1>6, <1>7, <1>8

\* What is left of a block that is taken becomes a block of a list, and the rest
\* keeps its data.
LEMMA SplitOff ==
    ASSUME NEW m0, NEW S0, NEW U, NEW m1, NEW end, NEW S, NEW G, NEW X,
           Reached(m0, S0, U, m1, end, S, G, X), NEW b, X = {b}, b + S[b] \notin G,
           NEW size \in Nat, size >= 16, size % 8 = 0, S[b] - size >= 16,
           NEW m3, m3 = insert(Tag(Tag(m1, b, size, 1), b + size, S[b] - size, 0), b + size)
    PROVE  \E S2, F2 : /\ HeapState(m3, end, S2, F2, {}) /\ Used(S2, F2, {}) = U \cup {b}
                       /\ Spared(m0, S0, m3, S2, U) /\ S2[b] = size
                       /\ \A w \in Words : b <= w /\ w < b + size - 8 => m3[w] = m1[w]
<1> DEFINE T == Split(S, b, size)
           n == b + size
           Y == X \cup {n}
           m2 == Tag(m1, b, size, 1)
<1>0. HeapState(m1, end, S, G, X)
  BY DEF Reached
<1>1. /\ Tiles(S, end) /\ b \in X /\ b \in DOMAIN S /\ G \subseteq DOMAIN S /\ b \notin G
  BY <1>0, FreeFacts
<1>2. b \in Nat /\ S[b] \in Nat /\ b + S[b] <= end /\ end \in Nat
  BY <1>1, TileFacts
<1>3. /\ HeapState(m1, end, T, G, Y) /\ Used(T, G, Y) = Used(S, G, X)
      /\ Spared(m1, S, m1, T, Used(S, G, X))
      /\ T[b] = size /\ T[n] = S[b] - size /\ n \notin DOMAIN S
  BY <1>0, <1>1, Carve
<1>4. Reached(m0, S0, U, m1, end, T, G, Y)
  BY <1>3, ReachedNext
<1>5. n # b /\ n \in Nat /\ n + (S[b] - size) = b + S[b]
  BY <1>1, <1>2
<1>6. ASSUME NEW q \in G PROVE q + T[q] # n
  <2>1. q \in DOMAIN S /\ q # b
    BY <1>1
  <2>2. T[q] = S[q]
    BY <2>1, <1>3 DEF Split
  <2>3. q + S[q] = end \/ q + S[q] \in DOMAIN S
    BY <2>1, <1>1 DEF Tiles
  <2>4. n < end
    BY <1>1, <1>2
  <2>. QED BY <2>2, <2>3, <2>4, <1>2, <1>3, <1>5
<1> HIDE DEF T, n, m2, Y
<1>7. /\ HeapState(m2, end, T, G, Y)
      /\ m2[b - 4] = T[b] + 1 /\ m2[b + T[b] - 8] = T[b] + 1
      /\ \A w \in Words : w # b - 4 /\ w # b + T[b] - 8 => m2[w] = m1[w]
      /\ Spared(m1, T, m2, T, Used(T, G, Y))
  <2>1. b \in Y
    BY <1>1 DEF Y
  <2>2. m2 = Tag(m1, b, T[b], 1)
    BY <1>3 DEF m2
  <2>3. HeapState(m1, end, T, G, Y)
    BY <1>3
  <2>. QED BY <2>1, <2>2, <2>3, Retag
<1>8. Reached(m0, S0, U, m2, end, T, G, Y)
  BY <1>4, <1>7, ReachedNext
<1> DEFINE V == U \cup {b}
<1>9. HeapState(m2, end, T, G, Y \ {b}) /\ Used(T, G, Y \ {b}) = V
  <2>1. b \in Y /\ Used(T, G, Y) = U
    BY <1>1, <1>8 DEF Reached, Y
  <2>. QED BY <2>1, <1>7, Engage
<1> DEFINE Z == Y \ {b}
<1>10. Z = {n} /\ Z \ {n} = {}
  BY <1>5 DEF Y
<1>11. Reached(m2, T, V, m2, end, T, G, Z)
  BY <1>9, ReachedFirst
<1> HIDE DEF Z, V
<1>12. Reached(m2, T, V, m3, end, T, G \cup {n}, Z \ {n})
  <2>1. n \in Z /\ n + T[n] \notin G
    BY <1>3, <1>5, <1>10
  <2>2. m3 = insert(Tag(m2, n, T[n], 0), n)
    BY <1>3 DEF m2, n
  <2>3. \A q \in G : q + T[q] # n
    BY <1>6
  <2>4. Reached(m2, T, V, insert(Tag(m2, n, T[n], 0), n), end, T, G \cup {n}, Z \ {n})
    BY <2>1, <2>3, <1>11, TagAndEnlist
  <2>. QED BY <2>2, <2>4
<1>13. HeapState(m3, end, T, G \cup {n}, {}) /\ Used(T, G \cup {n}, {}) = U \cup {b}
  BY <1>10, <1>12 DEF Reached, V
<1>14. Spared(m0, S0, m2, T, U) /\ Spared(m2, T, m3, T, V) /\ U \subseteq V /\ b \in V
  BY <1>8, <1>12 DEF Reached, V
<1>15. Spared(m0, S0, m3, T, U)
  BY <1>14, SparedTwice
<1>16. ASSUME NEW w \in Words, b <= w, w < b + size - 8 PROVE m3[w] = m1[w]
  <2>1. m3[w] = m2[w]
    <3>1. w < b + T[b] - 8
      BY <1>3, <1>16
    <3>. QED BY <3>1, <1>14, <1>16 DEF Spared, DSIZE
  <2>2. w # b - 4 /\ w # b + size - 8
    <3>1. w \in Nat
      BY WordFacts
    <3>. QED BY <3>1, <1>2, <1>16
  <2>. QED BY <2>1, <2>2, <1>3, <1>7
<1>. QED BY <1>3, <1>13, <1>15, <1>16

\* place() in a free block that is large enough.
LEMMA Place ==
    ASSUME NEW m0, NEW S0, NEW U, NEW m, NEW end, NEW S, NEW F,
           Reached(m0, S0, U, m, end, S, F, {}),
           NEW b \in F, NEW size \in Nat, size >= 16, size % 8 = 0, size <= S[b]
    PROVE  /\ b \notin U /\ b \in Nat
           /\ \E S2, F2 : /\ HeapState(place(m, b, size), end, S2, F2, {})
                          /\ Used(S2, F2, {}) = U \cup {b}
                          /\ Spared(m0, S0, place(m, b, size), S2, U)
                          /\ S2[b] >= size
<1> DEFINE X == {} \cup {b}
           G == F \ {b}
           m1 == delete(m, b)
<1>0. HeapState(m, end, S, F, {})
  BY DEF Reached
<1>1. /\ Tiles(S, end) /\ Shape(m, S, F, {}, end) /\ b \in DOMAIN S /\ b \in Nat /\ b # Prologue
      /\ F \subseteq DOMAIN S \ {Prologue}
      /\ b + S[b] \notin F
  BY <1>0, FreeFacts
<1>2. S[b] \in Nat /\ S[b] >= 16 /\ S[b] % 8 = 0 /\ b + S[b] <= end /\ end \in Nat
  BY <1>1, TileFacts
<1>3. GETSIZE(m, HEADER(b)) = S[b]
  BY <1>1, TagFacts DEF HEADER, WSIZE
<1>4. Reached(m0, S0, U, m1, end, S, G, X)
  <2>1. /\ HeapState(m1, end, S, G, X) /\ Used(S, G, X) = Used(S, F, {})
        /\ Spared(m, S, m1, S, Used(S, F, {}))
    BY <1>0, Unlist
  <2>. QED BY <2>1, ReachedNext
<1>5. b \notin U
  BY <1>1 DEF Reached, Used
<1>6. X = {b} /\ G \subseteq F /\ b \notin G
  OBVIOUS
<1> HIDE DEF m1, X, G
<1>7. CASE S[b] - size >= 16
  <2> DEFINE m3 == insert(Tag(Tag(m1, b, size, 1), b + size, S[b] - size, 0), b + size)
  <2>1. place(m, b, size) = m3
    BY <1>3, <1>7 DEF place, m1, WSIZE
  <2> HIDE DEF m3
  <2>2. b + S[b] \notin G
    BY <1>1, <1>6
  <2>3. \E S2, F2 : /\ HeapState(m3, end, S2, F2, {}) /\ Used(S2, F2, {}) = U \cup {b}
                    /\ Spared(m0, S0, m3, S2, U) /\ S2[b] = size
    BY <1>4, <1>6, <1>7, <2>2, SplitOff DEF m3
  <2>. QED BY <1>1, <1>5, <2>1, <2>3
<1>8. CASE ~(S[b] - size >= 16)
  <2> DEFINE m2 == Tag(m1, b, S[b], 1)
  <2>1. place(m, b, size) = m2
    BY <1>3, <1>8 DEF place, m1, WSIZE
  <2>2. /\ HeapState(m2, end, S, G, X)
        /\ m2[b - 4] = S[b] + 1 /\ m2[b + S[b] - 8] = S[b] + 1
        /\ Spared(m1, S, m2, S, Used(S, G, X))
    <3>1. HeapState(m1, end, S, G, X) /\ b \in X
      BY <1>4, <1>6 DEF Reached
    <3>. QED BY <3>1, Retag
  <2> HIDE DEF m2
  <2>3. Reached(m0, S0, U, m2, end, S, G, X)
    BY <1>4, <2>2, ReachedNext
  <2>4. HeapState(m2, end, S, G, X \ {b}) /\ Used(S, G, X \ {b}) = U \cup {b}
    <3>1. b \in X /\ Used(S, G, X) = U
      BY <1>6, <2>3 DEF Reached
    <3>. QED BY <3>1, <2>2, Engage
  <2>5. X \ {b} = {}
    BY <1>6
  <2>6. Spared(m0, S0, m2, S, U)
    BY <2>3 DEF Reached
  <2>. QED BY <1>1, <1>5, <2>1, <2>4, <2>5, <2>6
<1>. QED BY <1>7, <1>8

-----------------------------------------------------------------------------
\* The walk through a list.
LEMMA ListSteps ==
    ASSUME NEW m, NEW S, NEW F, NEW X, NEW end, HeapState(m, end, S, F, X), NEW c \in Classes
    PROVE  /\ FreeList(m, c)[0] = m[ROOT(c)]
           /\ \A n \in Nat : FreeList(m, c)[n] = NULL => FreeList(m, c)[n + 1] = NULL
           /\ \A n \in Nat : FreeList(m, c)[n] \in F => FreeList(m, c)[n + 1] = m[FreeList(m, c)[n] + 4]
<1> DEFINE next == [p \in Words |-> IF p = NULL THEN NULL ELSE m[p + 4]]
           L == FreeList(m, c)
<1>1. L = Walk(next, m[ROOT(c)])
  BY DEF FreeList, NEXTSEG, WSIZE
<1>2. NULL \in Words /\ next[NULL] = NULL
  <2>1. NULL \in Nat /\ NULL % 4 = 0 /\ NULL < MAX_HEAP
    BY ConstFacts DEF NULL
  <2>. QED BY <2>1, WordFacts
<1>3. \A p \in F : next[p] = m[p + 4]
  BY FreeFacts
<1> HIDE DEF next, L
<1>4. L[0] = m[ROOT(c)] /\ \A n \in Nat : L[n + 1] = next[L[n]]
  BY <1>1, WalkFacts
<1>. QED BY <1>2, <1>3, <1>4 DEF L

LEMMA ListMembers ==
    ASSUME NEW m, NEW S, NEW F, NEW X, NEW end, HeapState(m, end, S, F, X), NEW c \in Classes,
           NEW n \in Nat
    PROVE  FreeList(m, c)[n] = NULL \/ (FreeList(m, c)[n] \in F /\ calclass(S[FreeList(m, c)[n]]) = c)
<1> DEFINE L == FreeList(m, c)
           In(k) == L[k] = NULL \/ (L[k] \in F /\ ClassOf(S)[L[k]] = c)
           T == {k \in Nat : In(k)}
<1>1. PICK rank \in [F -> Nat] :
         Chains(RootsIn(m), NextIn(m, F), PrevIn(m, F), ClassOf(S), F, rank)
  BY FreeFacts
<1>2. RootsIn(m)[c] = m[ROOT(c)] /\ \A p \in F : NextIn(m, F)[p] = m[p + 4]
  BY DEF RootsIn, NextIn, NEXTSEG, WSIZE
<1>3. /\ L[0] = m[ROOT(c)]
      /\ \A k \in Nat : L[k] = NULL => L[k + 1] = NULL
      /\ \A k \in Nat : L[k] \in F => L[k + 1] = m[L[k] + 4]
  BY ListSteps
<1> HIDE DEF L
<1>4. In(0)
  BY <1>1, <1>2, <1>3 DEF Chains
<1>5. ASSUME NEW k \in Nat, In(k) PROVE In(k + 1)
  <2>1. CASE L[k] = NULL
    BY <2>1, <1>3
  <2>2. CASE L[k] # NULL
    <3>1. L[k] \in F /\ ClassOf(S)[L[k]] = c /\ L[k + 1] = NextIn(m, F)[L[k]]
      BY <2>2, <1>2, <1>3, <1>5
    <3>. QED BY <3>1, <1>1 DEF Chains
  <2>. QED BY <2>1, <2>2
<1>6. T = Nat
  <2>1. 0 \in T
    BY <1>4
  <2>2. ASSUME NEW k \in T PROVE k + 1 \in T
    BY <1>5
  <2>3. T \in SUBSET Nat
    OBVIOUS
  <2> HIDE DEF T
  <2>. QED BY <2>1, <2>2, <2>3, SetInduction
<1>7. In(n)
  BY <1>6
<1>8. \A p \in F : ClassOf(S)[p] = calclass(S[p])
  BY FreeFacts
<1>. QED BY <1>7, <1>8 DEF L

\* A list has no block twice, since each of them has its place.
LEMMA ListAscends ==
    ASSUME NEW m, NEW S, NEW F, NEW X, NEW end, HeapState(m, end, S, F, X), NEW c \in Classes,
           NEW i \in Nat, NEW j \in Nat, i < j, FreeList(m, c)[j] # NULL
    PROVE  FreeList(m, c)[i] # NULL /\ FreeList(m, c)[i] # FreeList(m, c)[j]
<1> DEFINE L == FreeList(m, c)
<1>1. PICK rank \in [F -> Nat] :
         Chains(RootsIn(m), NextIn(m, F), PrevIn(m, F), ClassOf(S), F, rank)
  BY FreeFacts
<1>2. \A p \in F : NextIn(m, F)[p] = m[p + 4]
  BY DEF NextIn, NEXTSEG, WSIZE
<1>3. /\ \A k \in Nat : L[k] = NULL => L[k + 1] = NULL
      /\ \A k \in Nat : L[k] \in F => L[k + 1] = m[L[k] + 4]
      /\ \A k \in Nat : L[k] = NULL \/ L[k] \in F
  BY ListSteps, ListMembers
<1> HIDE DEF L
<1> DEFINE Below(k) == L[i + 1 + k] # NULL => L[i] # NULL /\ rank[L[i]] < rank[L[i + 1 + k]]
           T == {k \in Nat : Below(k)}
<1>4. ASSUME NEW k \in Nat, L[k + 1] # NULL
      PROVE  L[k] \in F /\ L[k + 1] \in F /\ L[k] # NULL /\ rank[L[k]] < rank[L[k + 1]]
  <2>1. L[k] # NULL /\ L[k] \in F /\ L[k + 1] \in F
    BY <1>3, <1>4
  <2>2. L[k + 1] = NextIn(m, F)[L[k]]
    BY <2>1, <1>2, <1>3
  <2>. QED BY <2>1, <2>2, <1>1, <1>4 DEF Chains
<1>5. Below(0)
  BY <1>4
<1>6. ASSUME NEW k \in Nat, Below(k) PROVE Below(k + 1)
  <2> SUFFICES ASSUME L[i + 1 + (k + 1)] # NULL
               PROVE  L[i] # NULL /\ rank[L[i]] < rank[L[i + 1 + (k + 1)]]
    OBVIOUS
  <2> DEFINE a == i + 1 + k
  <2>1. a \in Nat /\ i + 1 + (k + 1) = a + 1
    OBVIOUS
  <2> HIDE DEF a
  <2>2. L[a] \in F /\ L[a + 1] \in F /\ L[a] # NULL /\ rank[L[a]] < rank[L[a + 1]]
    BY <1>4, <2>1
  <2>3. L[i] # NULL /\ rank[L[i]] < rank[L[a]]
    BY <1>6, <2>2 DEF a
  <2>4. rank[L[a]] \in Nat /\ rank[L[a + 1]] \in Nat /\ rank[L[i]] \in Nat
    BY <2>2, <2>3, <1>3
  <2>. QED BY <2>1, <2>2, <2>3, <2>4
<1>7. T = Nat
  <2>1. 0 \in T
    BY <1>5
  <2>2. ASSUME NEW k \in T PROVE k + 1 \in T
    BY <1>6
  <2>3. T \in SUBSET Nat
    OBVIOUS
  <2> HIDE DEF T
  <2>. QED BY <2>1, <2>2, <2>3, SetInduction
<1>8. j - (i + 1) \in Nat /\ i + 1 + (j - (i + 1)) = j
  OBVIOUS
<1>9. L[i] # NULL /\ rank[L[i]] < rank[L[j]]
  <2>1. Below(j - (i + 1))
    BY <1>7, <1>8
  <2>. QED BY <2>1, <1>8 DEF L
<1>10. rank[L[i]] \in Nat
  BY <1>3, <1>9
<1>. QED BY <1>9, <1>10 DEF L

\* There is no room in the heap for more than Longest blocks, so a list ends before.
LEMMA ListEnds ==
    ASSUME NEW m, NEW S, NEW F, NEW X, NEW end, HeapState(m, end, S, F, X), NEW c \in Classes,
           NEW n \in Nat, FreeList(m, c)[n] # NULL
    PROVE  n < Longest
<1> DEFINE L == FreeList(m, c)
           f == [k \in 0..n |-> L[k] \div 16]
<1>0. Longest \in Nat /\ Longest = MAX_HEAP \div 16
  BY ConstFacts DEF Longest, DSIZE
<1>1. \A k \in 0..n : L[k] # NULL
  BY ListAscends
<1>2. \A k \in 0..n : L[k] \in F
  BY <1>1, ListMembers
<1>3. \A p \in F : p \in DOMAIN S /\ p \in Nat /\ S[p] \in Nat /\ S[p] >= 16 /\ p + S[p] <= MAX_HEAP
  <2> SUFFICES ASSUME NEW p \in F
               PROVE  p \in DOMAIN S /\ p \in Nat /\ S[p] \in Nat /\ S[p] >= 16 /\ p + S[p] <= MAX_HEAP
    OBVIOUS
  <2>1. p \in DOMAIN S /\ Tiles(S, end)
    BY FreeFacts
  <2>2. /\ p \in Nat /\ S[p] \in Nat /\ S[p] >= 16 /\ p + S[p] <= end
        /\ end \in Nat /\ end <= MAX_HEAP /\ MAX_HEAP \in Nat
    BY <2>1, TileFacts, ConstFacts
  <2>. QED BY <2>1, <2>2
<1>4. ASSUME NEW p \in F PROVE p \div 16 \in 0..(Longest - 1)
  <2>1. p \in Nat /\ p + 16 <= MAX_HEAP /\ MAX_HEAP \in Nat
    BY <1>3, ConstFacts
  <2>. QED BY <2>1, <1>0
<1>5. ASSUME NEW p \in F, NEW q \in F, p # q PROVE p \div 16 # q \div 16
  <2>1. p + S[p] <= q \/ q + S[q] <= p
    <3>1. Tiles(S, end) /\ p \in DOMAIN S /\ q \in DOMAIN S
      BY FreeFacts
    <3>. QED BY <3>1, <1>5, Apart
  <2>2. p \in Nat /\ q \in Nat /\ (p + 16 <= q \/ q + 16 <= p)
    BY <2>1, <1>3
  <2>. QED BY <2>2
<1> SUFFICES ASSUME ~(n < Longest) PROVE FALSE
  OBVIOUS
<1> HIDE DEF L
<1>6. f \in [0..n -> 0..(Longest - 1)]
  BY <1>2, <1>4
<1>7. IsFiniteSet(0..n) /\ Cardinality(0..n) = n + 1
  BY FS_Interval
<1>8. IsFiniteSet(0..(Longest - 1)) /\ Cardinality(0..(Longest - 1)) = Longest
  <2>1. \A a, b \in Int : IsFiniteSet(a..b) /\ Cardinality(a..b) = IF a > b THEN 0 ELSE b - a + 1
    BY FS_Interval
  <2> DEFINE b == Longest - 1
  <2>2. b \in Int /\ 0 \in Int /\ (IF 0 > b THEN 0 ELSE b - 0 + 1) = Longest
    BY <1>0
  <2> HIDE DEF b
  <2>3. IsFiniteSet(0..b) /\ Cardinality(0..b) = Longest
    BY <2>1, <2>2
  <2>. QED BY <2>3 DEF b
<1>9. \E x, y \in 0..n : x # y /\ f[x] = f[y]
  <2>1. Cardinality(0..(Longest - 1)) < Cardinality(0..n)
    BY <1>0, <1>7, <1>8
  <2> HIDE DEF f
  <2>. QED BY <2>1, <1>6, <1>7, <1>8, FS_PigeonHole
<1>10. PICK x \in 0..n, y \in 0..n : x # y /\ f[x] = f[y]
  BY <1>9
<1>11. L[x] = L[y]
  BY <1>2, <1>5, <1>10
<1>12. x < y \/ y < x
  BY <1>10
<1>. QED BY <1>1, <1>11, <1>12, ListAscends DEF L

LEMMA ListComplete ==
    ASSUME NEW m, NEW S, NEW F, NEW X, NEW end, HeapState(m, end, S, F, X), NEW c \in Classes,
           NEW p \in F, calclass(S[p]) = c
    PROVE  \E n \in 0..Longest : FreeList(m, c)[n] = p
<1> DEFINE L == FreeList(m, c)
<1>1. PICK rank \in [F -> Nat] :
         Chains(RootsIn(m), NextIn(m, F), PrevIn(m, F), ClassOf(S), F, rank)
  BY FreeFacts
<1>2. /\ RootsIn(m)[c] = m[ROOT(c)]
      /\ \A q \in F : NextIn(m, F)[q] = m[q + 4] /\ PrevIn(m, F)[q] = m[q]
  BY DEF RootsIn, NextIn, PrevIn, NEXTSEG, PREVSEG, WSIZE
<1>3. /\ L[0] = m[ROOT(c)]
      /\ \A k \in Nat : L[k] \in F => L[k + 1] = m[L[k] + 4]
  BY ListSteps
<1> HIDE DEF L
<1> DEFINE On(q) == \E n \in Nat : L[n] = q
           T == {k \in Nat : \A q \in F : rank[q] <= k /\ ClassOf(S)[q] = c => On(q)}
<1>4. ASSUME NEW q \in F, ClassOf(S)[q] = c,
             \A r \in F : rank[r] < rank[q] /\ ClassOf(S)[r] = c => On(r)
      PROVE  On(q)
  <2>1. CASE q = m[ROOT(c)]
    BY <2>1, <1>3
  <2>2. CASE q # m[ROOT(c)]
    <3>1. /\ PrevIn(m, F)[q] \in F /\ ClassOf(S)[PrevIn(m, F)[q]] = c
          /\ NextIn(m, F)[PrevIn(m, F)[q]] = q /\ rank[PrevIn(m, F)[q]] < rank[q]
      BY <2>2, <1>1, <1>2, <1>4 DEF Chains
    <3>2. PICK n \in Nat : L[n] = PrevIn(m, F)[q]
      BY <3>1, <1>4
    <3>3. L[n + 1] = q
      BY <3>1, <3>2, <1>2, <1>3
    <3>4. n + 1 \in Nat
      OBVIOUS
    <3>. QED BY <3>3, <3>4
  <2>. QED BY <2>1, <2>2
<1> HIDE DEF On
<1>5. T = Nat
  <2>1. 0 \in T
    <3>1. \A r \in F : rank[r] \in Nat
      OBVIOUS
    <3>2. ASSUME NEW q \in F, rank[q] <= 0, ClassOf(S)[q] = c PROVE On(q)
      <4>1. \A r \in F : ~(rank[r] < rank[q])
        BY <3>1, <3>2
      <4>. QED BY <4>1, <3>2, <1>4
    <3>. QED BY <3>2
  <2>2. ASSUME NEW k \in T PROVE k + 1 \in T
    <3>1. ASSUME NEW q \in F, rank[q] <= k + 1, ClassOf(S)[q] = c PROVE On(q)
      <4>1. \A r \in F : rank[r] < rank[q] => rank[r] <= k
        BY <3>1
      <4>. QED BY <4>1, <3>1, <2>2, <1>4
    <3>. QED BY <3>1
  <2>3. T \in SUBSET Nat
    OBVIOUS
  <2> HIDE DEF T
  <2>. QED BY <2>1, <2>2, <2>3, SetInduction
<1>6. On(p)
  <2>1. rank[p] \in T /\ ClassOf(S)[p] = c /\ rank[p] <= rank[p]
    BY <1>5, FreeFacts
  <2>. QED BY <2>1
<1>7. PICK n \in Nat : L[n] = p
  BY <1>6 DEF On
<1>8. p # NULL /\ Longest \in Nat
  BY FreeFacts, ConstFacts DEF Longest, DSIZE
<1>9. n < Longest
  BY <1>7, <1>8, ListEnds DEF L
<1>. QED BY <1>7, <1>8, <1>9 DEF L

-----------------------------------------------------------------------------
\* First fit.
LEMMA LeastFacts ==
    ASSUME NEW T \in SUBSET Nat, T # {}
    PROVE  Least(T) \in T
<1>1. \E i \in T : \A j \in T : i <= j
  BY LeastElement
<1>. QED BY <1>1 DEF Least

\* What a request needs is a block, with room for its tags.
LEMMA AdjustedFacts ==
    ASSUME NEW size \in Nat
    PROVE  /\ Adjusted(size) \in Nat /\ Adjusted(size) >= 16 /\ Adjusted(size) % 8 = 0
           /\ Adjusted(size) >= size + 8
  BY DEF Adjusted, DSIZE

\* The places of a list with a block that is large enough are right.
LEMMA FittingFacts ==
    ASSUME NEW m, NEW S, NEW F, NEW X, NEW end, HeapState(m, end, S, F, X), NEW c \in Classes,
           NEW size \in Nat
    PROVE  /\ Fitting(m, c, size) \in SUBSET Nat
           /\ \A n \in Fitting(m, c, size) : FreeList(m, c)[n] \in F /\ S[FreeList(m, c)[n]] >= size
           /\ \A p \in F : calclass(S[p]) = c /\ S[p] >= size => Fitting(m, c, size) # {}
<1> DEFINE L == FreeList(m, c)
<1>1. Fitting(m, c, size) =
         {n \in 0..Longest : L[n] # NULL /\ size <= GETSIZE(m, L[n] - 4)}
  BY DEF Fitting, HEADER, WSIZE
<1>2. Longest \in Nat
  BY ConstFacts DEF Longest, DSIZE
<1>3. \A p \in F : GETSIZE(m, p - 4) = S[p] /\ S[p] \in Nat /\ p # NULL
  <2>1. \A p \in F : p \in DOMAIN S \ X /\ Tiles(S, end) /\ Shape(m, S, F, X, end) /\ p # NULL
    BY FreeFacts
  <2>. QED BY <2>1, TagFacts, TileFacts
<1>4. \A n \in 0..Longest : L[n] = NULL \/ L[n] \in F
  <2>1. \A n \in 0..Longest : n \in Nat
    BY <1>2
  <2>. QED BY <2>1, ListMembers
<1>5. \A p \in F : calclass(S[p]) = c => \E n \in 0..Longest : L[n] = p
  BY ListComplete
<1> HIDE DEF L
<1>6. Fitting(m, c, size) \in SUBSET Nat
  BY <1>1, <1>2
<1>7. ASSUME NEW n \in Fitting(m, c, size) PROVE L[n] \in F /\ S[L[n]] >= size
  <2>1. n \in 0..Longest /\ L[n] # NULL /\ size <= GETSIZE(m, L[n] - 4)
    BY <1>1, <1>7
  <2>2. L[n] \in F
    BY <2>1, <1>4
  <2>. QED BY <2>1, <2>2, <1>3
<1>8. ASSUME NEW p \in F, calclass(S[p]) = c, S[p] >= size PROVE Fitting(m, c, size) # {}
  <2>1. PICK n \in 0..Longest : L[n] = p
    BY <1>5, <1>8
  <2>2. n \in Fitting(m, c, size)
    BY <2>1, <1>1, <1>3, <1>8
  <2>. QED BY <2>2
<1>. QED BY <1>6, <1>7, <1>8 DEF L

\* First fit finds a free block that is large enough, whenever there is one: a
\* block that is large enough is not in a class below that of the size.
LEMMA Fit ==
    ASSUME NEW m, NEW S, NEW F, NEW X, NEW end, HeapState(m, end, S, F, X),
           NEW size \in Nat, size >= 16
    PROVE  /\ fit(m, size) # NULL => fit(m, size) \in F /\ S[fit(m, size)] >= size
           /\ fit(m, size) = NULL => \A p \in F : S[p] < size
<1> DEFINE found == {i \in calclass(size)..(LISTSIZE - 1) : Fitting(m, i, size) # {}}
           c == Least(found)
           n == Least(Fitting(m, c, size))
<1>1. calclass(size) \in Nat /\ \A i \in calclass(size)..(LISTSIZE - 1) : i \in Nat /\ i \in Classes
  <2>1. calclass(size) \in Classes /\ LISTSIZE \in Nat
    BY ClassFacts, ConstFacts
  <2>. QED BY <2>1 DEF Classes
<1>2. fit(m, size) = IF found = {} THEN NULL ELSE FreeList(m, c)[n]
  BY DEF fit
<1>3. CASE found # {}
  <2>1. found \in SUBSET Nat
    BY <1>1
  <2> HIDE DEF found
  <2>2. c \in found
    BY <2>1, <1>3, LeastFacts
  <2> HIDE DEF c
  <2>3. c \in Classes /\ Fitting(m, c, size) # {}
    BY <2>2, <1>1 DEF found
  <2>4. n \in Fitting(m, c, size)
    BY <2>3, FittingFacts, LeastFacts
  <2> HIDE DEF n
  <2>5. FreeList(m, c)[n] \in F /\ S[FreeList(m, c)[n]] >= size
    BY <2>3, <2>4, FittingFacts
  <2>6. NULL \notin F
    BY FreeFacts
  <2>. QED BY <2>5, <2>6, <1>2, <1>3
<1>4. CASE found = {}
  <2> SUFFICES ASSUME NEW p \in F, ~(S[p] < size) PROVE FALSE
    BY <1>2, <1>4
  <2>1. S[p] \in Nat /\ calclass(S[p]) \in Classes
    BY FreeFacts, TileFacts
  <2>2. calclass(size) <= calclass(S[p])
    BY <2>1, ClassGrows
  <2>3. calclass(S[p]) \in calclass(size)..(LISTSIZE - 1)
    BY <2>1, <2>2, <1>1, ConstFacts DEF Classes
  <2>4. Fitting(m, calclass(S[p]), size) # {}
    BY <2>1, FittingFacts
  <2>. QED BY <2>3, <2>4, <1>4
<1>. QED BY <1>3, <1>4


-----------------------------------------------------------------------------
\* The requests.  A block b of at least size bytes is handed out, beside the
\* blocks U in use.
Handed(m, S, U, m2, end2, b, size) ==
    /\ b # NULL /\ b \in Nat /\ b \notin U
    /\ \E S2, F2 : /\ HeapState(m2, end2, S2, F2, {}) /\ Used(S2, F2, {}) = U \cup {b}
                   /\ Spared(m, S, m2, S2, U) /\ S2[b] >= size

LEMMA PlaceHands ==
    ASSUME NEW m0, NEW S0, NEW U, NEW m, NEW end, NEW S, NEW F,
           Reached(m0, S0, U, m, end, S, F, {}),
           NEW b \in F, NEW size \in Nat, size >= 16, size % 8 = 0, size <= S[b]
    PROVE  Handed(m0, S0, U, place(m, b, size), end, b, size)
<1>1. b # NULL
  <2>1. HeapState(m, end, S, F, {})
    BY DEF Reached
  <2>. QED BY <2>1, FreeFacts
<1>. QED BY <1>1, Place DEF Handed

LEMMA MallocServes ==
    ASSUME NEW h, NEW m, NEW end, h.mem = m, h.brk = end, NEW S, NEW F, HeapState(m, end, S, F, {}),
           NEW size \in Nat, size > 0, NEW a, mm_malloc(h, size) = a
    PROVE  /\ a.ret = NULL =>
                /\ a.mem = m /\ a.brk = end
                /\ \A p \in F : S[p] < Adjusted(size)
                /\ end + Larger(Adjusted(size), CHUNKSIZE) > MAX_HEAP
           /\ a.ret # NULL =>
                /\ Handed(m, S, Used(S, F, {}), a.mem, a.brk, a.ret, Adjusted(size))
                /\ a.brk \in Nat /\ a.brk >= end
<1> DEFINE asize == Adjusted(size)
           bytes == Larger(asize, CHUNKSIZE)
           words == bytes \div 4
           bp == fit(m, asize)
           e == extend(h, words)
<1>1. /\ asize \in Nat /\ asize >= 16 /\ asize % 8 = 0 /\ size # 0
  BY AdjustedFacts
<1>2. /\ bytes \in Nat /\ bytes >= 16 /\ bytes % 8 = 0 /\ bytes >= asize
      /\ words \in Nat /\ words % 2 = 0 /\ words >= 4 /\ 4 * words = bytes
  <2>1. CHUNKSIZE \in Nat /\ CHUNKSIZE % 8 = 0 /\ CHUNKSIZE >= 16
    BY ConstFacts
  <2>2. /\ bytes \in Nat /\ bytes >= 16 /\ bytes % 8 = 0 /\ bytes >= asize
    BY <2>1, <1>1 DEF Larger
  <2> HIDE DEF bytes
  <2>. QED BY <2>2
<1>3. (IF asize > CHUNKSIZE THEN asize ELSE CHUNKSIZE) = bytes
  BY <1>1, ConstFacts DEF Larger
<1>4. a = IF bp # NULL THEN [mem |-> place(m, bp, asize), brk |-> end, ret |-> bp]
          ELSE PlaceNew(e, asize)
  BY <1>1, <1>3 DEF mm_malloc, WSIZE
<1>5. Reached(m, S, Used(S, F, {}), m, end, S, F, {})
  BY ReachedFirst
<1>6. /\ bp # NULL => bp \in F /\ S[bp] >= asize
      /\ bp = NULL => \A p \in F : S[p] < asize
  BY <1>1, Fit
<1>6a. end \in Nat
  BY DEF HeapState, Tiles
<1> HIDE DEF bp, asize
<1>7. CASE bp # NULL
  <2>1. a.mem = place(m, bp, asize) /\ a.brk = end /\ a.ret = bp
    BY <1>4, <1>7
  <2>2. bp \in F /\ asize <= S[bp]
    <3>1. bp \in F /\ S[bp] >= asize
      BY <1>6, <1>7
    <3>2. S[bp] \in Nat
      BY <3>1, FreeFacts, TileFacts
    <3>. QED BY <3>1, <3>2, <1>1
  <2>3. Handed(m, S, Used(S, F, {}), place(m, bp, asize), end, bp, asize)
    BY <1>1, <1>5, <2>2, PlaceHands
  <2>. QED BY <2>1, <2>3, <1>7, <1>6a DEF asize
<1>8. CASE bp = NULL
  <2> HIDE DEF words, bytes
  <2>1. /\ end + bytes > MAX_HEAP => e = [mem |-> m, brk |-> end, ret |-> NULL]
        /\ end + bytes <= MAX_HEAP =>
              /\ e.brk = end + bytes
              /\ \E S2, F2 : /\ Reached(m, S, Used(S, F, {}), e.mem, end + bytes, S2, F2, {})
                             /\ e.ret \in F2 /\ S2[e.ret] >= bytes
    BY <1>2, <1>5, Extend
  <2>2. a = PlaceNew(e, asize)
    BY <1>4, <1>8
  <2> HIDE DEF e
  <2>3. CASE end + bytes > MAX_HEAP
    <3>1. a = [mem |-> m, brk |-> end, ret |-> NULL]
      BY <2>1, <2>2, <2>3 DEF PlaceNew
    <3>. QED BY <3>1, <1>6, <1>8, <2>3 DEF bytes, asize
  <2>4. CASE ~(end + bytes > MAX_HEAP)
    <3>0. end + bytes <= MAX_HEAP
      BY <2>4, <1>2, <1>6a, ConstFacts
    <3>1. PICK S2, F2 : /\ Reached(m, S, Used(S, F, {}), e.mem, end + bytes, S2, F2, {})
                        /\ e.ret \in F2 /\ S2[e.ret] >= bytes
      BY <2>1, <3>0
    <3>2. HeapState(e.mem, end + bytes, S2, F2, {})
      BY <3>1 DEF Reached
    <3>3. S2[e.ret] \in Nat /\ e.ret # NULL
      BY <3>1, <3>2, FreeFacts, TileFacts
    <3>4. asize <= S2[e.ret]
      BY <3>1, <3>3, <1>1, <1>2
    <3>5. Handed(m, S, Used(S, F, {}), place(e.mem, e.ret, asize), end + bytes, e.ret, asize)
      BY <3>1, <3>4, <1>1, PlaceHands
    <3>6. a = [e EXCEPT !.mem = place(e.mem, e.ret, asize)]
      BY <2>2, <3>3 DEF PlaceNew
    <3>7. e.brk = end + bytes
      BY <2>1, <3>0
    <3>8. a.mem = place(e.mem, e.ret, asize) /\ a.brk = end + bytes /\ a.ret = e.ret
      BY <3>6, <3>7
    <3>. QED BY <3>3, <3>5, <3>8, <1>2, <1>6a DEF asize
  <2>. QED BY <2>3, <2>4
<1>. QED BY <1>7, <1>8


LEMMA FreeReturns ==
    ASSUME NEW m0, NEW S0, NEW m, NEW end, NEW S, NEW F, HeapState(m, end, S, F, {}),
           NEW b \in Used(S, F, {}), NEW V, V = Used(S, F, {}) \ {b}, Spared(m0, S0, m, S, V),
           NEW h, h.mem = m, h.brk = end, NEW a, mm_free(h, b) = a
    PROVE  /\ a.brk = end
           /\ \E S2, F2 : Reached(m0, S0, V, a.mem, end, S2, F2, {})
<1> DEFINE X == {b}
           m2 == Tag(m, b, S[b], 0)
           h2 == [h EXCEPT !.mem = m2]
<1>1. HeapState(m, end, S, F, X) /\ Used(S, F, X) = V /\ b \in X
  <2>1. {} \cup {b} = X
    OBVIOUS
  <2>. QED BY <2>1, Release
<1>2. GETSIZE(m, b - 4) = S[b] /\ S[b] \in Nat
  <2>1. Tiles(S, end) /\ Shape(m, S, F, {}, end) /\ b \in DOMAIN S \ {}
    BY FreeFacts, UsedFacts
  <2>. QED BY <2>1, TagFacts, TileFacts
<1>3. a = coalesce(h2, b)
  BY <1>2 DEF mm_free, HEADER, WSIZE
<1>4. h2.mem = m2 /\ h2.brk = end
  OBVIOUS
<1> HIDE DEF X
<1>5. /\ HeapState(m2, end, S, F, X) /\ m2[b - 4] = S[b] + 0
      /\ Spared(m, S, m2, S, Used(S, F, X))
  <2> DEFINE alloc == 0
  <2>1. alloc \in {0, 1}
    OBVIOUS
  <2> HIDE DEF alloc
  <2>2. /\ HeapState(Tag(m, b, S[b], alloc), end, S, F, X)
        /\ Tag(m, b, S[b], alloc)[b - 4] = S[b] + alloc
        /\ Spared(m, S, Tag(m, b, S[b], alloc), S, Used(S, F, X))
    <3>1. HeapState(m, end, S, F, X) /\ b \in X
      BY <1>1
    <3>. QED BY <3>1, <2>1, Retag
  <2>. QED BY <2>2 DEF alloc
<1> HIDE DEF m2, h2
<1>6. Reached(m0, S0, V, m, end, S, F, X)
  BY <1>1 DEF Reached
<1>7. Reached(m0, S0, V, m2, end, S, F, X)
  BY <1>5, <1>6, ReachedNext
<1>8. m2[b - 4] = S[b]
  BY <1>2, <1>5
<1>9. X = {b}
  BY DEF X
<1>10. /\ coalesce(h2, b).brk = end
       /\ \E S2, F2 : Reached(m0, S0, V, coalesce(h2, b).mem, end, S2, F2, {})
  BY <1>4, <1>7, <1>8, <1>9, Coalesce
<1>. QED BY <1>3, <1>10


\* What a block at b held in a heap m is what the block at b2 holds in m2.
Kept(m, b, m2, b2, size) ==
    \A w \in Words : b2 <= w /\ w < b2 + size - DSIZE => m2[w] = m[b + (w - b2)]

\* A block that takes what it needs of the free block after it.
LEMMA GrowsInPlace ==
    ASSUME NEW m, NEW end, NEW S, NEW F, HeapState(m, end, S, F, {}), NEW b \in Used(S, F, {}),
           NEW V, V = Used(S, F, {}) \ {b}, NEW n \in F, b + S[b] = n,
           NEW size \in Nat, size % 8 = 0, size > S[b], S[b] + S[n] - size >= 16,
           NEW m3, m3 = insert(Tag(Tag(delete(m, n), b, size, 1), b + size, S[b] + S[n] - size, 0),
                               b + size)
    PROVE  Handed(m, S, V, m3, end, b, size) /\ Kept(m, b, m3, b, S[b])
<1> DEFINE X == {b}
           m1 == delete(m, n)
           T == Merge(S, b)
           G == F \ {n}
<1>1. HeapState(m, end, S, F, X) /\ Used(S, F, X) = V
  <2>1. {} \cup {b} = X
    OBVIOUS
  <2>. QED BY <2>1, Release
<1>2. /\ b \in Nat /\ b >= LOW /\ LOW \in Nat /\ S[b] \in Nat /\ S[b] >= 16 /\ S[b] % 8 = 0
      /\ b \in DOMAIN S
  BY UsedFacts, ConstFacts
<1>3. Spared(m, S, m1, S, Used(S, F, {}))
  BY Unlist
<1> HIDE DEF X
<1>4. Reached(m, S, V, m, end, S, F, X)
  BY <1>1, ReachedFirst
<1>5. /\ Reached(m, S, V, m1, end, T, G, X)
      /\ T[b] = S[b] + S[n] /\ b + T[b] \notin F
  <2>1. X = {b}
    BY DEF X
  <2>. QED BY <2>1, <1>4, JoinNext
<1> HIDE DEF T, m1
<1>6. \E S2, F2 : /\ HeapState(m3, end, S2, F2, {}) /\ Used(S2, F2, {}) = V \cup {b}
                  /\ Spared(m, S, m3, S2, V) /\ S2[b] = size
                  /\ \A w \in Words : b <= w /\ w < b + size - 8 => m3[w] = m1[w]
  <2>1. X = {b} /\ b + T[b] \notin G
    BY <1>5 DEF X
  <2>0. S[n] \in Nat /\ S[b] \in Nat /\ T[b] = S[b] + S[n]
    <3>1. S[n] \in Nat
      BY FreeFacts, TileFacts
    <3>. QED BY <3>1, <1>2, <1>5
  <2>2. size >= 16 /\ T[b] - size >= 16
    BY <1>2, <2>0
  <2>3. m3 = insert(Tag(Tag(m1, b, size, 1), b + size, T[b] - size, 0), b + size)
    <3>1. m3 = insert(Tag(Tag(m1, b, size, 1), b + size, S[b] + S[n] - size, 0), b + size)
      BY DEF m1
    <3>2. T[b] - size = S[b] + S[n] - size
      BY ONLY <2>0, size \in Nat
    <3> DEFINE rest == T[b] - size
    <3>3. m3 = insert(Tag(Tag(m1, b, size, 1), b + size, rest, 0), b + size)
      BY <3>1, <3>2
    <3>. QED BY <3>3
  <2>. QED BY <2>1, <2>2, <2>3, <1>5, SplitOff
<1>7. PICK S2, F2 : /\ HeapState(m3, end, S2, F2, {}) /\ Used(S2, F2, {}) = V \cup {b}
                    /\ Spared(m, S, m3, S2, V) /\ S2[b] = size
                    /\ \A w \in Words : b <= w /\ w < b + size - 8 => m3[w] = m1[w]
  BY <1>6
<1>8. Handed(m, S, V, m3, end, b, size)
  <2>1. b # NULL /\ b \notin V /\ S2[b] >= size
    BY <1>2, <1>7, ConstFacts DEF NULL
  <2>. QED BY <2>1, <1>2, <1>7 DEF Handed
<1>9. Kept(m, b, m3, b, S[b])
  <2> SUFFICES ASSUME NEW w \in Words, b <= w, w < b + S[b] - 8
               PROVE  m3[w] = m[b + (w - b)]
    BY DEF Kept, DSIZE
  <2>0. w \in Nat /\ b + (w - b) = w
    <3>1. w \in Nat
      BY WordFacts
    <3>. QED BY <3>1, <1>2
  <2>1. m3[w] = m1[w]
    BY <2>0, <1>2, <1>7
  <2>2. m1[w] = m[w]
    BY <1>3 DEF Spared, DSIZE
  <2>. QED BY <2>0, <2>1, <2>2
<1>. QED BY <1>8, <1>9

\* What is written to the data of a block in use changes nothing else.
LEMMA DataFrame ==
    ASSUME NEW m, NEW end, NEW S, NEW F, HeapState(m, end, S, F, {}), NEW new \in Used(S, F, {}),
           NEW m2 \in [Words -> Int],
           \A w \in Words : ~(new <= w /\ w < new + S[new] - 8) => m2[w] = m[w]
    PROVE  HeapState(m2, end, S, F, {}) /\ Spared(m, S, m2, S, Used(S, F, {}) \ {new})
<1>1. /\ new \in Nat /\ S[new] \in Nat /\ new + S[new] <= end /\ new \in DOMAIN S
      /\ new >= LOW /\ new \notin F
  BY UsedFacts
<1>2. /\ Tiles(S, end) /\ end \in Nat /\ F \subseteq DOMAIN S \ {Prologue} /\ LOW \in Nat
  BY <1>1, FreeFacts, TileFacts, ConstFacts
<1>3. ASSUME NEW w \in Words, ~(new <= w /\ w < new + S[new] - 8) PROVE m2[w] = m[w]
  BY <1>3
<1>4. ASSUME NEW p \in DOMAIN S, NEW w \in Words, p # new, p <= w, w < p + S[p] - 8
      PROVE  m2[w] = m[w]
  <2>1. ~(new <= w /\ w < new + S[new] - 8)
    BY <1>1, <1>2, <1>4, DataApart
  <2>. QED BY <2>1, <1>3
<1>5. HeapState(m2, end, S, F, {})
  <2>1. \A p \in DOMAIN S \ {} : m2[p - 4] = m[p - 4] /\ m2[p + S[p] - 8] = m[p + S[p] - 8]
    <3> SUFFICES ASSUME NEW p \in DOMAIN S
                 PROVE  m2[p - 4] = m[p - 4] /\ m2[p + S[p] - 8] = m[p + S[p] - 8]
      OBVIOUS
    <3>1. p - 4 \in Words /\ p + S[p] - 8 \in Words
      BY <1>2, BlockWords
    <3>2. ~(new <= p - 4 /\ p - 4 < new + S[new] - 8)
      BY <3>1, <1>1, <1>2, DataApart
    <3>3. ~(new <= p + S[p] - 8 /\ p + S[p] - 8 < new + S[new] - 8)
      BY <3>1, <1>1, <1>2, DataApart
    <3>. QED BY <3>1, <3>2, <3>3, <1>3
  <2>2. m2[end - 4] = m[end - 4]
    <3>1. end - 4 \in Words
      BY <1>1, <1>2, BlockWords
    <3>2. ~(new <= end - 4 /\ end - 4 < new + S[new] - 8)
      BY <3>1, <1>1, <1>2, DataApart
    <3>. QED BY <3>1, <3>2, <1>3
  <2>3. \A w \in Links(F) : m2[w] = m[w]
    <3>1. ASSUME NEW c \in Classes PROVE m2[ROOT(c)] = m[ROOT(c)]
      <4>1. ROOT(c) \in Words /\ ROOT(c) \in Nat /\ ROOT(c) < LOW - 8
        BY RootFacts
      <4>. QED BY <4>1, <1>1, <1>2, <1>3
    <3>2. ASSUME NEW p \in F PROVE m2[p] = m[p] /\ m2[p + 4] = m[p + 4]
      <4>1. p \in DOMAIN S /\ p # new /\ p \in Words /\ p + 4 \in Words /\ p \in Nat
        BY <1>1, FreeFacts
      <4>2. S[p] \in Nat /\ S[p] >= 16
        BY <4>1, <1>2, TileFacts
      <4>. QED BY <4>1, <4>2, <1>4
    <3>. QED BY <3>1, <3>2 DEF Links
  <2>. QED BY <2>1, <2>2, <2>3, Frame
<1>6. Spared(m, S, m2, S, Used(S, F, {}) \ {new})
  <2>1. \A p \in Used(S, F, {}) \ {new} : p \in DOMAIN S /\ p # new
    BY UsedFacts
  <2>. QED BY <2>1, <1>4 DEF Spared, DSIZE
<1>. QED BY <1>5, <1>6

\* The data of a block is copied into another, and nothing else changes.
LEMMA CopyFacts ==
    ASSUME NEW m, NEW end, NEW S, NEW F, HeapState(m, end, S, F, {}),
           NEW b \in Used(S, F, {}), NEW new \in Used(S, F, {}), S[b] + 16 <= S[new],
           NEW m2, m2 = Copied(m, new, b, S[b])
    PROVE  /\ HeapState(m2, end, S, F, {})
           /\ Spared(m, S, m2, S, Used(S, F, {}) \ {new})
           /\ Kept(m, b, m2, new, S[b])
<1>1. /\ b \in Nat /\ b % 8 = 0 /\ S[b] \in Nat /\ b + S[b] <= end /\ b \in DOMAIN S /\ S[b] % 8 = 0
      /\ new \in Nat /\ new % 8 = 0 /\ S[new] \in Nat /\ new + S[new] <= end /\ new \in DOMAIN S
      /\ new >= LOW /\ new \notin F
  BY UsedFacts
<1>2. /\ Tiles(S, end) /\ end \in Nat /\ end <= MAX_HEAP /\ m \in [Words -> Int]
      /\ F \subseteq DOMAIN S \ {Prologue} /\ LOW \in Nat /\ MAX_HEAP \in Nat
  BY <1>1, FreeFacts, TileFacts, ConstFacts
<1>3. \A w \in Words : w \in Nat /\ w % 4 = 0 /\ w < MAX_HEAP
  BY WordFacts
<1>4. \A w \in Words : m2[w] = IF w \in new..(new + S[b] - 1) THEN m[b + (w - new)] ELSE m[w]
  BY DEF Copied
<1>5. ASSUME NEW w \in Words, w \in new..(new + S[b] - 1)
      PROVE  b + (w - new) \in Words /\ new <= w /\ w < new + S[new] - 8
  <2>1. w \in Nat /\ w % 4 = 0 /\ new <= w /\ w <= new + S[b] - 1
    BY <1>1, <1>3, <1>5
  <2>2. b + (w - new) \in Nat /\ b + (w - new) < MAX_HEAP
    BY <2>1, <1>1, <1>2
  <2>3. (b + (w - new)) % 4 = 0
    <3>1. b % 4 = 0 /\ new % 4 = 0
      BY <1>1
    <3>. QED BY <3>1, <2>1, <1>1
  <2>4. b + (w - new) \in Words
    BY <2>2, <2>3, WordFacts
  <2>5. w < new + S[new] - 8
    BY <2>1, <1>1
  <2>. QED BY <2>1, <2>4, <2>5
<1>6. m2 \in [Words -> Int]
  <2>1. \A w \in Words : m[w] \in Int
    BY <1>2
  <2>2. \A w \in Words : m2[w] \in Int
    BY <2>1, <1>4, <1>5
  <2>3. m2 = [w \in Words |-> m2[w]]
    BY DEF Copied
  <2>. QED BY <2>2, <2>3
<1>7. ASSUME NEW w \in Words, ~(new <= w /\ w < new + S[new] - 8) PROVE m2[w] = m[w]
  BY <1>4, <1>5, <1>7
<1>8. HeapState(m2, end, S, F, {}) /\ Spared(m, S, m2, S, Used(S, F, {}) \ {new})
  BY <1>6, <1>7, DataFrame
<1>9. Kept(m, b, m2, new, S[b])
  <2> SUFFICES ASSUME NEW w \in Words, new <= w, w < new + S[b] - 8
               PROVE  m2[w] = m[b + (w - new)]
    BY DEF Kept, DSIZE
  <2>1. w \in new..(new + S[b] - 1)
    BY <1>1, <1>3
  <2>. QED BY <2>1, <1>4
<1>. QED BY <1>8, <1>9


\* A block that is copied to another, which has been allocated for it, and freed.
LEMMA Moves ==
    ASSUME NEW m, NEW end, NEW S, NEW F, HeapState(m, end, S, F, {}), NEW b \in Used(S, F, {}),
           NEW V, V = Used(S, F, {}) \ {b}, NEW size \in Nat, size >= S[b] + 8,
           NEW new, new.ret # NULL, Handed(m, S, Used(S, F, {}), new.mem, new.brk, new.ret, Adjusted(size)),
           NEW a, a = Move(new, b, S[b])
    PROVE  /\ a.ret = new.ret /\ a.brk = new.brk
           /\ Handed(m, S, V, a.mem, a.brk, a.ret, size) /\ Kept(m, b, a.mem, a.ret, S[b])
<1> DEFINE p == new.ret
           m1 == new.mem
           U == Used(S, F, {})
           m2 == Copied(m1, p, b, S[b])
           h2 == [new EXCEPT !.mem = m2]
           f == mm_free(h2, b)
<1>1. PICK S1, F1 : /\ HeapState(m1, new.brk, S1, F1, {}) /\ Used(S1, F1, {}) = U \cup {p}
                    /\ Spared(m, S, m1, S1, U) /\ S1[p] >= Adjusted(size)
                    /\ p # NULL /\ p \in Nat /\ p \notin U
  BY DEF Handed
<1>2. S1[b] = S[b] /\ b \in Used(S1, F1, {}) /\ p \in Used(S1, F1, {}) /\ b # p
  BY <1>1 DEF Spared
<1>3. b \in Nat /\ S[b] \in Nat /\ S[b] >= 16 /\ S1[p] \in Nat
  BY <1>1, <1>2, UsedFacts
<1>4. S1[b] + 16 <= S1[p] /\ S1[p] >= size
  <2>1. Adjusted(size) \in Nat /\ Adjusted(size) >= size + 8
    BY AdjustedFacts
  <2>2. S1[p] >= Adjusted(size) /\ S1[b] = S[b] /\ S[b] \in Nat /\ S1[p] \in Nat
    BY <1>1, <1>2, <1>3
  <2>. QED BY ONLY <2>1, <2>2, size \in Nat, size >= S[b] + 8
<1>5. a = [f EXCEPT !.ret = p]
  BY DEF Move
<1>6. h2.mem = m2 /\ h2.brk = new.brk
  OBVIOUS
<1>7. a.mem = f.mem /\ a.brk = f.brk /\ a.ret = p
  BY <1>5
<1> HIDE DEF h2, p, m1, U
<1>8. /\ HeapState(m2, new.brk, S1, F1, {})
      /\ Spared(m1, S1, m2, S1, Used(S1, F1, {}) \ {p})
      /\ Kept(m1, b, m2, p, S1[b])
  <2>1. m2 = Copied(m1, p, b, S1[b])
    BY <1>2
  <2> HIDE DEF m2
  <2>. QED BY <2>1, <1>1, <1>2, <1>4, CopyFacts
<1> HIDE DEF m2, f
<1> DEFINE W == Used(S1, F1, {}) \ {b}
<1>9. /\ f.brk = new.brk
      /\ \E S2, F2 : Reached(m2, S1, W, f.mem, new.brk, S2, F2, {})
  <2>1. Spared(m2, S1, m2, S1, W)
    BY DEF Spared, Used
  <2>2. f = mm_free(h2, b)
    BY DEF f
  <2> HIDE DEF W
  <2>3. W = Used(S1, F1, {}) \ {b}
    BY DEF W
  <2>. QED BY <2>1, <2>2, <2>3, <1>2, <1>6, <1>8, FreeReturns
<1>10. PICK S2, F2 : Reached(m2, S1, W, f.mem, new.brk, S2, F2, {})
  BY <1>9
<1>11. V \subseteq U /\ V \subseteq Used(S1, F1, {}) \ {p} /\ V \subseteq W /\ p \in W /\ W = V \cup {p} /\ p \notin V
  BY <1>1, <1>2 DEF U
<1>12. Spared(m, S, f.mem, S2, V)
  <2>1. Spared(m, S, m2, S1, V)
    <3> DEFINE Q == Used(S1, F1, {}) \ {p}
    <3>1. Spared(m1, S1, m2, S1, Q) /\ V \subseteq Q
      BY <1>8, <1>11
    <3>2. Spared(m1, S1, m2, S1, V)
      BY <3>1 DEF Spared
    <3>3. Spared(m, S, m1, S1, U) /\ Spared(m, S, m1, S1, V)
      BY <1>1, <1>11 DEF Spared
    <3>. QED BY <3>2, <3>3, SparedTwice
  <2>2. Spared(m2, S1, f.mem, S2, W)
    BY <1>10 DEF Reached
  <2> HIDE DEF W
  <2>. QED BY <2>1, <2>2, <1>11, SparedTwice
<1>13. S2[p] = S1[p] /\ \A w \in Words : p <= w /\ w < p + S1[p] - 8 => f.mem[w] = m2[w]
  BY <1>10, <1>11 DEF Reached, Spared, DSIZE
<1>14. Handed(m, S, V, f.mem, new.brk, p, size)
  <2>1. HeapState(f.mem, new.brk, S2, F2, {}) /\ Used(S2, F2, {}) = V \cup {p}
    BY <1>10, <1>11 DEF Reached
  <2>2. S2[p] >= size
    BY <1>4, <1>13
  <2>. QED BY <2>1, <2>2, <1>1, <1>11, <1>12 DEF Handed
<1>15. Kept(m, b, f.mem, p, S[b])
  <2> SUFFICES ASSUME NEW w \in Words, p <= w, w < p + S[b] - 8
               PROVE  f.mem[w] = m[b + (w - p)]
    BY DEF Kept, DSIZE
  <2>1. w \in Nat /\ w % 4 = 0 /\ p \in Nat /\ p % 8 = 0 /\ b % 8 = 0
    <3>1. b % 8 = 0
      BY UsedFacts
    <3>2. p \in Nat /\ p % 8 = 0
      BY <1>1, <1>2, UsedFacts
    <3>. QED BY <3>1, <3>2, WordFacts
  <2>2. f.mem[w] = m2[w]
    <3>1. w < p + S1[p] - 8
      BY <2>1, <1>2, <1>3, <1>4
    <3>. QED BY <3>1, <1>13
  <2>3. m2[w] = m1[b + (w - p)]
    BY <1>2, <1>8 DEF Kept, DSIZE
  <2> DEFINE v == b + (w - p)
  <2>4. v \in Nat /\ b <= v /\ v < b + S[b] - 8
    BY <2>1, <1>3
  <2>5. v \in Words
    <3>1. v % 4 = 0
      <4>1. p % 4 = 0 /\ b % 4 = 0
        BY <2>1, <1>3
      <4>. QED BY <4>1, <2>1, <1>3
    <3>2. v < MAX_HEAP
      <4>1. b + S[b] <= end /\ end \in Nat /\ end <= MAX_HEAP /\ MAX_HEAP \in Nat
        BY UsedFacts, FreeFacts, TileFacts, ConstFacts
      <4> HIDE DEF v
      <4>. QED BY <4>1, <2>4, <1>3
    <3> HIDE DEF v
    <3>. QED BY <3>1, <3>2, <2>4, WordFacts
  <2> HIDE DEF v
  <2>6. m1[v] = m[v]
    <3>1. b \in U
      BY DEF U
    <3>. QED BY <3>1, <2>4, <2>5, <1>1 DEF Spared, DSIZE
  <2>. QED BY <2>2, <2>3, <2>6 DEF v
<1>. QED BY <1>7, <1>9, <1>14, <1>15 DEF p


\* mm_realloc() of a block in use, where it does not break: a block of the new size
\* that holds what the old one did, in the place of the old one.
LEMMA ReallocServes ==
    ASSUME NEW h, NEW m, NEW end, h.mem = m, h.brk = end, NEW S, NEW F, HeapState(m, end, S, F, {}),
           NEW b \in Used(S, F, {}), NEW V, V = Used(S, F, {}) \ {b}, NEW size \in Nat, size > 0,
           ~ReallocBreaks(h, b, size), NEW a, a = mm_realloc(h, b, size)
    PROVE  /\ a.ret # NULL /\ a.brk \in Nat /\ a.brk >= end
           /\ Handed(m, S, V, a.mem, a.brk, a.ret, Adjusted(size)) /\ Kept(m, b, a.mem, a.ret, S[b])
<1> DEFINE asize == Adjusted(size)
           n == b + S[b]
           rest == S[b] + GETSIZE(m, n - 4) - asize
           new == mm_malloc(h, asize)
<1>1. asize \in Nat /\ asize >= 16 /\ asize % 8 = 0 /\ asize > 0 /\ size # 0
  BY AdjustedFacts
<1>2. /\ Tiles(S, end) /\ Shape(m, S, F, {}, end) /\ b \in DOMAIN S /\ end \in Nat
      /\ F \subseteq DOMAIN S /\ b \notin F
  BY FreeFacts, UsedFacts DEF Tiles
<1>3. /\ b \in Nat /\ b # NULL /\ S[b] \in Nat /\ S[b] >= 16 /\ S[b] % 8 = 0 /\ n \in Nat
  <2>1. b \in Nat /\ b >= LOW /\ S[b] \in Nat /\ S[b] >= 16 /\ S[b] % 8 = 0
    BY UsedFacts
  <2>. QED BY <2>1, ConstFacts DEF NULL
<1>4. GETSIZE(m, HEADER(b)) = S[b] /\ NEXTBLOCK(m, b) = n /\ HEADER(n) = n - 4
  <2>1. b \in DOMAIN S \ {}
    BY <1>2
  <2>2. GETSIZE(m, b - 4) = S[b]
    BY <2>1, <1>2, TagFacts
  <2>. QED BY <2>2 DEF HEADER, NEXTBLOCK, WSIZE
<1>5. asize > S[b] => IF GETALLOC(m, n - 4) = 0 THEN ~(S[b] + GETSIZE(m, n - 4) < asize + 16)
                      ELSE new.ret # NULL
  BY <1>4 DEF ReallocBreaks, DSIZE
<1>6. a = IF asize <= S[b] THEN [mem |-> m, brk |-> end, ret |-> b]
          ELSE IF GETALLOC(m, n - 4) = 0
          THEN [mem |-> insert(Tag(Tag(delete(m, n), b, asize, 1), b + asize, rest, 0), b + asize),
                brk |-> end, ret |-> b]
          ELSE Move(new, b, S[b])
  BY <1>1, <1>4 DEF mm_realloc
<1> HIDE DEF asize, new
<1>7. CASE asize <= S[b]
  <2>1. a.mem = m /\ a.brk = end /\ a.ret = b
    BY <1>6, <1>7
  <2>2. Used(S, F, {}) = V \cup {b} /\ b \notin V /\ Spared(m, S, m, S, V)
    BY DEF Spared, Used
  <2>3. Handed(m, S, V, m, end, b, asize)
    BY <2>2, <1>1, <1>3, <1>7 DEF Handed
  <2>4. Kept(m, b, m, b, S[b])
    <3>1. \A w \in Words : b + (w - b) = w
      BY <1>3, WordFacts
    <3>. QED BY <3>1 DEF Kept
  <2>. QED BY <2>1, <2>3, <2>4, <1>2, <1>3 DEF asize
<1>8. CASE ~(asize <= S[b]) /\ GETALLOC(m, n - 4) = 0
  <2> DEFINE m3 == insert(Tag(Tag(delete(m, n), b, asize, 1), b + asize, rest, 0), b + asize)
  <2>1. a.mem = m3 /\ a.brk = end /\ a.ret = b
    BY <1>6, <1>8
  <2>2. n \in F
    <3>1. n # end
      <4>1. GETALLOC(m, end - 4) = 1
        <5>1. b \in DOMAIN S \ {}
          BY <1>2
        <5>. QED BY <5>1, <1>2, TagFacts
      <4>. QED BY <4>1, <1>8
    <3>2. n \in DOMAIN S \ {}
      BY <3>1, <1>2 DEF Tiles
    <3>3. GETALLOC(m, n - 4) = (IF n \in F THEN 0 ELSE 1)
      BY <3>2, <1>2, TagFacts
    <3>. QED BY <3>3, <1>8
  <2>3. GETSIZE(m, n - 4) = S[n] /\ S[n] \in Nat
    <3>1. n \in DOMAIN S \ {}
      BY <2>2, <1>2
    <3>. QED BY <3>1, <1>2, TagFacts, TileFacts
  <2>4. asize > S[b] /\ S[b] + S[n] - asize >= 16
    BY <2>3, <1>1, <1>3, <1>5, <1>8
  <2> HIDE DEF n, m3
  <2>5. m3 = insert(Tag(Tag(delete(m, n), b, asize, 1), b + asize, S[b] + S[n] - asize, 0), b + asize)
    BY <2>3 DEF m3
  <2>6. Handed(m, S, V, m3, end, b, asize) /\ Kept(m, b, m3, b, S[b])
    <3>1. b + S[b] = n
      BY DEF n
    <3>. QED BY <3>1, <2>2, <2>4, <2>5, <1>1, GrowsInPlace
  <2>. QED BY <2>1, <2>6, <1>2, <1>3 DEF asize
<1>9. CASE ~(asize <= S[b]) /\ GETALLOC(m, n - 4) # 0
  <2>1. a = Move(new, b, S[b])
    BY <1>6, <1>9
  <2>2. asize > S[b] /\ asize >= S[b] + 8 /\ new.ret # NULL
    <3>1. asize > S[b] /\ asize >= S[b] + 8
      BY <1>1, <1>3, <1>9
    <3>. QED BY <3>1, <1>5, <1>9
  <2>3. /\ Handed(m, S, Used(S, F, {}), new.mem, new.brk, new.ret, Adjusted(asize))
        /\ new.brk \in Nat /\ new.brk >= end
    <3>1. mm_malloc(h, asize) = new
      BY DEF new
    <3>. QED BY <3>1, <2>2, <1>1, MallocServes
  <2>4. /\ a.ret = new.ret /\ a.brk = new.brk
        /\ Handed(m, S, V, a.mem, a.brk, a.ret, asize) /\ Kept(m, b, a.mem, a.ret, S[b])
    <3>1. /\ HeapState(m, end, S, F, {}) /\ b \in Used(S, F, {}) /\ V = Used(S, F, {}) \ {b}
          /\ asize \in Nat /\ asize >= S[b] + 8 /\ new.ret # NULL
          /\ Handed(m, S, Used(S, F, {}), new.mem, new.brk, new.ret, Adjusted(asize))
          /\ a = Move(new, b, S[b])
      BY <2>1, <2>2, <2>3, <1>1
    <3>. QED BY ONLY <3>1, Moves
  <2>. QED BY <2>2, <2>3, <2>4 DEF asize
<1>. QED BY <1>7, <1>8, <1>9


\* mm_init(): a heap of the prologue and one free block.
LEMMA InitServes ==
    /\ mm_init.brk \in Nat
    /\ \E S, F : HeapState(mm_init.mem, mm_init.brk, S, F, {}) /\ Used(S, F, {}) = {}
<1> DEFINE size == (LISTSIZE + 2) * 4
           m == [w \in Words |-> IF w \in {4, size} THEN size + 1
                                 ELSE IF w = (LISTSIZE + 3) * 4 THEN 1 ELSE 0]
           S == [p \in {8} |-> size]
           words == CHUNKSIZE \div 4
           h == [mem |-> m, brk |-> LOW]
           F == {}
<1>1. /\ LISTSIZE \in Nat /\ LISTSIZE >= 4 /\ LISTSIZE % 2 = 0 /\ Prologue = 8
      /\ LOW \in Nat /\ LOW = 4 * LISTSIZE + 16 /\ LOW % 8 = 0 /\ LOW + CHUNKSIZE <= MAX_HEAP
      /\ CHUNKSIZE \in Nat /\ CHUNKSIZE % 8 = 0 /\ CHUNKSIZE >= 16 /\ MAX_HEAP \in Nat
  BY ConstFacts
<1>2. /\ size \in Nat /\ size >= 16 /\ size % 8 = 0 /\ 8 + size = LOW /\ (LISTSIZE + 3) * 4 = LOW - 4
      /\ size = LOW - 8
  BY <1>1
<1>3. mm_init = extend(h, words)
  <2>1. \A w : (w \in {4, (LISTSIZE + 2) * 4}) = (w \in {4, size})
    OBVIOUS
  <2>2. PACK((LISTSIZE + 2) * 4, 1) = size + 1 /\ PACK(0, 1) = 1
    BY DEF PACK
  <2>. QED BY <2>1, <2>2 DEF mm_init, WSIZE, LOW
<1> HIDE DEF size
<1>4. Tiles(S, LOW)
  <2>1. DOMAIN S = {8} /\ S[8] = size /\ LOW <= MAX_HEAP
    BY <1>1
  <2> HIDE DEF S
  <2>2. S[Prologue] = (LISTSIZE + 2) * WSIZE /\ Prologue \in DOMAIN S
    BY <2>1, <1>1 DEF size, WSIZE
  <2>. QED BY <2>1, <2>2, <1>1, <1>2 DEF Tiles
<1>5. m \in [Words -> Int]
  BY <1>2
<1>6. Shape(m, S, F, {}, LOW)
  <2>1. m[LOW - 4] = 1
    <3>1. LOW - 4 \in Words
      BY <1>4, <1>1, BlockWords
    <3>. QED BY <3>1, <1>1, <1>2
  <2>2. 8 \in DOMAIN S /\ S[8] = size
    OBVIOUS
  <2>3. m[8 - 4] = size + 1 /\ m[8 + size - 8] = size + 1
    <3>1. 8 - 4 \in Words /\ 8 + size - 8 \in Words
      BY <2>2, <1>4, BlockWords
    <3>2. 8 - 4 = 4 /\ 8 + size - 8 = size
      BY <1>2
    <3>. QED BY <3>1, <3>2
  <2>. QED BY <2>1, <2>2, <2>3 DEF Shape, WSIZE, DSIZE
<1>7. Listed(m, S, F)
  <2>1. ASSUME NEW c \in Classes PROVE m[ROOT(c)] = NULL
    <3>1. ROOT(c) \in Words /\ ROOT(c) \in Nat /\ 8 <= ROOT(c) /\ ROOT(c) < LOW - 8
      BY RootFacts
    <3>. QED BY <3>1, <1>1, <1>2 DEF NULL
  <2> DEFINE rank == [p \in F |-> 0]
  <2>2. rank \in [F -> Nat]
    OBVIOUS
  <2>3. Chains(RootsIn(m), NextIn(m, F), PrevIn(m, F), ClassOf(S), F, rank)
    BY <2>1 DEF Chains, RootsIn
  <2>. QED BY <2>2, <2>3 DEF Listed
<1>8. HeapState(m, LOW, S, F, {}) /\ Used(S, F, {}) = {}
  <2>1. DOMAIN S = {Prologue}
    BY <1>1
  <2> HIDE DEF S, m
  <2>. QED BY <2>1, <1>4, <1>5, <1>6, <1>7 DEF HeapState, Used
<1> HIDE DEF F, m, S
<1>9. Reached(m, S, {}, m, LOW, S, F, {})
  BY <1>8, ReachedFirst
<1>10. h.mem = m /\ h.brk = LOW
  OBVIOUS
<1>11. words \in Nat /\ words % 2 = 0 /\ words >= 4 /\ LOW + 4 * words <= MAX_HEAP
  BY <1>1
<1> HIDE DEF h, words
<1>12. /\ extend(h, words).brk = LOW + 4 * words
       /\ \E S2, F2 : Reached(m, S, {}, extend(h, words).mem, LOW + 4 * words, S2, F2, {})
  BY <1>9, <1>10, <1>11, Extend
<1>. QED BY <1>1, <1>3, <1>11, <1>12 DEF Reached


-----------------------------------------------------------------------------
\* The trace.  The owner of a block fills it.
LEMMA FillFacts ==
    ASSUME NEW m, NEW end, NEW S, NEW F, HeapState(m, end, S, F, {}), NEW b \in Used(S, F, {}),
           NEW size \in Nat, size + 8 <= S[b], NEW id \in Nat, NEW m2, m2 = Filled(m, b, id, size)
    PROVE  /\ HeapState(m2, end, S, F, {})
           /\ Spared(m, S, m2, S, Used(S, F, {}) \ {b})
           /\ Holds(m2, b, id, size)
<1>1. b \in Nat /\ S[b] \in Nat /\ m \in [Words -> Int]
  BY UsedFacts, FreeFacts
<1>2. \A w \in Words : m2[w] = IF w \in b..(b + size - 1) THEN -id ELSE m[w]
  BY DEF Filled
<1>3. m2 \in [Words -> Int]
  <2>1. \A w \in Words : m2[w] \in Int
    BY <1>1, <1>2
  <2>2. m2 = [w \in Words |-> m2[w]]
    BY DEF Filled
  <2>. QED BY <2>1, <2>2
<1>4. \A w \in Words : ~(b <= w /\ w < b + S[b] - 8) => m2[w] = m[w]
  <2> SUFFICES ASSUME NEW w \in Words, ~(b <= w /\ w < b + S[b] - 8) PROVE m2[w] = m[w]
    OBVIOUS
  <2>1. w \in Nat
    BY WordFacts
  <2>2. w \notin b..(b + size - 1)
    BY <2>1, <1>1
  <2>. QED BY <2>2, <1>2
<1>5. HeapState(m2, end, S, F, {}) /\ Spared(m, S, m2, S, Used(S, F, {}) \ {b})
  BY <1>3, <1>4, DataFrame
<1>6. Holds(m2, b, id, size)
  BY <1>2 DEF Holds
<1>. QED BY <1>5, <1>6

\* The blocks bl, of sz bytes each, of the owners J are those in use.
Owned(m, end, S, F, J, bl, sz) ==
    /\ HeapState(m, end, S, F, {}) /\ Used(S, F, {}) = {bl[id] : id \in J}
    /\ J \subseteq Ids
    /\ \A id \in J : bl[id] \in Nat /\ sz[id] \in Nat /\ sz[id] + DSIZE <= S[bl[id]]
    /\ \A id, other \in J : bl[id] = bl[other] => id = other

Payload(bl, sz, id) == bl[id]..(bl[id] + sz[id] - 1)
Payloads(J, bl, sz) == UNION {Payload(bl, sz, id) : id \in J}

LEMMA PayloadFacts ==
    ASSUME NEW m, NEW end, NEW S, NEW F, NEW J, NEW bl, NEW sz, Owned(m, end, S, F, J, bl, sz)
    PROVE  /\ end \in Nat
           /\ \A id \in J : Payload(bl, sz, id) \subseteq 0..(end - 1)
           /\ \A id, other \in J : id # other =>
                 \/ bl[id] + sz[id] <= bl[other] - 8 \/ bl[other] + sz[other] <= bl[id] - 8
<1>1. HeapState(m, end, S, F, {})
  BY DEF Owned
<1>2. end \in Nat /\ Tiles(S, end)
  BY <1>1 DEF HeapState, Tiles
<1>3. ASSUME NEW id \in J
      PROVE  /\ bl[id] \in Nat /\ sz[id] \in Nat /\ sz[id] + 8 <= S[bl[id]] /\ bl[id] \in DOMAIN S
             /\ S[bl[id]] \in Nat /\ bl[id] + S[bl[id]] <= end
  <2>1. bl[id] \in Used(S, F, {})
    BY DEF Owned
  <2>. QED BY <2>1, <1>1, UsedFacts DEF Owned, DSIZE
<1>4. ASSUME NEW id \in J PROVE Payload(bl, sz, id) \subseteq 0..(end - 1)
  BY <1>2, <1>3 DEF Payload
<1>5. ASSUME NEW id \in J, NEW other \in J, id # other
      PROVE  bl[id] + sz[id] <= bl[other] - 8 \/ bl[other] + sz[other] <= bl[id] - 8
  <2>1. bl[id] # bl[other]
    BY <1>5 DEF Owned
  <2>2. bl[id] + S[bl[id]] <= bl[other] \/ bl[other] + S[bl[other]] <= bl[id]
    BY <2>1, <1>2, <1>3, Apart
  <2>. QED BY <2>2, <1>3
<1>. QED BY <1>2, <1>4, <1>5

\* The payloads of all the owners and of all but one.
LEMMA PayloadsCount ==
    ASSUME NEW m, NEW end, NEW S, NEW F, NEW J, NEW bl, NEW sz, Owned(m, end, S, F, J, bl, sz),
           NEW id \in J, NEW K, K = J \ {id}
    PROVE  /\ Cardinality(Payloads(K, bl, sz)) \in Nat
           /\ Cardinality(Payloads(J, bl, sz)) = Cardinality(Payloads(K, bl, sz)) + sz[id]
           /\ Cardinality(Payloads(J, bl, sz)) <= end
<1> DEFINE P == Payload(bl, sz, id)
           Q == Payloads(K, bl, sz)
           R == Payloads(J, bl, sz)
           A == 0..(end - 1)
<1>1. end \in Nat /\ \A j \in J : Payload(bl, sz, j) \subseteq A
  BY PayloadFacts
<1>2. Q \subseteq A /\ R \subseteq A /\ P \subseteq A /\ R = Q \cup P
  BY <1>1 DEF Payloads
<1>3. Q \cap P = {}
  <2> SUFFICES ASSUME NEW j \in K, NEW x \in Payload(bl, sz, j), x \in P PROVE FALSE
    BY DEF Payloads
  <2>1. j \in J /\ j # id
    OBVIOUS
  <2>2. bl[id] \in Nat /\ sz[id] \in Nat /\ bl[j] \in Nat /\ sz[j] \in Nat
    BY <2>1 DEF Owned
  <2>3. bl[id] + sz[id] <= bl[j] - 8 \/ bl[j] + sz[j] <= bl[id] - 8
    BY <2>1, PayloadFacts
  <2>. QED BY <2>2, <2>3 DEF Payload
<1>4. IsFiniteSet(A) /\ Cardinality(A) = end
  <2>1. \A a, b \in Int : IsFiniteSet(a..b) /\ Cardinality(a..b) = IF a > b THEN 0 ELSE b - a + 1
    BY FS_Interval
  <2> DEFINE b == end - 1
  <2>2. b \in Int /\ 0 \in Int /\ (IF 0 > b THEN 0 ELSE b - 0 + 1) = end
    BY <1>1
  <2> HIDE DEF b
  <2>3. IsFiniteSet(0..b) /\ Cardinality(0..b) = end
    BY <2>1, <2>2
  <2>. QED BY <2>3 DEF b
<1>5. IsFiniteSet(P) /\ Cardinality(P) = sz[id]
  <2>1. \A a, b \in Int : IsFiniteSet(a..b) /\ Cardinality(a..b) = IF a > b THEN 0 ELSE b - a + 1
    BY FS_Interval
  <2> DEFINE a == bl[id]
             b == bl[id] + sz[id] - 1
  <2>2. b \in Int /\ a \in Int /\ (IF a > b THEN 0 ELSE b - a + 1) = sz[id]
    <3>1. bl[id] \in Nat /\ sz[id] \in Nat
      BY DEF Owned
    <3>. QED BY <3>1
  <2> HIDE DEF a, b
  <2>3. IsFiniteSet(a..b) /\ Cardinality(a..b) = sz[id]
    BY <2>1, <2>2
  <2>. QED BY <2>3 DEF a, b, Payload
<1> HIDE DEF P, Q, R, A
<1>6. IsFiniteSet(Q) /\ Cardinality(Q) \in Nat /\ Cardinality(R) <= end
  <2>1. Q \in SUBSET A /\ R \in SUBSET A
    BY <1>2
  <2>. QED BY <2>1, <1>4, FS_Subset, FS_CardinalityType
<1>7. Cardinality(R) = Cardinality(Q) + Cardinality(P) - Cardinality({})
  BY <1>2, <1>3, <1>5, <1>6, FS_Union
<1>8. Cardinality(R) = Cardinality(Q) + sz[id]
  <2>1. Cardinality({}) = 0 /\ sz[id] \in Nat
    BY FS_EmptySet DEF Owned
  <2>. QED BY <2>1, <1>5, <1>6, <1>7
<1>. QED BY <1>6, <1>8 DEF Q, R


RangesOf(J, bl, sz) == {[lo |-> bl[id], hi |-> bl[id] + sz[id] - 1] : id \in J}

\* The driver finds nothing wrong with a block that is owned beside the others.
LEMMA RangeAccepted ==
    ASSUME NEW m, NEW end, NEW S, NEW F, NEW J, NEW bl, NEW sz, Owned(m, end, S, F, J, bl, sz),
           NEW id \in J, NEW K, K = J \ {id},
           NEW r, r = [lo |-> bl[id], hi |-> bl[id] + sz[id] - 1]
    PROVE  RangeError(RangesOf(K, bl, sz), end, r) = "none"
<1>1. bl[id] \in Nat /\ sz[id] \in Nat /\ bl[id] % 8 = 0 /\ end \in Nat /\ bl[id] + sz[id] < end
  <2>1. HeapState(m, end, S, F, {}) /\ bl[id] \in Used(S, F, {})
    BY DEF Owned
  <2>2. /\ bl[id] \in Nat /\ bl[id] % 8 = 0 /\ S[bl[id]] \in Nat /\ bl[id] + S[bl[id]] <= end
    BY <2>1, UsedFacts
  <2>3. sz[id] \in Nat /\ sz[id] + 8 <= S[bl[id]]
    BY DEF Owned, DSIZE
  <2>4. end \in Nat
    BY PayloadFacts
  <2>. QED BY <2>2, <2>3, <2>4
<1>2. r.lo = bl[id] /\ r.hi = bl[id] + sz[id] - 1
  OBVIOUS
<1>3. ASSUME NEW q \in RangesOf(K, bl, sz) PROVE ~(r.lo \in q.lo..q.hi \/ r.hi \in q.lo..q.hi)
  <2>1. PICK j \in K : q = [lo |-> bl[j], hi |-> bl[j] + sz[j] - 1]
    BY DEF RangesOf
  <2>2. q.lo = bl[j] /\ q.hi = bl[j] + sz[j] - 1
    BY <2>1
  <2>3. j \in J /\ j # id
    OBVIOUS
  <2>4. bl[j] \in Nat /\ sz[j] \in Nat
    BY <2>3 DEF Owned
  <2>5. bl[id] + sz[id] <= bl[j] - 8 \/ bl[j] + sz[j] <= bl[id] - 8
    BY <2>3, PayloadFacts
  <2>. QED BY <1>1, <1>2, <2>2, <2>4, <2>5
<1>4. r.lo % 8 = 0 /\ ~(r.lo < 0 \/ r.hi >= end)
  BY <1>1, <1>2
<1>. QED BY <1>3, <1>4 DEF RangeError

\* The owner id, who had a block before or had none, is handed a block and fills it:
\* the blocks of the others, K, stay as they were.
Handing(m, end, S, F, J, bl, sz, id, K, m1, end1, p, size) ==
    /\ bl \in [Ids -> Nat] /\ sz \in [Ids -> Nat] /\ Owned(m, end, S, F, J, bl, sz)
    /\ id \in Ids /\ K = J \ {id} /\ size \in Nat
    /\ Handed(m, S, {bl[j] : j \in K}, m1, end1, p, Adjusted(size))

Taken(m, bl, sz, id, K, p, size, m2, end2, J2, bl2, sz2) ==
    /\ p \in Nat
    /\ \E S2, F2 : Owned(m2, end2, S2, F2, J2, bl2, sz2)
    /\ Holds(m2, p, id, size)
    /\ \A j \in K : Holds(m, bl[j], j, sz[j]) => Holds(m2, bl[j], j, sz[j])

LEMMA HandOver ==
    ASSUME NEW m, NEW end, NEW S, NEW F, NEW J, NEW bl, NEW sz, NEW id, NEW K, NEW m1, NEW end1,
           NEW p, NEW size, Handing(m, end, S, F, J, bl, sz, id, K, m1, end1, p, size),
           NEW m2, m2 = Filled(m1, p, id, size), NEW J2, J2 = K \cup {id},
           NEW bl2, bl2 = [bl EXCEPT ![id] = p], NEW sz2, sz2 = [sz EXCEPT ![id] = size]
    PROVE  Taken(m, bl, sz, id, K, p, size, m2, end1, J2, bl2, sz2)
<1> DEFINE V == {bl[j] : j \in K}
           asize == Adjusted(size)
<1>0. /\ bl \in [Ids -> Nat] /\ sz \in [Ids -> Nat] /\ Owned(m, end, S, F, J, bl, sz)
      /\ id \in Ids /\ K = J \ {id} /\ size \in Nat
      /\ Handed(m, S, V, m1, end1, p, asize) /\ asize \in Nat /\ size + 8 <= asize
  <2>1. size \in Nat
    BY DEF Handing
  <2>2. asize \in Nat /\ size + 8 <= asize
    BY <2>1, AdjustedFacts
  <2>. QED BY <2>2 DEF Handing
<1> HIDE DEF asize
<1>1. PICK S1, F1 : /\ HeapState(m1, end1, S1, F1, {}) /\ Used(S1, F1, {}) = V \cup {p}
                    /\ Spared(m, S, m1, S1, V) /\ S1[p] >= asize
                    /\ p \in Nat /\ p \notin V
  BY <1>0 DEF Handed
<1>2. p \in Used(S1, F1, {}) /\ S1[p] \in Nat
  BY <1>1, UsedFacts
<1>3. size + 8 <= S1[p]
  BY <1>0, <1>1, <1>2
<1>4. id \in Nat
  BY <1>0 DEF Ids
<1>5. /\ HeapState(m2, end1, S1, F1, {})
      /\ Spared(m1, S1, m2, S1, Used(S1, F1, {}) \ {p})
      /\ Holds(m2, p, id, size)
  BY <1>0, <1>1, <1>2, <1>3, <1>4, FillFacts
<1>6. ASSUME NEW j \in K
      PROVE  /\ bl2[j] = bl[j] /\ sz2[j] = sz[j] /\ bl[j] # p /\ bl[j] \in V /\ j \in Ids
             /\ bl[j] \in Nat /\ sz[j] \in Nat /\ S1[bl[j]] = S[bl[j]]
             /\ sz[j] + 8 <= S[bl[j]] /\ S[bl[j]] \in Nat
  <2>1. j \in J /\ j # id /\ j \in Ids /\ bl[j] \in V
    BY <1>0 DEF Owned
  <2>2. bl[j] \in Nat /\ sz[j] \in Nat /\ sz[j] + 8 <= S[bl[j]]
    BY <2>1, <1>0 DEF Owned, DSIZE
  <2>3. S1[bl[j]] = S[bl[j]]
    BY <2>1, <1>1 DEF Spared
  <2>4. S1[bl[j]] \in Nat
    BY <2>1, <1>1, UsedFacts
  <2>. QED BY <2>1, <2>2, <2>3, <2>4, <1>1
<1>7. bl2[id] = p /\ sz2[id] = size
  BY <1>0
<1>8. Owned(m2, end1, S1, F1, K \cup {id}, bl2, sz2)
  <2>1. Used(S1, F1, {}) = {bl2[j] : j \in K \cup {id}}
    BY <1>1, <1>6, <1>7
  <2>2. K \cup {id} \subseteq Ids
    BY <1>0, <1>6
  <2>3. \A j \in K \cup {id} : bl2[j] \in Nat /\ sz2[j] \in Nat /\ sz2[j] + 8 <= S1[bl2[j]]
    BY <1>0, <1>1, <1>3, <1>6, <1>7
  <2>4. \A j, other \in K \cup {id} : bl2[j] = bl2[other] => j = other
    <3>1. \A j, other \in J : bl[j] = bl[other] => j = other
      BY <1>0 DEF Owned
    <3>. QED BY <3>1, <1>0, <1>6, <1>7
  <2>. QED BY <2>1, <2>2, <2>3, <2>4, <1>5 DEF Owned, DSIZE
<1>9. ASSUME NEW j \in K, Holds(m, bl[j], j, sz[j]) PROVE Holds(m2, bl[j], j, sz[j])
  <2> SUFFICES ASSUME NEW w \in Words, w \in bl[j]..(bl[j] + sz[j] - 1) PROVE m2[w] = -j
    BY DEF Holds
  <2>1. bl[j] <= w /\ w < bl[j] + S[bl[j]] - 8 /\ w < bl[j] + S1[bl[j]] - 8
    BY <1>6
  <2>2. m[w] = -j
    BY <1>9 DEF Holds
  <2>3. m1[w] = m[w]
    BY <2>1, <1>1, <1>6 DEF Spared, DSIZE
  <2>4. m2[w] = m1[w]
    <3>1. bl[j] \in Used(S1, F1, {}) \ {p}
      BY <1>1, <1>6
    <3>. QED BY <2>1, <3>1, <1>5 DEF Spared, DSIZE
  <2>. QED BY <2>2, <2>3, <2>4
<1>. QED BY <1>1, <1>5, <1>8, <1>9 DEF Taken


-----------------------------------------------------------------------------
\* The invariant and its steps.
LEMMA TraceOwned ==
    ASSUME TraceInv
    PROVE  /\ \E S, F : Owned(heap.mem, heap.brk, S, F, live, blocks, block_sizes)
           /\ ranges = RangesOf(live, blocks, block_sizes)
           /\ total.now = Cardinality(Payloads(live, blocks, block_sizes))
           /\ InUse = Payloads(live, blocks, block_sizes)
<1>1. PICK S, F : /\ HeapState(heap.mem, heap.brk, S, F, {})
                  /\ Used(S, F, {}) = {blocks[id] : id \in live}
                  /\ \A id \in live : block_sizes[id] + DSIZE <= S[blocks[id]]
  BY DEF TraceInv, HeapInv
<1>2. /\ live \subseteq Ids /\ \A id \in live : blocks[id] \in Nat /\ block_sizes[id] \in Nat
      /\ \A id, other \in live : blocks[id] = blocks[other] => id = other
  BY DEF TraceInv, TraceType, IdsInv
<1>3. Owned(heap.mem, heap.brk, S, F, live, blocks, block_sizes)
  BY <1>1, <1>2 DEF Owned
<1>4. ranges = RangesOf(live, blocks, block_sizes) /\ InUse = Payloads(live, blocks, block_sizes)
  BY DEF TraceInv, RangesInv, RangesOf, InUse, Payloads, Payload
<1>5. total.now = Cardinality(InUse)
  BY DEF TraceInv, RangesInv
<1>. QED BY <1>3, <1>4, <1>5

\* The range of a block is known by where it begins.
LEMMA RemoveRange ==
    ASSUME NEW m, NEW end, NEW S, NEW F, NEW J, NEW bl, NEW sz, Owned(m, end, S, F, J, bl, sz),
           NEW id \in J
    PROVE  remove_range(RangesOf(J, bl, sz), bl[id]) = RangesOf(J \ {id}, bl, sz)
<1>1. \A j \in J : bl[j] = bl[id] => j = id
  BY DEF Owned
<1>2. ASSUME NEW r \in remove_range(RangesOf(J, bl, sz), bl[id]) PROVE r \in RangesOf(J \ {id}, bl, sz)
  <2>1. PICK j \in J : r = [lo |-> bl[j], hi |-> bl[j] + sz[j] - 1]
    BY DEF remove_range, RangesOf
  <2>2. j # id
    BY <2>1 DEF remove_range
  <2>. QED BY <2>1, <2>2 DEF RangesOf
<1>3. ASSUME NEW r \in RangesOf(J \ {id}, bl, sz) PROVE r \in remove_range(RangesOf(J, bl, sz), bl[id])
  <2>1. PICK j \in J \ {id} : r = [lo |-> bl[j], hi |-> bl[j] + sz[j] - 1]
    BY DEF RangesOf
  <2>2. r.lo # bl[id]
    BY <2>1, <1>1
  <2>. QED BY <2>1, <2>2 DEF remove_range, RangesOf
<1>. QED BY <1>2, <1>3

\* What the payloads of the owners but one come to.
LEMMA OthersCount ==
    ASSUME NEW m, NEW end, NEW S, NEW F, NEW J, NEW bl, NEW sz, Owned(m, end, S, F, J, bl, sz),
           NEW id, id \notin J => sz[id] = 0, NEW K, K = J \ {id}
    PROVE  /\ Cardinality(Payloads(K, bl, sz)) \in Nat
           /\ Cardinality(Payloads(J, bl, sz)) \in Nat
           /\ Cardinality(Payloads(K, bl, sz)) = Cardinality(Payloads(J, bl, sz)) - sz[id]
           /\ Cardinality(Payloads(J, bl, sz)) <= end
<1>1. CASE id \in J
  <2>1. /\ Cardinality(Payloads(K, bl, sz)) \in Nat
        /\ Cardinality(Payloads(J, bl, sz)) = Cardinality(Payloads(K, bl, sz)) + sz[id]
        /\ Cardinality(Payloads(J, bl, sz)) <= end
    BY <1>1, PayloadsCount
  <2>2. sz[id] \in Nat
    BY <1>1 DEF Owned
  <2>. QED BY <2>1, <2>2
<1>2. CASE id \notin J
  <2>1. K = J /\ sz[id] = 0
    BY <1>2
  <2>2. Cardinality(Payloads(J, bl, sz)) \in Nat /\ Cardinality(Payloads(J, bl, sz)) <= end
    <3>1. CASE J = {}
      <4>1. Payloads(J, bl, sz) = {}
        BY <3>1 DEF Payloads
      <4>2. Cardinality({}) = 0 /\ end \in Nat
        BY FS_EmptySet, PayloadFacts
      <4>. QED BY <4>1, <4>2
    <3>2. CASE J # {}
      <4>1. PICK other \in J : TRUE
        BY <3>2
      <4>2. sz[other] \in Nat
        BY DEF Owned
      <4> DEFINE L == J \ {other}
      <4>3. /\ Cardinality(Payloads(L, bl, sz)) \in Nat
            /\ Cardinality(Payloads(J, bl, sz)) = Cardinality(Payloads(L, bl, sz)) + sz[other]
            /\ Cardinality(Payloads(J, bl, sz)) <= end
        BY PayloadsCount
      <4>. QED BY <4>2, <4>3
    <3>. QED BY <3>1, <3>2
  <2>. QED BY <2>1, <2>2
<1>. QED BY <1>1, <1>2

LEMMA AcceptKeeps ==
    ASSUME TraceInv, NEW id \in Ids, NEW size \in Nat, size > 0,
           id \notin live => block_sizes[id] = 0,
           seen \cup {id} = 1..Cardinality(seen \cup {id}),
           NEW S, NEW F, Owned(heap.mem, heap.brk, S, F, live, blocks, block_sizes),
           NEW K, K = live \ {id}, NEW V, V = {blocks[j] : j \in K},
           NEW h, h.brk \in Nat, h.brk >= heap.brk, NEW p,
           Handed(heap.mem, S, V, h.mem, h.brk, p, Adjusted(size)),
           Accept(id, h, p, size, RangesOf(K, blocks, block_sizes)),
           broken' = broken
    PROVE  TraceInv'
<1>1. /\ blocks \in [Ids -> Nat] /\ block_sizes \in [Ids -> Nat] /\ heap.brk \in Nat
      /\ live \subseteq seen /\ seen \subseteq Ids /\ total \in [now : Nat, max : Nat]
      /\ total.max <= heap.brk /\ ErrorInv
  BY DEF TraceInv, TraceType, RangesInv
<1>2. Adjusted(size) \in Nat /\ size + 8 <= Adjusted(size)
  BY AdjustedFacts
<1>3. /\ heap' = [mem |-> Filled(h.mem, p, id, size), brk |-> h.brk]
      /\ blocks' = [blocks EXCEPT ![id] = p]
      /\ block_sizes' = [block_sizes EXCEPT ![id] = size]
      /\ ranges' = RangesOf(K, blocks, block_sizes) \cup {[lo |-> p, hi |-> p + size - 1]}
      /\ total' = [now |-> total.now + size - block_sizes[id],
                   max |-> Larger(total.max, total.now + size - block_sizes[id])]
      /\ seen' = seen \cup {id} /\ live' = live \cup {id} /\ error' = error
  BY DEF Accept
<1>4. live' = K \cup {id} /\ id \notin K /\ K \subseteq Ids
  BY <1>1, <1>3
<1>5. heap'.mem = Filled(h.mem, p, id, size) /\ heap'.brk = h.brk
  BY <1>3
<1>6. /\ p \in Nat
      /\ \E S2, F2 : Owned(heap'.mem, heap'.brk, S2, F2, live', blocks', block_sizes')
      /\ Holds(heap'.mem, p, id, size)
      /\ \A j \in K : Holds(heap.mem, blocks[j], j, block_sizes[j])
                         => Holds(heap'.mem, blocks[j], j, block_sizes[j])
  <2>1. /\ p \in Nat
        /\ \E S2, F2 : Owned(heap'.mem, h.brk, S2, F2, K \cup {id}, blocks', block_sizes')
        /\ Holds(heap'.mem, p, id, size)
        /\ \A j \in K : Holds(heap.mem, blocks[j], j, block_sizes[j])
                           => Holds(heap'.mem, blocks[j], j, block_sizes[j])
    <3>1. Handing(heap.mem, heap.brk, S, F, live, blocks, block_sizes, id, K, h.mem, h.brk, p, size)
      BY <1>1 DEF Handing
    <3> DEFINE J2 == K \cup {id}
    <3>2. J2 = K \cup {id}
      OBVIOUS
    <3> HIDE DEF J2
    <3>3. Taken(heap.mem, blocks, block_sizes, id, K, p, size, heap'.mem, h.brk, J2, blocks', block_sizes')
      BY <1>3, <1>5, <3>1, <3>2, HandOver
    <3>. QED BY <3>2, <3>3 DEF Taken
  <2>. QED BY <2>1, <1>4, <1>5
<1>7. PICK S2, F2 : Owned(heap'.mem, heap'.brk, S2, F2, live', blocks', block_sizes')
  BY <1>6
<1>8. /\ blocks' \in [Ids -> Nat] /\ block_sizes' \in [Ids -> Nat]
      /\ blocks'[id] = p /\ block_sizes'[id] = size
      /\ \A j \in K : blocks'[j] = blocks[j] /\ block_sizes'[j] = block_sizes[j]
  BY <1>1, <1>3, <1>4, <1>6
<1>9. /\ Payloads(live' \ {id}, blocks', block_sizes') = Payloads(K, blocks, block_sizes)
      /\ RangesOf(live', blocks', block_sizes') =
            RangesOf(K, blocks, block_sizes) \cup {[lo |-> p, hi |-> p + size - 1]}
  <2>1. live' \ {id} = K
    BY <1>4
  <2>. QED BY <2>1, <1>4, <1>8 DEF Payloads, Payload, RangesOf
<1>10. /\ total'.now = Cardinality(Payloads(live', blocks', block_sizes'))
       /\ total'.now \in Nat /\ total'.now <= heap'.brk
  <2>1. /\ Cardinality(Payloads(K, blocks, block_sizes)) \in Nat
        /\ Cardinality(Payloads(K, blocks, block_sizes))
              = Cardinality(Payloads(live, blocks, block_sizes)) - block_sizes[id]
    BY OthersCount
  <2>2. total.now = Cardinality(Payloads(live, blocks, block_sizes))
    BY TraceOwned
  <2> DEFINE J == live' \ {id}
  <2>3. /\ Cardinality(Payloads(live', blocks', block_sizes'))
              = Cardinality(Payloads(J, blocks', block_sizes')) + block_sizes'[id]
        /\ Cardinality(Payloads(live', blocks', block_sizes')) <= heap'.brk
    <3>1. id \in live'
      BY <1>4
    <3>. QED BY <3>1, <1>7, PayloadsCount
  <2>4. total'.now = total.now + size - block_sizes[id]
    BY <1>3
  <2>5. block_sizes[id] \in Nat /\ total.now \in Nat
    BY <1>1
  <2>. QED BY <2>1, <2>2, <2>3, <2>4, <2>5, <1>8, <1>9
<1>11. total' \in [now : Nat, max : Nat] /\ total'.max <= heap'.brk
  <2>1. total'.max = Larger(total.max, total'.now) /\ total' = [now |-> total'.now, max |-> total'.max]
    BY <1>3
  <2>2. total.max \in Nat
    BY <1>1
  <2>. QED BY <2>1, <2>2, <1>1, <1>5, <1>10 DEF Larger
<1>12. TraceType'
  <2>1. heap' \in [mem : [Words -> Int], brk : Nat]
    <3>1. HeapState(heap'.mem, heap'.brk, S2, F2, {})
      BY <1>7 DEF Owned
    <3>2. heap'.mem \in [Words -> Int]
      BY <3>1 DEF HeapState
    <3>. QED BY <3>2, <1>3, <1>5
  <2>. QED BY <2>1, <1>1, <1>3, <1>8, <1>11 DEF TraceType
<1>13. HeapInv'
  BY <1>7 DEF HeapInv, Owned
<1>14. IdsInv'
  <2>1. \A j, other \in live' : blocks'[j] = blocks'[other] => j = other
    BY <1>7 DEF Owned
  <2>2. \A j \in Ids \ seen' : block_sizes'[j] = 0
    <3>1. \A j \in Ids \ seen : block_sizes[j] = 0
      BY DEF TraceInv, IdsInv
    <3>. QED BY <3>1, <1>1, <1>3
  <2>3. seen' = 1..Cardinality(seen')
    BY <1>3
  <2>. QED BY <2>1, <2>2, <2>3 DEF IdsInv
<1>15. RangesInv'
  <2>1. ranges' = RangesOf(live', blocks', block_sizes')
    BY <1>3, <1>9
  <2>2. InUse' = Payloads(live', blocks', block_sizes')
    BY DEF InUse, Payloads, Payload
  <2>. QED BY <2>1, <2>2, <1>10, <1>11 DEF RangesInv, RangesOf
<1>16. DataInv'
  <2> SUFFICES ASSUME NEW j \in live'
               PROVE  block_sizes'[j] > 0 /\ Holds(heap'.mem, blocks'[j], j, block_sizes'[j])
    BY DEF DataInv
  <2>1. CASE j = id
    BY <2>1, <1>6, <1>8
  <2>2. CASE j # id
    <3>1. j \in K /\ j \in live
      BY <2>2, <1>4
    <3>2. block_sizes[j] > 0 /\ Holds(heap.mem, blocks[j], j, block_sizes[j])
      BY <3>1 DEF TraceInv, DataInv
    <3>. QED BY <3>1, <3>2, <1>6, <1>8
  <2>. QED BY <2>1, <2>2
<1>17. ErrorInv'
  <2>1. error' = error /\ broken' = broken /\ ErrorInv
    BY <1>1, <1>3
  <2>. QED BY <2>1 DEF ErrorInv
<1>. QED BY <1>12, <1>13, <1>14, <1>15, <1>16, <1>17 DEF TraceInv


\* A request that the driver refuses leaves everything else as it was.
LEMMA RefuseKeeps ==
    ASSUME TraceInv, NEW why, Refuse(why), why \in Excused \/ broken'
    PROVE  TraceInv'
<1>1. /\ heap' = heap /\ blocks' = blocks /\ block_sizes' = block_sizes /\ ranges' = ranges
      /\ live' = live /\ seen' = seen /\ total' = total /\ error' = why
  BY DEF Refuse
<1>2. TraceType' /\ HeapInv' /\ IdsInv'
  <2>1. TraceType'
    BY <1>1 DEF TraceInv, TraceType
  <2>2. HeapInv'
    BY <1>1, Zenon DEF TraceInv, HeapInv
  <2>3. IdsInv'
    BY <1>1 DEF TraceInv, IdsInv
  <2>. QED BY <2>1, <2>2, <2>3
<1>3. InUse' = InUse
  BY <1>1 DEF InUse
<1>4. RangesInv' /\ DataInv'
  BY <1>1, <1>3 DEF TraceInv, RangesInv, DataInv
<1>5. ErrorInv'
  BY <1>1 DEF ErrorInv
<1>. QED BY <1>2, <1>4, <1>5 DEF TraceInv

LEMMA SeenFacts ==
    ASSUME TraceInv, NEW id, id = Cardinality(seen) + 1
    PROVE  id \notin seen /\ seen \cup {id} = 1..Cardinality(seen \cup {id})
<1>1. seen = 1..Cardinality(seen) /\ seen \subseteq Ids
  BY DEF TraceInv, IdsInv, TraceType
<1>2. IsFiniteSet(seen) /\ Cardinality(seen) \in Nat
  <2>1. IsFiniteSet(Ids)
    BY FS_Interval, SizesAssumption DEF Ids
  <2>2. seen \in SUBSET Ids
    BY <1>1
  <2>. QED BY <2>1, <2>2, FS_Subset, FS_CardinalityType
<1>3. id \notin seen
  BY <1>1, <1>2
<1>4. Cardinality(seen \cup {id}) = id
  BY <1>2, <1>3, FS_AddElement
<1>5. seen \cup {id} = 1..id
  BY <1>1, <1>2
<1>. QED BY <1>3, <1>4, <1>5

LEMMA AllocKeeps ==
    ASSUME TraceInv, NEW size \in Sizes, Alloc(size)
    PROVE  TraceInv'
<1> DEFINE id == Cardinality(seen) + 1
           h == mm_malloc(heap, size)
           why == RangeError(ranges, h.brk, [lo |-> h.ret, hi |-> h.ret + size - 1])
           full == "mm_malloc failed"
<1>1. /\ id \in Ids /\ broken' = broken
      /\ IF h.ret = NULL THEN Refuse(full)
         ELSE IF why # "none" THEN Refuse(why) ELSE Accept(id, h, h.ret, size, ranges)
  BY Zenon DEF Alloc
<1>2. full \in Excused
  BY Zenon DEF Excused
<1> HIDE DEF full
<1>3. PICK S, F : Owned(heap.mem, heap.brk, S, F, live, blocks, block_sizes)
  BY TraceOwned
<1>4. ranges = RangesOf(live, blocks, block_sizes)
  BY TraceOwned
<1>5. id \notin seen /\ seen \cup {id} = 1..Cardinality(seen \cup {id})
  BY SeenFacts
<1>6. /\ id \notin live /\ block_sizes[id] = 0 /\ heap.brk \in Nat
      /\ blocks \in [Ids -> Nat] /\ block_sizes \in [Ids -> Nat]
  <2>1. /\ live \subseteq seen /\ heap.brk \in Nat
        /\ blocks \in [Ids -> Nat] /\ block_sizes \in [Ids -> Nat]
    BY DEF TraceInv, TraceType
  <2>2. \A j \in Ids \ seen : block_sizes[j] = 0
    BY DEF TraceInv, IdsInv
  <2>3. id \in Ids
    BY <1>1
  <2> HIDE DEF id
  <2>. QED BY <2>1, <2>2, <2>3, <1>5
<1>7. size \in Nat /\ size > 0
  BY SizesAssumption
<1> HIDE DEF id, h
<1>8. CASE h.ret = NULL
  BY <1>1, <1>2, <1>8, RefuseKeeps
<1>9. CASE h.ret # NULL
  <2> DEFINE V == {blocks[j] : j \in live}
  <2>1. Used(S, F, {}) = V /\ HeapState(heap.mem, heap.brk, S, F, {})
    BY <1>3 DEF Owned
  <2>2. /\ Handed(heap.mem, S, Used(S, F, {}), h.mem, h.brk, h.ret, Adjusted(size))
        /\ h.brk \in Nat /\ h.brk >= heap.brk
    BY <2>1, <1>7, <1>9, MallocServes DEF h
  <2>3. live = live \ {id}
    BY <1>6
  <2>4. why = "none"
    <3> DEFINE m2 == Filled(h.mem, h.ret, id, size)
               bl2 == [blocks EXCEPT ![id] = h.ret]
               sz2 == [block_sizes EXCEPT ![id] = size]
               J2 == live \cup {id}
               r == [lo |-> bl2[id], hi |-> bl2[id] + sz2[id] - 1]
    <3>1. Handing(heap.mem, heap.brk, S, F, live, blocks, block_sizes, id, live, h.mem, h.brk, h.ret, size)
      BY <2>1, <2>2, <2>3, <1>1, <1>3, <1>6, <1>7 DEF Handing
    <3>2. bl2[id] = h.ret /\ sz2[id] = size /\ J2 \ {id} = live /\ id \in J2
      BY <1>1, <1>6
    <3>3. RangesOf(live, bl2, sz2) = ranges
      BY <1>4, <1>6 DEF RangesOf
    <3>4. r = [lo |-> h.ret, hi |-> h.ret + size - 1]
      BY <3>2
    <3> HIDE DEF m2, bl2, sz2, J2
    <3>5. Taken(heap.mem, blocks, block_sizes, id, live, h.ret, size, m2, h.brk, J2, bl2, sz2)
      BY <3>1, HandOver DEF m2, bl2, sz2, J2
    <3>6. PICK S2, F2 : Owned(m2, h.brk, S2, F2, J2, bl2, sz2)
      BY <3>5 DEF Taken
    <3>7. RangeError(RangesOf(live, bl2, sz2), h.brk, r) = "none"
      BY <3>2, <3>6, RangeAccepted
    <3>. QED BY <3>3, <3>4, <3>7
  <2>5. Accept(id, h, h.ret, size, RangesOf(live, blocks, block_sizes))
    BY <2>4, <1>1, <1>4, <1>9
  <2> HIDE DEF V
  <2>. QED BY <2>1, <2>2, <2>3, <2>5, <1>1, <1>3, <1>5, <1>6, <1>7, AcceptKeeps DEF V
<1>. QED BY <1>8, <1>9


LEMMA KeptHolds ==
    ASSUME NEW m, NEW end, NEW S, NEW F, NEW J, NEW bl, NEW sz, Owned(m, end, S, F, J, bl, sz),
           NEW id \in J, Holds(m, bl[id], id, sz[id]),
           NEW m2, NEW p \in Nat, p % 4 = 0, Kept(m, bl[id], m2, p, S[bl[id]]),
           NEW size \in Nat, size <= sz[id]
    PROVE  Holds(m2, p, id, size)
<1> DEFINE b == bl[id]
<1>1. /\ b \in Nat /\ b % 4 = 0 /\ sz[id] \in Nat /\ S[b] \in Nat /\ sz[id] + 8 <= S[b]
      /\ b + S[b] <= end /\ end \in Nat /\ end <= MAX_HEAP
  <2>1. HeapState(m, end, S, F, {}) /\ b \in Used(S, F, {})
    BY DEF Owned
  <2>2. b \in Nat /\ b % 8 = 0 /\ S[b] \in Nat /\ b + S[b] <= end /\ b \in DOMAIN S
    BY <2>1, UsedFacts
  <2>3. end \in Nat /\ end <= MAX_HEAP
    BY <2>1, <2>2, FreeFacts, TileFacts
  <2>4. sz[id] \in Nat /\ sz[id] + 8 <= S[b]
    BY DEF Owned, DSIZE
  <2>5. b % 4 = 0
    BY <2>2
  <2>. QED BY <2>2, <2>3, <2>4, <2>5
<1> HIDE DEF b
<1> SUFFICES ASSUME NEW w \in Words, w \in p..(p + size - 1) PROVE m2[w] = -id
  BY DEF Holds
<1> DEFINE v == b + (w - p)
<1>2. w \in Nat /\ w % 4 = 0 /\ p <= w /\ w < p + size
  BY WordFacts
<1>3. v \in Nat /\ v % 4 = 0 /\ v < MAX_HEAP /\ b <= v /\ v < b + sz[id]
  <2>1. MAX_HEAP \in Nat
    BY ConstFacts
  <2>2. v \in Nat /\ b <= v /\ v < b + sz[id]
    BY <1>1, <1>2
  <2>3. v % 4 = 0
    BY <1>1, <1>2
  <2> HIDE DEF v
  <2>. QED BY <2>1, <2>2, <2>3, <1>1
<1>4. m2[w] = m[v]
  <2>1. w < p + S[b] - 8
    BY <1>1, <1>2
  <2>. QED BY <2>1, <1>2 DEF Kept, DSIZE, b
<1> HIDE DEF v
<1>5. v \in Words /\ v \in b..(b + sz[id] - 1)
  BY <1>1, <1>3, WordFacts
<1>6. m[v] = -id
  BY <1>5 DEF Holds, b
<1>. QED BY <1>4, <1>6

LEMMA ReallocKeeps ==
    ASSUME TraceInv, NEW id \in Ids, NEW size \in Sizes, Realloc(id, size)
    PROVE  TraceInv'
<1> DEFINE b == blocks[id]
           h == mm_realloc(heap, b, size)
           K == live \ {id}
           V == {blocks[j] : j \in K}
           rs == remove_range(ranges, b)
           why == RangeError(rs, h.brk, [lo |-> h.ret, hi |-> h.ret + size - 1])
           full == "mm_realloc failed"
           lost == "did not preserve the data"
<1>1. /\ id \in live /\ broken' = broken /\ ~ReallocBreaks(heap, b, size)
      /\ IF h.ret = NULL THEN Refuse(full)
         ELSE IF why # "none" THEN Refuse(why)
         ELSE IF ~Holds(h.mem, h.ret, id, Smaller(size, block_sizes[id])) THEN Refuse(lost)
         ELSE Accept(id, h, h.ret, size, rs)
  BY Zenon DEF Realloc
<1> HIDE DEF full, lost
<1>3. PICK S, F : Owned(heap.mem, heap.brk, S, F, live, blocks, block_sizes)
  BY TraceOwned
<1>4. rs = RangesOf(K, blocks, block_sizes)
  <2>1. ranges = RangesOf(live, blocks, block_sizes)
    BY TraceOwned
  <2>. QED BY <2>1, <1>1, <1>3, RemoveRange
<1>5. /\ live \subseteq seen /\ heap.brk \in Nat /\ id \in seen
      /\ blocks \in [Ids -> Nat] /\ block_sizes \in [Ids -> Nat]
  BY <1>1 DEF TraceInv, TraceType
<1>6. seen \cup {id} = 1..Cardinality(seen \cup {id})
  <2>1. seen = 1..Cardinality(seen)
    BY DEF TraceInv, IdsInv
  <2>2. seen \cup {id} = seen
    BY <1>5
  <2>. QED BY <2>1, <2>2
<1>7. size \in Nat /\ size > 0
  BY SizesAssumption
<1>8. /\ HeapState(heap.mem, heap.brk, S, F, {}) /\ b \in Used(S, F, {})
      /\ V = Used(S, F, {}) \ {b}
  BY <1>1, <1>3 DEF Owned
<1> HIDE DEF h, b, V, K, rs
<1>9. /\ h.ret # NULL /\ h.brk \in Nat /\ h.brk >= heap.brk
      /\ Handed(heap.mem, S, V, h.mem, h.brk, h.ret, Adjusted(size))
      /\ Kept(heap.mem, b, h.mem, h.ret, S[b])
  <2>1. h = mm_realloc(heap, b, size)
    BY DEF h
  <2>2. ~ReallocBreaks(heap, b, size)
    BY <1>1
  <2>. QED BY <2>1, <2>2, <1>7, <1>8, ReallocServes
<1>10. Holds(h.mem, h.ret, id, Smaller(size, block_sizes[id]))
  <2>1. h.ret \in Nat /\ h.ret % 4 = 0
    <3>1. PICK S2, F2 : HeapState(h.mem, h.brk, S2, F2, {}) /\ Used(S2, F2, {}) = V \cup {h.ret}
      BY <1>9 DEF Handed
    <3>2. h.ret \in Nat /\ h.ret % 8 = 0
      <4>1. h.ret \in Used(S2, F2, {})
        BY <3>1
      <4>. QED BY <4>1, <3>1, UsedFacts
    <3>. QED BY <3>2
  <2> DEFINE n == Smaller(size, block_sizes[id])
  <2>2. n \in Nat /\ n <= block_sizes[id]
    BY <1>5, <1>7 DEF Smaller
  <2>3. Holds(heap.mem, blocks[id], id, block_sizes[id])
    BY <1>1 DEF TraceInv, DataInv
  <2>4. Kept(heap.mem, blocks[id], h.mem, h.ret, S[blocks[id]])
    BY <1>9 DEF b
  <2> HIDE DEF n
  <2>5. Holds(h.mem, h.ret, id, n)
    BY <2>1, <2>2, <2>3, <2>4, <1>1, <1>3, KeptHolds
  <2>. QED BY <2>5 DEF n
<1>11. why = "none"
  <2> DEFINE m2 == Filled(h.mem, h.ret, id, size)
             bl2 == [blocks EXCEPT ![id] = h.ret]
             sz2 == [block_sizes EXCEPT ![id] = size]
             J2 == K \cup {id}
             r == [lo |-> bl2[id], hi |-> bl2[id] + sz2[id] - 1]
  <2>0. K = live \ {id} /\ V = {blocks[j] : j \in K} /\ K \subseteq Ids /\ id \notin K
    BY <1>3 DEF K, V, Owned
  <2>1. Handing(heap.mem, heap.brk, S, F, live, blocks, block_sizes, id, K, h.mem, h.brk, h.ret, size)
    BY <2>0, <1>3, <1>5, <1>7, <1>9 DEF Handing
  <2>2. bl2[id] = h.ret /\ sz2[id] = size /\ J2 \ {id} = K /\ id \in J2
    BY <2>0, <1>5
  <2>3. RangesOf(K, bl2, sz2) = rs
    BY <2>0, <1>4, <1>5 DEF RangesOf
  <2>4. r = [lo |-> h.ret, hi |-> h.ret + size - 1]
    BY <2>2
  <2> HIDE DEF m2, bl2, sz2, J2
  <2>5. Taken(heap.mem, blocks, block_sizes, id, K, h.ret, size, m2, h.brk, J2, bl2, sz2)
    BY <2>1, HandOver DEF m2, bl2, sz2, J2
  <2>6. PICK S2, F2 : Owned(m2, h.brk, S2, F2, J2, bl2, sz2)
    BY <2>5 DEF Taken
  <2>7. RangeError(RangesOf(K, bl2, sz2), h.brk, r) = "none"
    BY <2>2, <2>6, RangeAccepted
  <2>. QED BY <2>3, <2>4, <2>7
<1>12. Accept(id, h, h.ret, size, RangesOf(K, blocks, block_sizes))
  BY <1>1, <1>4, <1>9, <1>10, <1>11
<1>13. K = live \ {id} /\ V = {blocks[j] : j \in K} /\ id \in live /\ broken' = broken
  BY <1>1 DEF K, V
<1> HIDE DEF why
<1>. QED BY <1>3, <1>6, <1>7, <1>9, <1>12, <1>13, AcceptKeeps

LEMMA FreeKeeps ==
    ASSUME TraceInv, NEW id \in Ids, Free(id)
    PROVE  TraceInv'
<1> DEFINE b == blocks[id]
           h == mm_free(heap, b)
           K == live \ {id}
           V == {blocks[j] : j \in K}
<1>1. /\ id \in live /\ ranges' = remove_range(ranges, b)
      /\ heap' = [mem |-> h.mem, brk |-> h.brk] /\ live' = K
      /\ total' = [total EXCEPT !.now = @ - block_sizes[id]]
      /\ blocks' = blocks /\ block_sizes' = block_sizes /\ seen' = seen
      /\ error' = error /\ broken' = broken
  BY DEF Free
<1>2. PICK S, F : Owned(heap.mem, heap.brk, S, F, live, blocks, block_sizes)
  BY TraceOwned
<1>3. /\ HeapState(heap.mem, heap.brk, S, F, {}) /\ b \in Used(S, F, {})
      /\ V = Used(S, F, {}) \ {b}
  BY <1>1, <1>2 DEF Owned
<1>4. ranges' = RangesOf(K, blocks, block_sizes)
  <2>1. ranges = RangesOf(live, blocks, block_sizes)
    BY TraceOwned
  <2>. QED BY <2>1, <1>1, <1>2, RemoveRange
<1>5. heap'.mem = h.mem /\ heap'.brk = h.brk
  BY <1>1
<1>6. /\ h.brk = heap.brk
      /\ \E S2, F2 : Reached(heap.mem, S, V, h.mem, heap.brk, S2, F2, {})
  <2> HIDE DEF V
  <2>1. Spared(heap.mem, S, heap.mem, S, V)
    BY <1>3 DEF Spared, Used
  <2>. QED BY <2>1, <1>3, FreeReturns
<1> HIDE DEF h
<1>7. PICK S2, F2 : Reached(heap.mem, S, V, h.mem, heap.brk, S2, F2, {})
  BY <1>6
<1>8. ASSUME NEW j \in K
      PROVE  /\ j \in live /\ blocks[j] \in V /\ S2[blocks[j]] = S[blocks[j]]
             /\ block_sizes[j] + DSIZE <= S[blocks[j]] /\ S[blocks[j]] \in Nat
             /\ blocks[j] \in Nat /\ block_sizes[j] \in Nat
  <2>1. j \in live /\ blocks[j] \in V
    OBVIOUS
  <2>2. /\ block_sizes[j] + DSIZE <= S[blocks[j]] /\ blocks[j] \in Nat /\ block_sizes[j] \in Nat
        /\ blocks[j] \in Used(S, F, {})
    BY <2>1, <1>2 DEF Owned
  <2>3. S2[blocks[j]] = S[blocks[j]]
    BY <2>1, <1>7 DEF Reached, Spared
  <2>4. S[blocks[j]] \in Nat
    BY <2>2, <1>3, UsedFacts
  <2>. QED BY <2>1, <2>2, <2>3, <2>4
<1>9. Owned(heap'.mem, heap'.brk, S2, F2, live', blocks', block_sizes')
  <2>1. HeapState(heap'.mem, heap'.brk, S2, F2, {}) /\ Used(S2, F2, {}) = {blocks'[j] : j \in live'}
    BY <1>1, <1>5, <1>6, <1>7 DEF Reached
  <2>2. live' \subseteq Ids /\ \A j, other \in live' : blocks'[j] = blocks'[other] => j = other
    BY <1>1, <1>2 DEF Owned
  <2>3. \A j \in live' : /\ blocks'[j] \in Nat /\ block_sizes'[j] \in Nat
                         /\ block_sizes'[j] + DSIZE <= S2[blocks'[j]]
    BY <1>1, <1>8
  <2>. QED BY <2>1, <2>2, <2>3 DEF Owned
<1>10. total' \in [now : Nat, max : Nat] /\ total'.max <= heap'.brk
       /\ total'.now = Cardinality(Payloads(live', blocks', block_sizes'))
  <2>1. /\ Cardinality(Payloads(K, blocks, block_sizes)) \in Nat
        /\ Cardinality(Payloads(K, blocks, block_sizes))
              = Cardinality(Payloads(live, blocks, block_sizes)) - block_sizes[id]
    <3>1. id \notin live => block_sizes[id] = 0
      BY <1>1
    <3> DEFINE J == K
    <3>2. J = live \ {id}
      OBVIOUS
    <3> HIDE DEF J
    <3>3. /\ Cardinality(Payloads(J, blocks, block_sizes)) \in Nat
          /\ Cardinality(Payloads(J, blocks, block_sizes))
                = Cardinality(Payloads(live, blocks, block_sizes)) - block_sizes[id]
      BY <3>1, <3>2, <1>2, OthersCount
    <3>. QED BY <3>3 DEF J
  <2>2. total.now = Cardinality(Payloads(live, blocks, block_sizes))
    BY TraceOwned
  <2>3. total \in [now : Nat, max : Nat] /\ total.max <= heap.brk
    BY DEF TraceInv, TraceType, RangesInv
  <2>4. total'.now = total.now - block_sizes[id] /\ total'.max = total.max
    BY <2>3, <1>1
  <2>5. total' = [now |-> total.now - block_sizes[id], max |-> total.max]
    BY <2>3, <1>1
  <2>. QED BY <2>1, <2>2, <2>3, <2>4, <2>5, <1>1, <1>5, <1>6
<1>11. TraceType'
  <2>1. heap' \in [mem : [Words -> Int], brk : Nat]
    <3>1. HeapState(heap'.mem, heap'.brk, S2, F2, {})
      BY <1>9 DEF Owned
    <3>2. heap'.mem \in [Words -> Int]
      BY <3>1 DEF HeapState
    <3>3. heap.brk \in Nat
      BY DEF TraceInv, TraceType
    <3>. QED BY <3>2, <3>3, <1>1, <1>5, <1>6
  <2>2. /\ blocks \in [Ids -> Nat] /\ block_sizes \in [Ids -> Nat]
        /\ live \subseteq seen /\ seen \subseteq Ids
    BY DEF TraceInv, TraceType
  <2>. QED BY <2>1, <2>2, <1>1, <1>10 DEF TraceType
<1>12. HeapInv'
  BY <1>9 DEF HeapInv, Owned
<1>13. IdsInv'
  <2>1. IdsInv
    BY DEF TraceInv
  <2>. QED BY <2>1, <1>1 DEF IdsInv
<1>14. RangesInv'
  <2>1. ranges' = RangesOf(live', blocks', block_sizes')
    BY <1>1, <1>4
  <2>2. InUse' = Payloads(live', blocks', block_sizes')
    BY DEF InUse, Payloads, Payload
  <2>. QED BY <2>1, <2>2, <1>10 DEF RangesInv, RangesOf
<1>15. DataInv'
  <2> SUFFICES ASSUME NEW j \in K
               PROVE  block_sizes[j] > 0 /\ Holds(h.mem, blocks[j], j, block_sizes[j])
    BY <1>1, <1>5 DEF DataInv
  <2>1. block_sizes[j] > 0 /\ Holds(heap.mem, blocks[j], j, block_sizes[j])
    BY DEF TraceInv, DataInv
  <2>2. ASSUME NEW w \in Words, w \in blocks[j]..(blocks[j] + block_sizes[j] - 1)
        PROVE  h.mem[w] = -j
    <3>1. blocks[j] <= w /\ w < blocks[j] + S[blocks[j]] - 8
      <4>1. /\ block_sizes[j] + 8 <= S[blocks[j]] /\ S[blocks[j]] \in Nat
            /\ blocks[j] \in Nat /\ block_sizes[j] \in Nat
        BY <1>8 DEF DSIZE
      <4>. QED BY <4>1, <2>2
    <3>2. h.mem[w] = heap.mem[w]
      BY <3>1, <1>7, <1>8 DEF Reached, Spared, DSIZE
    <3>3. heap.mem[w] = -j
      BY <2>1, <2>2 DEF Holds
    <3>. QED BY <3>2, <3>3
  <2>. QED BY <2>1, <2>2 DEF Holds
<1>16. ErrorInv'
  <2>1. error' = error /\ broken' = broken /\ ErrorInv
    BY <1>1 DEF TraceInv
  <2>. QED BY <2>1 DEF ErrorInv
<1>. QED BY <1>11, <1>12, <1>13, <1>14, <1>15, <1>16 DEF TraceInv


LEMMA InitKeeps ==
    ASSUME TraceInit
    PROVE  TraceInv
<1>1. /\ heap = [mem |-> mm_init.mem, brk |-> mm_init.brk]
      /\ blocks = [id \in Ids |-> 0] /\ block_sizes = [id \in Ids |-> 0]
      /\ ranges = {} /\ live = {} /\ seen = {} /\ total = [now |-> 0, max |-> 0]
  BY DEF TraceInit, NULL
<1>2. heap.mem = mm_init.mem /\ heap.brk = mm_init.brk
  BY <1>1
<1>3. PICK S, F : HeapState(heap.mem, heap.brk, S, F, {}) /\ Used(S, F, {}) = {}
  BY <1>2, InitServes
<1>4. HeapInv
  BY <1>1, <1>3 DEF HeapInv
<1>5. TraceType
  <2>1. heap \in [mem : [Words -> Int], brk : Nat]
    <3>1. heap.mem \in [Words -> Int] /\ heap.brk \in Nat
      BY <1>2, <1>3, InitServes DEF HeapState
    <3>. QED BY <3>1, <1>1, <1>2
  <2>. QED BY <2>1, <1>1 DEF TraceType
<1>6. Cardinality({}) = 0
  BY FS_EmptySet
<1>7. IdsInv
  <2>1. seen = 1..Cardinality(seen)
    <3>1. 1..0 = {}
      OBVIOUS
    <3>. QED BY <3>1, <1>1, <1>6
  <2>. QED BY <2>1, <1>1 DEF IdsInv
<1>8. RangesInv
  <2>1. InUse = {}
    BY <1>1 DEF InUse
  <2>2. heap.brk \in Nat
    BY <1>5 DEF TraceType
  <2>. QED BY <2>1, <2>2, <1>1, <1>6 DEF RangesInv
<1>9. DataInv
  BY <1>1 DEF DataInv
<1>10. ErrorInv
  <2>1. error \in Excused
    BY Zenon DEF TraceInit, Excused
  <2>. QED BY <2>1 DEF ErrorInv
<1>. QED BY <1>4, <1>5, <1>7, <1>8, <1>9, <1>10 DEF TraceInv

LEMMA NextKeeps ==
    ASSUME TraceInv, [TraceNext]_tracing
    PROVE  TraceInv'
<1>1. CASE \E size \in Sizes : Alloc(size)
  BY <1>1, AllocKeeps
<1>2. CASE \E id \in Ids, size \in Sizes : Realloc(id, size)
  BY <1>2, ReallocKeeps
<1>3. CASE \E id \in Ids, size \in Sizes : ReallocFails(id, size)
  <2>1. PICK id \in Ids, size \in Sizes : ReallocFails(id, size)
    BY <1>3
  <2> DEFINE full == "mm_realloc failed"
  <2>2. broken' /\ Refuse(full)
    BY <2>1, Zenon DEF ReallocFails
  <2> HIDE DEF full
  <2>. QED BY <2>2, RefuseKeeps
<1>4. CASE \E id \in Ids : Free(id)
  BY <1>4, FreeKeeps
<1>5. CASE UNCHANGED tracing
  <2>1. /\ heap' = heap /\ blocks' = blocks /\ block_sizes' = block_sizes /\ ranges' = ranges
        /\ live' = live /\ seen' = seen /\ total' = total /\ error' = error /\ broken' = broken
    BY <1>5 DEF tracing
  <2>2. Refuse(error)
    BY <2>1 DEF Refuse
  <2>3. error \in Excused \/ broken'
    BY <2>1 DEF TraceInv, ErrorInv
  <2>. QED BY <2>2, <2>3, RefuseKeeps
<1>. QED BY <1>1, <1>2, <1>3, <1>4, <1>5 DEF TraceNext

\* Whatever the requests, as long as no realloc breaks: the blocks tile the heap,
\* the lists have the free ones, and the trace's own are beside each other, with
\* what it wrote into them.
THEOREM TraceInvariant == TraceSpec => []TraceInv
<1>1. TraceInit => TraceInv
  BY InitKeeps
<1>2. TraceInv /\ [TraceNext]_tracing => TraceInv'
  BY NextKeeps
<1>. QED BY <1>1, <1>2, PTL DEF TraceSpec


-----------------------------------------------------------------------------
\* The blocks that a walk from the prologue meets are those that tile the heap.
LEMMA HeapWalk ==
    ASSUME NEW m, NEW end, NEW S, NEW F, HeapState(m, end, S, F, {}),
           NEW walk, walk = Walk([p \in Words \cup {MAX_HEAP} |-> NEXTBLOCK(m, p)], 8)
    PROVE  /\ walk[0] = 8 /\ 8 \in DOMAIN S /\ end \notin DOMAIN S
           /\ \A n \in Nat : walk[n] \in DOMAIN S => walk[n + 1] = walk[n] + S[walk[n]]
           /\ \A n \in Nat : walk[n] = end => walk[n + 1] = end
<1> DEFINE next == [p \in Words \cup {MAX_HEAP} |-> NEXTBLOCK(m, p)]
<1>1. Tiles(S, end) /\ Shape(m, S, F, {}, end)
  BY FreeFacts
<1>2. 8 \in DOMAIN S /\ end \in Nat /\ end <= MAX_HEAP /\ end % 8 = 0
  BY <1>1, ConstFacts DEF Tiles
<1>3. end \notin DOMAIN S
  <2> SUFFICES ASSUME end \in DOMAIN S PROVE FALSE
    OBVIOUS
  <2>1. S[end] \in Nat /\ S[end] >= 16 /\ end + S[end] <= end
    BY <1>1, TileFacts
  <2>. QED BY <2>1, <1>2
<1>4. ASSUME NEW p \in DOMAIN S PROVE next[p] = p + S[p]
  <2>1. p \in Words
    BY <1>1, BlockWords
  <2>2. p \in DOMAIN S \ {}
    OBVIOUS
  <2>3. GETSIZE(m, p - 4) = S[p]
    BY <2>2, <1>1, TagFacts
  <2>. QED BY <2>1, <2>3 DEF NEXTBLOCK, HEADER, WSIZE
<1>5. next[end] = end
  <2>1. end \in Words \cup {MAX_HEAP}
    <3>1. MAX_HEAP \in Nat /\ end % 4 = 0
      BY <1>2, ConstFacts
    <3>2. CASE end < MAX_HEAP
      BY <3>1, <3>2, <1>2, WordFacts
    <3>3. CASE ~(end < MAX_HEAP)
      BY <3>1, <3>3, <1>2
    <3>. QED BY <3>2, <3>3
  <2>2. 8 \in DOMAIN S \ {}
    BY <1>2
  <2>3. GETSIZE(m, end - 4) = 0
    BY <2>2, <1>1, TagFacts
  <2>. QED BY <2>1, <2>3, <1>2 DEF NEXTBLOCK, HEADER, WSIZE
<1> HIDE DEF next
<1>6. walk[0] = 8 /\ \A n \in Nat : walk[n + 1] = next[walk[n]]
  <2>1. walk = Walk(next, 8)
    BY DEF next
  <2>. QED BY <2>1, WalkFacts
<1>. QED BY <1>2, <1>3, <1>4, <1>5, <1>6

LEMMA BlocksOfHeap ==
    ASSUME NEW m, NEW end, NEW S, NEW F, HeapState(m, end, S, F, {})
    PROVE  HeapBlocks(m) = DOMAIN S
<1> DEFINE walk == Walk([p \in Words \cup {MAX_HEAP} |-> NEXTBLOCK(m, p)], 8)
<1>1. HeapBlocks(m) = {p \in {walk[n] : n \in 0..Longest} : GETSIZE(m, p - 4) > 0}
  BY DEF HeapBlocks, WSIZE, HEADER
<1>2. /\ walk[0] = 8 /\ 8 \in DOMAIN S /\ end \notin DOMAIN S
      /\ \A n \in Nat : walk[n] \in DOMAIN S => walk[n + 1] = walk[n] + S[walk[n]]
      /\ \A n \in Nat : walk[n] = end => walk[n + 1] = end
  BY HeapWalk
<1>3. Tiles(S, end) /\ Shape(m, S, F, {}, end)
  BY FreeFacts
<1> HIDE DEF walk
<1>4. \A p \in DOMAIN S : /\ p \in Nat /\ S[p] \in Nat /\ S[p] >= 16 /\ p + S[p] <= end
                          /\ GETSIZE(m, p - 4) = S[p] /\ (p + S[p] = end \/ p + S[p] \in DOMAIN S)
                          /\ (p = 8 \/ \E q \in DOMAIN S : q + S[q] = p)
  <2> SUFFICES ASSUME NEW p \in DOMAIN S
               PROVE  /\ p \in Nat /\ S[p] \in Nat /\ S[p] >= 16 /\ p + S[p] <= end
                      /\ GETSIZE(m, p - 4) = S[p] /\ (p + S[p] = end \/ p + S[p] \in DOMAIN S)
                      /\ (p = 8 \/ \E q \in DOMAIN S : q + S[q] = p)
    OBVIOUS
  <2>1. p \in DOMAIN S \ {}
    OBVIOUS
  <2>2. GETSIZE(m, p - 4) = S[p]
    BY <2>1, <1>3, TagFacts
  <2>3. p \in Nat /\ S[p] \in Nat /\ S[p] >= 16 /\ p + S[p] <= end
    BY <1>3, TileFacts
  <2>4. /\ p + S[p] = end \/ p + S[p] \in DOMAIN S
        /\ p = 8 \/ \E q \in DOMAIN S : q + S[q] = p
    BY <1>3, ConstFacts DEF Tiles
  <2>. QED BY <2>2, <2>3, <2>4
<1>5. GETSIZE(m, end - 4) = 0
  <2>1. 8 \in DOMAIN S \ {}
    BY <1>2
  <2>. QED BY <2>1, <1>3, TagFacts
<1> DEFINE On(n) == walk[n] = end \/ (walk[n] \in DOMAIN S /\ walk[n] >= 16 * n)
           T == {n \in Nat : On(n)}
<1>6. T = Nat
  <2>1. 0 \in T
    BY <1>2
  <2>2. ASSUME NEW n \in T PROVE n + 1 \in T
    <3>1. CASE walk[n] = end
      BY <3>1, <1>2
    <3>2. CASE walk[n] \in DOMAIN S /\ walk[n] >= 16 * n
      <4> DEFINE p == walk[n]
      <4>1. n \in Nat /\ walk[n + 1] = p + S[p]
        BY <3>2, <1>2
      <4>2. p \in Nat /\ S[p] \in Nat /\ S[p] >= 16 /\ (p + S[p] = end \/ p + S[p] \in DOMAIN S)
        BY <3>2, <1>4
      <4>3. p >= 16 * n
        BY <3>2
      <4> HIDE DEF p
      <4>4. p + S[p] >= 16 * (n + 1)
        BY <4>1, <4>2, <4>3
      <4>5. n + 1 \in Nat
        BY <4>1
      <4>. QED BY <4>1, <4>2, <4>4, <4>5
    <3>. QED BY <3>1, <3>2
  <2>3. T \in SUBSET Nat
    OBVIOUS
  <2> HIDE DEF T
  <2>. QED BY <2>1, <2>2, <2>3, SetInduction
<1>7. \A n \in Nat : On(n)
  BY <1>6
<1> DEFINE R == {k \in Nat : \A p \in DOMAIN S : p <= k => \E n \in Nat : walk[n] = p}
<1>8. R = Nat
  <2>0. ASSUME NEW p \in DOMAIN S, \A q \in DOMAIN S : q < p => \E n \in Nat : walk[n] = q
        PROVE  \E n \in Nat : walk[n] = p
    <3>1. CASE p = 8
      BY <3>1, <1>2
    <3>2. CASE p # 8
      <4>1. PICK q \in DOMAIN S : q + S[q] = p
        BY <3>2, <1>4
      <4>2. q < p
        BY <4>1, <1>4
      <4>3. PICK n \in Nat : walk[n] = q
        BY <4>2, <2>0
      <4>4. walk[n + 1] = p /\ n + 1 \in Nat
        BY <4>1, <4>3, <1>2
      <4>. QED BY <4>4
    <3>. QED BY <3>1, <3>2
  <2>1. 0 \in R
    <3>1. ASSUME NEW p \in DOMAIN S, p <= 0 PROVE \E n \in Nat : walk[n] = p
      <4>1. \A q \in DOMAIN S : ~(q < p)
        BY <3>1, <1>4
      <4>. QED BY <4>1, <2>0
    <3>. QED BY <3>1
  <2>2. ASSUME NEW k \in R PROVE k + 1 \in R
    <3>1. ASSUME NEW p \in DOMAIN S, p <= k + 1 PROVE \E n \in Nat : walk[n] = p
      <4>1. \A q \in DOMAIN S : q < p => q <= k
        <5>1. k \in Nat /\ p \in Nat /\ \A q \in DOMAIN S : q \in Nat
          BY <1>4
        <5>. QED BY <5>1, <3>1
      <4>. QED BY <4>1, <2>0, <2>2
    <3>. QED BY <3>1
  <2>3. R \in SUBSET Nat
    OBVIOUS
  <2> HIDE DEF R
  <2>. QED BY <2>1, <2>2, <2>3, SetInduction
<1>9. ASSUME NEW p \in DOMAIN S PROVE p \in HeapBlocks(m)
  <2>1. p \in Nat /\ p <= p
    BY <1>4
  <2>2. PICK n \in Nat : walk[n] = p
    BY <2>1, <1>8
  <2>3. p # end
    BY <1>2
  <2>4. p >= 16 * n
    BY <2>2, <2>3, <1>7
  <2>5. p < MAX_HEAP
    <3>1. p \in Words
      BY <1>3, BlockWords
    <3>. QED BY <3>1, WordFacts
  <2>6. n \in 0..Longest
    <3>1. MAX_HEAP \in Nat /\ Longest = MAX_HEAP \div 16
      BY ConstFacts DEF Longest, DSIZE
    <3>2. n <= MAX_HEAP \div 16
      BY <3>1, <2>1, <2>4, <2>5
    <3>. QED BY <3>1, <3>2
  <2>7. GETSIZE(m, p - 4) > 0
    BY <1>4
  <2>. QED BY <2>2, <2>6, <2>7, <1>1
<1>10. ASSUME NEW p \in HeapBlocks(m) PROVE p \in DOMAIN S
  <2>0. Longest \in Nat
    BY ConstFacts DEF Longest, DSIZE
  <2>1. PICK n \in 0..Longest : p = walk[n] /\ GETSIZE(m, p - 4) > 0
    BY <1>1
  <2>2. n \in Nat
    BY <2>0
  <2>. QED BY <2>1, <2>2, <1>5, <1>7
<1>. QED BY <1>9, <1>10


\* The list of a class has the free blocks of that class, linked both ways, and ends.
LEMMA ListsOfHeap ==
    ASSUME NEW m, NEW end, NEW S, NEW F, HeapState(m, end, S, F, {}), NEW c \in Classes
    PROVE  /\ {FreeList(m, c)[n] : n \in 0..Longest} = {NULL} \cup {p \in F : calclass(S[p]) = c}
           /\ \A p \in F : m[p + 4] # NULL => m[m[p + 4]] = p
<1> DEFINE L == FreeList(m, c)
<1>0. Longest \in Nat
  BY ConstFacts DEF Longest, DSIZE
<1>1. \A n \in 0..Longest : L[n] = NULL \/ (L[n] \in F /\ calclass(S[L[n]]) = c)
  <2>1. \A n \in 0..Longest : n \in Nat
    BY <1>0
  <2>. QED BY <2>1, ListMembers
<1>2. L[Longest] = NULL
  <2> SUFFICES ASSUME L[Longest] # NULL PROVE FALSE
    OBVIOUS
  <2>1. Longest < Longest
    BY <1>0, ListEnds
  <2>. QED BY <2>1, <1>0
<1>3. \A p \in F : calclass(S[p]) = c => \E n \in 0..Longest : L[n] = p
  BY ListComplete
<1>4. {L[n] : n \in 0..Longest} = {NULL} \cup {p \in F : calclass(S[p]) = c}
  <2> HIDE DEF L
  <2>1. Longest \in 0..Longest
    BY <1>0
  <2>. QED BY <2>1, <1>1, <1>2, <1>3
<1>5. ASSUME NEW p \in F, m[p + 4] # NULL PROVE m[m[p + 4]] = p
  <2>1. PICK rank \in [F -> Nat] :
           Chains(RootsIn(m), NextIn(m, F), PrevIn(m, F), ClassOf(S), F, rank)
    BY FreeFacts
  <2>2. \A q \in F : NextIn(m, F)[q] = m[q + 4] /\ PrevIn(m, F)[q] = m[q]
    BY DEF NextIn, PrevIn, NEXTSEG, PREVSEG, WSIZE
  <2>3. NextIn(m, F)[p] \in F /\ PrevIn(m, F)[NextIn(m, F)[p]] = p
    BY <2>1, <2>2, <1>5 DEF Chains
  <2>. QED BY <2>2, <2>3
<1>. QED BY <1>4, <1>5

\* What the tags of the heap say of it.
LEMMA TagsOfHeap ==
    ASSUME NEW m, NEW end, NEW S, NEW F, HeapState(m, end, S, F, {})
    PROVE  /\ \A p \in DOMAIN S : /\ GETSIZE(m, HEADER(p)) = S[p] /\ NEXTBLOCK(m, p) = p + S[p]
                                  /\ m[HEADER(p)] = m[FOOTER(m, p)] /\ p % 8 = 0
                                  /\ GETALLOC(m, HEADER(p)) = (IF p \in F THEN 0 ELSE 1)
           /\ {p \in DOMAIN S : GETALLOC(m, HEADER(p)) = 0} = F
           /\ {NEXTBLOCK(m, p) : p \in DOMAIN S} = (DOMAIN S \ {2 * WSIZE}) \cup {end}
<1>1. /\ Tiles(S, end) /\ Shape(m, S, F, {}, end) /\ F \subseteq DOMAIN S
  BY FreeFacts
<1>2. ASSUME NEW p \in DOMAIN S
      PROVE  /\ GETSIZE(m, HEADER(p)) = S[p] /\ NEXTBLOCK(m, p) = p + S[p]
             /\ m[HEADER(p)] = m[FOOTER(m, p)] /\ p % 8 = 0
             /\ GETALLOC(m, HEADER(p)) = (IF p \in F THEN 0 ELSE 1)
  <2>1. p \in DOMAIN S \ {}
    OBVIOUS
  <2>2. /\ GETSIZE(m, p - 4) = S[p] /\ GETALLOC(m, p - 4) = (IF p \in F THEN 0 ELSE 1)
    BY <2>1, <1>1, TagFacts
  <2>3. m[p + S[p] - 8] = m[p - 4]
    BY <2>1, <1>1 DEF Shape, WSIZE, DSIZE
  <2>4. p % 8 = 0
    BY <1>1, TileFacts
  <2>5. HEADER(p) = p - 4 /\ FOOTER(m, p) = p + S[p] - 8 /\ NEXTBLOCK(m, p) = p + S[p]
    BY <2>2 DEF HEADER, FOOTER, NEXTBLOCK, WSIZE, DSIZE
  <2>. QED BY <2>2, <2>3, <2>4, <2>5
<1>3. {p \in DOMAIN S : GETALLOC(m, HEADER(p)) = 0} = F
  BY <1>1, <1>2
<1>4. {NEXTBLOCK(m, p) : p \in DOMAIN S} = {p + S[p] : p \in DOMAIN S}
  BY <1>2
<1>5. {p + S[p] : p \in DOMAIN S} = (DOMAIN S \ {2 * WSIZE}) \cup {end}
  <2>1. ASSUME NEW p \in DOMAIN S PROVE p + S[p] \in (DOMAIN S \ {Prologue}) \cup {end}
    <3>1. p + S[p] # Prologue
      <4>1. p \in Nat /\ p >= 8 /\ S[p] \in Nat /\ S[p] >= 16
        BY <1>1, TileFacts
      <4>. QED BY <4>1, ConstFacts
    <3>. QED BY <3>1, <1>1 DEF Tiles
  <2>2. ASSUME NEW p \in (DOMAIN S \ {Prologue}) \cup {end} PROVE \E q \in DOMAIN S : q + S[q] = p
    BY <1>1 DEF Tiles
  <2>. QED BY <2>1, <2>2 DEF Prologue
<1>. QED BY <1>2, <1>3, <1>4, <1>5

LEMMA HeapIsSound ==
    ASSUME TraceInv
    PROVE  HeapSound
<1>1. PICK S, F : /\ HeapState(heap.mem, heap.brk, S, F, {})
                  /\ Used(S, F, {}) = {blocks[id] : id \in live}
  BY DEF TraceInv, HeapInv
<1> DEFINE m == heap.mem
           bs == HeapBlocks(m)
           free == {p \in bs : GETALLOC(m, HEADER(p)) = 0}
<1>2. bs = DOMAIN S
  BY <1>1, BlocksOfHeap
<1>3. /\ \A p \in DOMAIN S : /\ GETSIZE(m, HEADER(p)) = S[p] /\ NEXTBLOCK(m, p) = p + S[p]
                             /\ m[HEADER(p)] = m[FOOTER(m, p)] /\ p % 8 = 0
      /\ {p \in DOMAIN S : GETALLOC(m, HEADER(p)) = 0} = F
      /\ {NEXTBLOCK(m, p) : p \in DOMAIN S} = (DOMAIN S \ {2 * WSIZE}) \cup {heap.brk}
  BY <1>1, TagsOfHeap
<1>4. free = F
  BY <1>2, <1>3
<1>5. F \subseteq DOMAIN S \ {Prologue} /\ Prologue \in DOMAIN S /\ \A p \in F : p + S[p] \notin F
  BY <1>1, FreeFacts DEF Tiles
<1> HIDE DEF m, bs, free
<1>6. {NEXTBLOCK(m, p) : p \in bs} = (bs \ {2 * WSIZE}) \cup {heap.brk}
  BY <1>2, <1>3
<1>7. \A p \in bs : m[HEADER(p)] = m[FOOTER(m, p)] /\ p % 8 = 0
  BY <1>2, <1>3
<1>8. \A p \in free : NEXTBLOCK(m, p) \notin free
  BY <1>3, <1>4, <1>5
<1>9. bs \ free = {2 * WSIZE} \cup {blocks[id] : id \in live}
  BY <1>1, <1>2, <1>4, <1>5 DEF Used, Prologue
<1>10. ASSUME NEW c \in 0..(LISTSIZE - 1)
       PROVE  LET members == {FreeList(m, c)[n] : n \in 0..Longest}
              IN  /\ members = {NULL} \cup {p \in free : calclass(GETSIZE(m, HEADER(p))) = c}
                  /\ \A p \in members \ {NULL} :
                       m[NEXTSEG(p)] # NULL => m[PREVSEG(m[NEXTSEG(p)])] = p
  <2> DEFINE members == {FreeList(m, c)[n] : n \in 0..Longest}
  <2>1. /\ members = {NULL} \cup {p \in F : calclass(S[p]) = c}
        /\ \A p \in F : m[p + 4] # NULL => m[m[p + 4]] = p
    <3>1. c \in Classes /\ HeapState(m, heap.brk, S, F, {})
      BY <1>1 DEF Classes, m
    <3>. QED BY <3>1, ListsOfHeap
  <2>2. {p \in F : calclass(S[p]) = c} = {p \in free : calclass(GETSIZE(m, HEADER(p))) = c}
    BY <1>3, <1>4, <1>5
  <2> HIDE DEF members
  <2>3. \A p \in members \ {NULL} : m[NEXTSEG(p)] # NULL => m[PREVSEG(m[NEXTSEG(p)])] = p
    BY <2>1 DEF NEXTSEG, PREVSEG, WSIZE
  <2>. QED BY <2>1, <2>2, <2>3 DEF members
<1>. QED BY <1>6, <1>7, <1>8, <1>9, <1>10 DEF HeapSound, m, bs, free

\* The heap is well formed after every request of every trace, for any number of
\* lists, any chunk and any heap: tags, tiling, no free neighbours, and lists that
\* have each free block in its class.
THEOREM HeapIsAlwaysSound == TraceSpec => []HeapSound
<1>1. TraceInv => HeapSound
  BY HeapIsSound
<1>. QED BY <1>1, TraceInvariant, PTL

\* No payload in use is ever overwritten, and no two share a byte.
THEOREM DataIsAlwaysIntact == TraceSpec => []DataIntact
<1>1. TraceInv => DataIntact
  BY DEF TraceInv, DataInv, RangesInv, DataIntact
<1>. QED BY <1>1, TraceInvariant, PTL

LEMMA RefusedWhenFull ==
    ASSUME TraceInv
    PROVE  OnlyWhenFull
<1>1. PICK S, F : HeapState(heap.mem, heap.brk, S, F, {})
  BY DEF TraceInv, HeapInv
<1>2. ASSUME NEW size \in Sizes, mm_malloc(heap, size).ret = NULL
      PROVE  /\ \A p \in HeapBlocks(heap.mem) :
                   GETALLOC(heap.mem, HEADER(p)) = 0
                       => GETSIZE(heap.mem, HEADER(p)) < Adjusted(size)
             /\ heap.brk + Larger(Adjusted(size), CHUNKSIZE) > MAX_HEAP
  <2>1. size \in Nat /\ size > 0
    BY SizesAssumption
  <2>2. /\ \A p \in F : S[p] < Adjusted(size)
        /\ heap.brk + Larger(Adjusted(size), CHUNKSIZE) > MAX_HEAP
    <3> DEFINE a == mm_malloc(heap, size)
    <3>1. a.ret = NULL /\ mm_malloc(heap, size) = a
      BY <1>2
    <3> HIDE DEF a
    <3>. QED BY <3>1, <2>1, <1>1, MallocServes
  <2>3. HeapBlocks(heap.mem) = DOMAIN S
    BY <1>1, BlocksOfHeap
  <2>4. /\ \A p \in DOMAIN S : GETSIZE(heap.mem, HEADER(p)) = S[p]
        /\ {p \in DOMAIN S : GETALLOC(heap.mem, HEADER(p)) = 0} = F
    BY <1>1, TagsOfHeap
  <2>5. \A p \in DOMAIN S : GETALLOC(heap.mem, HEADER(p)) = 0 => p \in F
    BY <2>4
  <2>. QED BY <2>2, <2>3, <2>4, <2>5
<1>3. Judged => error \in Excused
  BY DEF TraceInv, ErrorInv, Judged
<1>4. Judged => error \in {"none", "mm_malloc failed"}
  BY <1>3, Zenon DEF Excused
<1>. QED BY <1>2, <1>4, Zenon DEF OnlyWhenFull

\* A request is refused only when no free block is large enough for it, anywhere on
\* the lists, and the heap cannot grow.
THEOREM RefusedOnlyWhenFull == TraceSpec => []OnlyWhenFull
<1>1. TraceInv => OnlyWhenFull
  BY RefusedWhenFull
<1>. QED BY <1>1, TraceInvariant, PTL


=============================================================================
