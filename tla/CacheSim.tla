------------------------------ MODULE CacheSim ------------------------------
(***************************************************************************)
(* The cache simulator of CS311/project4/main.c, an access of the trace at *)
(* a time.  The blocks themselves are not kept by the code either: a line  *)
(* has a tag, the address of its block, and the counters of the policies.  *)
(***************************************************************************)
EXTENDS Integers, FiniteSets

CONSTANTS num_set, num_way, block_size,
          Addresses,    \* addresses of the trace
          MaxAccesses   \* bound: lines of the trace

Sets == 0..(num_set - 1)
Ways == 0..(num_way - 1)

VARIABLES cache,
          stat,
          lru_only_flag,
          policy,   \* per set, what the policy says is cached: uses and last use
          unsaved,  \* blocks written since they were fetched
          saved     \* blocks that left the cache with writes

caching == <<cache, stat, lru_only_flag, policy, unsaved, saved>>

\* The logarithm of a power of two.
get_bit(n) == CHOOSE k \in 0..31 : 2^k <= n /\ n < 2^(k + 1)

\* limits.h.
INT_MAX == 2147483647

\* A block size is a power of two, as in every cache; the number of sets need
\* not be, get_bit() rounds it down.  The shifts by 32 - s - b are defined:
\* sets and blocks are not both single, and the capacity is an int.
ASSUME GeometryAssumption ==
    /\ {num_set, num_way, block_size} \subseteq 1..INT_MAX
    /\ num_set * block_size \in 2..INT_MAX
    /\ 2^get_bit(block_size) = block_size
    /\ 2^get_bit(num_set) \in 1..num_set
\* No counter leaves its range.
ASSUME TraceAssumption == Addresses \subseteq Nat /\ MaxAccesses \in 0..INT_MAX

\* A shift by the bits of the block size and by those of the number of sets.
TagOf(addr) == (addr \div 2^get_bit(block_size)) \div 2^get_bit(num_set)
Index(addr) == (addr \div 2^get_bit(block_size)) % 2^get_bit(num_set)
Block(addr) == addr - (addr % block_size)

build_cache == [s \in Sets |-> [w \in Ways |->
    [valid |-> FALSE, dirty |-> FALSE, tag |-> 0, data |-> 0, time |-> 0, freq |-> 0]]]

\* A bug: a miss does not age the lines of the set.
FaultyAge(set, hit) ==
    [w \in Ways |-> IF hit THEN [set[w] EXCEPT !.time = @ + 1] ELSE set[w]]

Age(set, hit) ==
    [w \in Ways |-> IF set[w].valid THEN [set[w] EXCEPT !.time = @ + 1] ELSE set[w]]

\* A line with the block of addr, just fetched.
Fetched(op, addr) == [valid |-> TRUE, dirty |-> op = "W", tag |-> TagOf(addr), data |-> Block(addr),
                     time |-> 0, freq |-> 1]

\* A bug: a read hit makes the line clean.
FaultyHit(line, op) == [line EXCEPT !.dirty = op = "W", !.time = 0, !.freq = @ + 1]

Hit(line, op) == [line EXCEPT !.dirty = @ \/ op = "W", !.time = 0, !.freq = @ + 1]

\* The first way that has been unused for longest, or, without -r, among
\* those used least often.
Evicted(set) ==
    LET before(v, w) == IF lru_only_flag \/ set[v].freq = set[w].freq
                        THEN set[v].time > set[w].time \/ (set[v].time = set[w].time /\ v < w)
                        ELSE set[v].freq < set[w].freq
    IN  CHOOSE v \in Ways : \A w \in Ways \ {v} : before(v, w)

\* The way an access ends in: the block's, else the first invalid one.
Place(set, tag) ==
    LET ready == {w \in Ways : ~set[w].valid \/ set[w].tag = tag}
    IN  IF ready = {} THEN Evicted(set) ELSE CHOOSE w \in ready : \A v \in ready : w <= v

Count(s, field) == [s EXCEPT ![field] = @ + 1]

Total == stat.read + stat.write

-----------------------------------------------------------------------------
\* What the policy means, from the uses of each block of the set and the
\* time of the last one alone.
Kept(p, block) ==
    LET worse(a, b) == IF lru_only_flag \/ p[a].uses = p[b].uses THEN p[a].last < p[b].last
                       ELSE p[a].uses < p[b].uses
        leaves == IF block \in DOMAIN p \/ Cardinality(DOMAIN p) < num_way THEN {}
                  ELSE {a \in DOMAIN p : \A b \in DOMAIN p \ {a} : worse(a, b)}
    IN  [b \in (DOMAIN p \ leaves) \cup {block} |->
            IF b # block THEN p[b]
            ELSE [uses |-> 1 + (IF b \in DOMAIN p THEN p[b].uses ELSE 0), last |-> Total]]

Contents(set) == {set[w].data : w \in {v \in Ways : set[v].valid}}

Started(lru) ==
    /\ cache = build_cache
    /\ stat = [read |-> 0, write |-> 0, writeback |-> 0,
               readhit |-> 0, writehit |-> 0, readmiss |-> 0, writemiss |-> 0]
    /\ lru_only_flag = lru
    /\ policy = [s \in Sets |-> [b \in {} |-> [uses |-> 0, last |-> 0]]]
    /\ unsaved = {} /\ saved = 0

CacheInit == \E lru \in BOOLEAN : Started(lru)

access_cache(op, addr) ==
    LET s == Index(addr)
        hit == \E w \in Ways : cache[s][w].valid /\ cache[s][w].tag = TagOf(addr)
        set == Age(cache[s], hit)
        w == Place(set, TagOf(addr))
        counted == Count(Count(stat, IF op = "R" THEN "read" ELSE "write"),
                         IF op = "R" THEN IF hit THEN "readhit" ELSE "readmiss"
                         ELSE IF hit THEN "writehit" ELSE "writemiss")
        gone == Contents(cache[s]) \ Contents(cache'[s])
    IN  /\ Total < MaxAccesses
        /\ cache' = [cache EXCEPT ![s] = [set EXCEPT ![w] = IF hit THEN Hit(set[w], op)
                                                           ELSE Fetched(op, addr)]]
        /\ stat' = IF ~hit /\ set[w].valid /\ set[w].dirty THEN Count(counted, "writeback")
                   ELSE counted
        /\ policy' = [policy EXCEPT ![s] = Kept(@, Block(addr))]
        /\ unsaved' = (unsaved \ gone) \cup (IF op = "W" THEN {Block(addr)} ELSE {})
        /\ saved' = saved + Cardinality(unsaved \cap gone)
        /\ UNCHANGED lru_only_flag

CacheNext == \E op \in {"R", "W"}, addr \in Addresses : access_cache(op, addr)
CacheSpec == CacheInit /\ [][CacheNext]_caching

-----------------------------------------------------------------------------
\* After every trace a set holds the blocks its policy keeps: the last ones
\* used, or the ones used most often since they were fetched; each once, and
\* under the tag and in the set of its address.
PolicyKept ==
    \A s \in Sets :
        LET valid == {w \in Ways : cache[s][w].valid}
        IN  /\ Contents(cache[s]) = DOMAIN policy[s]
            /\ Cardinality(valid) = Cardinality(Contents(cache[s]))
            /\ \A w \in valid : /\ Index(cache[s][w].data) = s
                                /\ TagOf(cache[s][w].data) = cache[s][w].tag

\* No write is forgotten: a block written since it was fetched is dirty
\* until it leaves the cache, and is written back then, once.
WritesSaved ==
    /\ unsaved = UNION {{cache[s][w].data : w \in {v \in Ways : cache[s][v].dirty}} : s \in Sets}
    /\ stat.writeback = saved
    /\ stat.readhit + stat.readmiss = stat.read /\ stat.writehit + stat.writemiss = stat.write

=============================================================================
