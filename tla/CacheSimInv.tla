---------------------------- MODULE CacheSimInv -----------------------------
(***************************************************************************)
(* The inductive invariant of CacheSim: how the counters of the lines of a *)
(* set, which every access changes, go with what the policy is defined by. *)
(***************************************************************************)
EXTENDS CacheSim

Line == [valid : BOOLEAN, dirty : BOOLEAN, tag : Nat, data : Nat, time : Nat, freq : Nat]
Use  == [uses : Nat, last : Nat]
Statistics == [read : Nat, write : Nat, writeback : Nat,
               readhit : Nat, writehit : Nat, readmiss : Nat, writemiss : Nat]

CacheTypeOK ==
    /\ cache \in [Sets -> [Ways -> Line]]
    /\ stat \in Statistics
    /\ lru_only_flag \in BOOLEAN
    /\ DOMAIN policy = Sets
    /\ saved \in Nat

\* The ways of a set are filled in order; a line is where its address belongs.
Placed(s, set) ==
    /\ \A v, w \in Ways : v < w /\ set[w].valid => set[v].valid
    /\ \A w \in Ways : set[w].dirty => set[w].valid
    /\ \A w \in Ways : set[w].valid =>
         /\ Index(set[w].data) = s /\ TagOf(set[w].data) = set[w].tag
         /\ Block(set[w].data) = set[w].data

\* The lines and the blocks of the policy are the same, used as often; the
\* line that has aged more is the one that was used earlier.
Matches(set, p, total) ==
    /\ DOMAIN p = Contents(set)
    /\ \A w \in Ways : set[w].valid =>
         /\ p[set[w].data] \in Use
         /\ p[set[w].data].uses = set[w].freq /\ p[set[w].data].last < total
    /\ \A v, w \in Ways : v # w /\ set[v].valid /\ set[w].valid =>
         /\ set[v].data # set[w].data
         /\ set[v].time > set[w].time <=> p[set[v].data].last < p[set[w].data].last
         /\ set[v].time # set[w].time

SetInv(s, set, p, total) == Placed(s, set) /\ Matches(set, p, total)

CacheInv ==
    /\ CacheTypeOK
    /\ \A s \in Sets : SetInv(s, cache[s], policy[s], Total)
    /\ WritesSaved

=============================================================================
