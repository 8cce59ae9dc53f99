------------------------------ MODULE ArpCache ------------------------------
(***************************************************************************)
(* The ARP cache of EE323/lab4/sr_arpcache.c: the table of mappings and    *)
(* the queue of requests with the packets that wait for an answer.  Every  *)
(* operator here is a function that runs from pthread_mutex_lock() to      *)
(* pthread_mutex_unlock().                                                 *)
(*                                                                         *)
(* A request is named by its address: sr_arpcache_queuereq() is the only   *)
(* place that creates one, and it first looks for one with that address,   *)
(* under the lock.  A pointer to a request that was destroyed since is not *)
(* a name any more: whoever holds one must remember that it dangles.       *)
(*                                                                         *)
(* Time is what the comparisons see of it: a mapping is old when           *)
(* difftime() > SR_ARPCACHE_TO (line 416), a request due when              *)
(* difftime() > 0.5 (line 54), which calloc()'s sent = 0 is from the start.*)
(* Hardware addresses are left out: a mapping is the address it is for.    *)
(***************************************************************************)
EXTENDS Naturals, Sequences, FiniteSets

CONSTANTS
    IPs,             \* the addresses of the hosts and of the router's interfaces
    NoIP,            \* a null pointer, or an entry that is not valid
    SR_ARPCACHE_SZ   \* the size of the table

ASSUME ArpCacheAssumption == SR_ARPCACHE_SZ \in Nat \ {0} /\ NoIP \notin IPs

VARIABLES
    entries,   \* the address each slot of the table is valid for, or NoIP
    old,       \* the slots whose mapping has passed SR_ARPCACHE_TO
    requests,  \* the queue, oldest first
    req        \* what each request holds, by address

cache == <<entries, old, requests, req>>

Slots    == 1..SR_ARPCACHE_SZ
Queued   == {requests[i] : i \in DOMAIN requests}
NoPacket == [due |-> TRUE, times_sent |-> 0, packets |-> <<>>]

sr_arpcache_init ==
    /\ entries = [s \in Slots |-> NoIP] /\ old = {}
    /\ requests = <<>> /\ req = [ip \in IPs |-> NoPacket]

\* Whether sr_arpcache_lookup() finds a mapping; it returns a copy.
lookup(ip) == \E s \in Slots : entries[s] = ip

Push(ip, packet) == [req EXCEPT ![ip].packets = <<packet>> \o @]

\* Fault: a packet for an address that is asked for already is not kept.
FaultyFirstOnly(ip, packet) ==
    /\ UNCHANGED <<entries, old>>
    /\ IF ip \in Queued
         THEN UNCHANGED <<requests, req>>
         ELSE requests' = Append(requests, ip) /\ req' = Push(ip, packet)

\* sr_arpcache_queuereq(): a new request goes to the end of the queue, a
\* packet to the front of its request.
queuereq(ip, packet) ==
    /\ requests' = IF ip \in Queued THEN requests ELSE Append(requests, ip)
    /\ req' = Push(ip, packet)
    /\ UNCHANGED <<entries, old>>

\* Where the request for this address is on the queue, which has one at most.
Position(ip) == CHOOSE k \in DOMAIN requests : requests[k] = ip

Without(ip)  ==
    IF ip \notin Queued THEN requests
    ELSE SubSeq(requests, 1, Position(ip) - 1) \o SubSeq(requests, Position(ip) + 1, Len(requests))
Forgotten(ip) == [req EXCEPT ![ip] = NoPacket]

\* Fault: a full table is written past its end.
FaultyNoBoundCheck(ip) ==
    LET free == {s \in 1..SR_ARPCACHE_SZ + 1 : s \in Slots => entries[s] = NoIP}
    IN  [s \in Slots \cup {t \in free : \A u \in free : t <= u} |->
           IF \A u \in free : s <= u THEN ip ELSE entries[s]]

\* The first slot that is not valid takes the mapping; a full table stays.
WithMapping(ip) ==
    LET free == {s \in Slots : entries[s] = NoIP}
    IN  [s \in Slots |->
           IF s \in free /\ (\A t \in free : s <= t) THEN ip ELSE entries[s]]

\* Fault: the request stays on the queue.
FaultyInsertOnly(ip) ==
    /\ entries' = WithMapping(ip)
    /\ UNCHANGED <<old, requests, req>>

\* sr_arpcache_insert(): the request leaves the queue, its packets with it.
insert(ip) ==
    /\ entries' = WithMapping(ip)
    /\ requests' = Without(ip) /\ req' = Forgotten(ip)
    /\ UNCHANGED old

\* Fault: the request is freed and stays on the queue.
FaultyNotUnlinked(ip) ==
    /\ req' = Forgotten(ip)
    /\ UNCHANGED <<entries, old, requests>>

\* sr_arpreq_destroy() of a request on the queue.
destroy(ip) ==
    /\ requests' = Without(ip) /\ req' = Forgotten(ip)
    /\ UNCHANGED <<entries, old>>

\* The timeout thread invalidates what has grown old (lines 414-420).
invalidate ==
    /\ entries' = [s \in Slots |-> IF s \in old THEN NoIP ELSE entries[s]]
    /\ old' = {}
    /\ UNCHANGED <<requests, req>>

\* The request after this one, req->next.
After(ip) ==
    IF Position(ip) < Len(requests) THEN requests[Position(ip) + 1] ELSE NoIP

-----------------------------------------------------------------------------
(* The clock.                                                              *)

\* A second passes: every request is due again.
Tick ==
    /\ req' = [ip \in IPs |-> [req[ip] EXCEPT !.due = TRUE]]
    /\ UNCHANGED <<entries, old, requests>>

\* A mapping passes SR_ARPCACHE_TO.
GrowOld(s) ==
    /\ entries[s] # NoIP
    /\ old' = old \cup {s}
    /\ UNCHANGED <<entries, requests, req>>

=============================================================================
