------------------------------- MODULE Router -------------------------------
(***************************************************************************)
(* The router of EE323/lab4: the thread that handles packets               *)
(* (sr_handlepacket() in sr_router.c) and the thread that sweeps the ARP   *)
(* cache every second (sr_arpcache_timeout() in sr_arpcache.c).            *)
(*                                                                         *)
(* The timeout thread holds the (recursive) lock for its whole sweep.  The *)
(* packet thread takes it only inside the functions of ArpCache: it works  *)
(* on the request that sr_arpcache_queuereq() returned without the lock.   *)
(* Both run sr_arpcache_handle_arpreq(), here step by step.  The lookup of *)
(* an address and the queueing that follows a miss are one step: only the  *)
(* packet thread adds mappings, so a miss is still a miss.                 *)
(*                                                                         *)
(* When the packet thread uses a request the timeout thread has destroyed, *)
(* nothing is known of what follows, and the model stops there.            *)
(*                                                                         *)
(* ARP requests for the router's own addresses are answered from the       *)
(* packet alone (lines 495-525) and have no action.                        *)
(***************************************************************************)
EXTENDS ArpCache

CONSTANTS
    Ifaces,       \* the addresses of the router's own interfaces
    Blacklisted,  \* the addresses in 10.0.2.0/24
    rtable,       \* the routing table: sequence of [covers, length, iface]
    Neighbours,   \* the hosts that answer ARP requests
    Ids, Traffic, \* the packets that may arrive, by name, each at most once
    MaxPackets,   \* bound: how many of them do
    Tries,        \* five (line 58)
    INIT_TTL

ASSUME RouterAssumption ==
    /\ Ifaces \subseteq IPs /\ Blacklisted \subseteq IPs
    /\ Neighbours \subseteq IPs \ Ifaces /\ MaxPackets \in Nat
    /\ Tries \in Nat \ {0} /\ INIT_TTL \in 1..255
    /\ rtable \in Seq([covers : SUBSET IPs, length : 0..32, iface : Ifaces])
    /\ \A id \in Ids : /\ Traffic[id].src \in IPs \ Ifaces
                       /\ Traffic[id].dst \in IPs
                       /\ Traffic[id].ttl \in 0..255
                       /\ Traffic[id].from \in Ifaces

VARIABLES
    at,        \* where each thread is
    cur,       \* the request it handles
    todo,      \* the packets of that request it has not come to yet
    next,      \* the timeout thread's next request
    dangling,  \* the packet thread's request has been destroyed
    down,      \* "up", or why the program has failed
    new,       \* the packets that have not arrived yet
    wire,      \* every packet sent so far, as it was sent
    outcome    \* what became of each packet that was to be forwarded

threads == <<at, cur, todo, next, dangling>>
history == <<new, wire, outcome>>
vars    == <<cache, threads, down, history>>

Threads == {"main", "timer"}
Other(t) == IF t = "main" THEN "timer" ELSE "main"
locked  == at["timer"] # "idle"
Handles(t) == at[t] \in {"check", "decide", "resend", "giveup"}
Up(t)   == down = "up" /\ ~(t = "main" /\ dangling)

\* sr_findLPMentry(): the longest mask that matches, and the first of them;
\* no mask is ever longer than that of a default route.
sr_findLPMentry(ip) ==
    LET hits == {i \in DOMAIN rtable : ip \in rtable[i].covers /\ rtable[i].length > 0}
    IN  IF hits = {} THEN NoIP
        ELSE rtable[CHOOSE i \in hits : \A j \in hits :
                      \/ rtable[i].length > rtable[j].length
                      \/ rtable[i].length = rtable[j].length /\ i <= j].iface

Own(packet)         == packet.src \in Ifaces
Decremented(packet) == [packet EXCEPT !.ttl = (@ + 255) % 256]
Packet(id)          == [id |-> id, src |-> Traffic[id].src, dst |-> Traffic[id].dst,
                        ttl |-> Traffic[id].ttl]
\* What the router sends of its own accord to the sender of a packet.
Answer(packet, iface) ==
    [id |-> packet.id, src |-> iface, dst |-> packet.src, ttl |-> INIT_TTL]

\* The packets that are to be forwarded (lines 312-412), and those among
\* them whose sender can be told that they were not.
Valid(id)  == Traffic[id].ok /\ {Traffic[id].src, Traffic[id].dst} \cap Blacklisted = {}
ToForward(id) == /\ Valid(id) /\ Traffic[id].dst \notin Ifaces
                 /\ sr_findLPMentry(Traffic[id].dst) # NoIP /\ Traffic[id].ttl # 1
Transit    == {id \in Ids : ToForward(id)}
Answerable == {id \in Transit : sr_findLPMentry(Traffic[id].src) # NoIP}

Init ==
    /\ sr_arpcache_init
    /\ at = [t \in Threads |-> "idle"] /\ cur = [t \in Threads |-> NoIP]
    /\ todo = [t \in Threads |-> <<>>] /\ next = NoIP /\ dangling = FALSE
    /\ down = "up"
    /\ new = Ids /\ wire = {} /\ outcome = [id \in Ids |-> "none"]

Transmit(packet) ==
    /\ wire' = wire \cup {packet}
    /\ outcome' = IF Own(packet) THEN outcome
                  ELSE [outcome EXCEPT ![packet.id] = "sent"]

-----------------------------------------------------------------------------
(* sr_handlepacket(), for an IP packet.                                    *)

Arrives(id) ==
    /\ down = "up" /\ at["main"] = "idle" /\ ~locked
    /\ Cardinality(Ids \ new) < MaxPackets
    /\ id \in new /\ new' = new \ {id}

\* Not valid, on the blacklist, for the router but neither an echo request
\* nor TCP or UDP, or too short for the error it would cause.
Dropped(id) ==
    LET p == Traffic[id]
    IN  \/ ~Valid(id)
        \/ p.dst \in Ifaces /\ p.proto \notin {"echo", "port"}
        \/ p.dst \in Ifaces /\ p.proto = "port" /\ p.short
        \/ p.dst \notin Ifaces /\ p.short
             /\ (p.ttl = 1 \/ sr_findLPMentry(p.dst) = NoIP)

Drop(id) ==
    /\ Arrives(id) /\ Dropped(id)
    /\ UNCHANGED <<cache, threads, down, wire, outcome>>

\* Send when the address is known; else queue, and handle the request.
Output(packet, asSent) ==
    IF lookup(packet.dst)
      THEN Transmit(asSent) /\ UNCHANGED <<cache, at, cur>>
      ELSE /\ queuereq(packet.dst, packet)
           /\ at' = [at EXCEPT !["main"] = "check"]
           /\ cur' = [cur EXCEPT !["main"] = packet.dst]
           /\ UNCHANGED <<wire, outcome>>

EchoReply(id) ==
    /\ Arrives(id) /\ ~Dropped(id)
    /\ Traffic[id].dst \in Ifaces /\ Traffic[id].proto = "echo"
    /\ IF sr_findLPMentry(Traffic[id].src) = NoIP
         THEN UNCHANGED <<cache, at, cur, wire, outcome>>
         ELSE LET reply == Answer(Packet(id), Traffic[id].dst) IN Output(reply, reply)
    /\ UNCHANGED <<todo, next, dangling, down>>

\* The else of line 297 belongs to the routing table's entry: it is NULL
\* where line 299 uses it, and a miss in the ARP cache sends nothing.
PortUnreachable(id) ==
    /\ Arrives(id) /\ ~Dropped(id)
    /\ Traffic[id].dst \in Ifaces /\ Traffic[id].proto = "port"
    /\ IF sr_findLPMentry(Traffic[id].src) = NoIP
         THEN down' = "null" /\ UNCHANGED <<wire, outcome>>
         ELSE /\ IF lookup(Traffic[id].src)
                   THEN Transmit(Answer(Packet(id), Traffic[id].dst))
                   ELSE UNCHANGED <<wire, outcome>>
              /\ UNCHANGED down
    /\ UNCHANGED <<cache, threads>>

\* The error leaves through the interface the packet came in by.
TimeExceeded(id) ==
    /\ Arrives(id) /\ ~Dropped(id)
    /\ Traffic[id].dst \notin Ifaces
    /\ sr_findLPMentry(Traffic[id].dst) # NoIP /\ Traffic[id].ttl = 1
    /\ LET error == Answer(Packet(id), Traffic[id].from) IN Output(error, error)
    /\ UNCHANGED <<todo, next, dangling, down>>

NetUnreachable(id) ==
    /\ Arrives(id) /\ ~Dropped(id)
    /\ Traffic[id].dst \notin Ifaces /\ sr_findLPMentry(Traffic[id].dst) = NoIP
    /\ IF sr_findLPMentry(Traffic[id].src) = NoIP
         THEN UNCHANGED <<cache, at, cur, wire, outcome>>
         ELSE LET error == Answer(Packet(id), Traffic[id].from) IN Output(error, error)
    /\ UNCHANGED <<todo, next, dangling, down>>

\* A packet that must wait keeps its TTL until it is sent.
Forward(id) ==
    /\ Arrives(id) /\ id \in Transit
    /\ Output(Packet(id), Decremented(Packet(id)))
    /\ UNCHANGED <<todo, next, dangling, down>>

-----------------------------------------------------------------------------
(* sr_handlepacket(), for an ARP reply.                                    *)

ArpReply(ip) ==
    /\ down = "up" /\ at["main"] = "idle" /\ ~locked
    /\ insert(ip)
    /\ IF ip \in Queued
         THEN /\ at' = [at EXCEPT !["main"] = "reply"]
              /\ cur' = [cur EXCEPT !["main"] = ip]
              /\ todo' = [todo EXCEPT !["main"] = req[ip].packets]
         ELSE UNCHANGED <<at, cur, todo>>
    /\ UNCHANGED <<next, dangling, down, history>>

\* Each packet that waited is sent; the router's own keep their TTL.
SendWaiting ==
    /\ down = "up" /\ at["main"] = "reply" /\ todo["main"] # <<>>
    /\ LET packet == Head(todo["main"])
       IN  Transmit(IF Own(packet) THEN packet ELSE Decremented(packet))
    /\ todo' = [todo EXCEPT !["main"] = Tail(@)]
    /\ UNCHANGED <<cache, at, cur, next, dangling, down, new>>

\* sr_arpreq_destroy() of a request that is no longer on the queue.
DestroyAnswered ==
    /\ down = "up" /\ at["main"] = "reply" /\ todo["main"] = <<>> /\ ~locked
    /\ at' = [at EXCEPT !["main"] = "idle"]
    /\ cur' = [cur EXCEPT !["main"] = NoIP]
    /\ UNCHANGED <<cache, todo, next, dangling, down, history>>

-----------------------------------------------------------------------------
(* sr_arpcache_handle_arpreq(), by either thread.                          *)

Return(t) ==
    /\ at' = [at EXCEPT ![t] = IF t = "main" THEN "idle" ELSE "sweep"]
    /\ cur' = [cur EXCEPT ![t] = IF t = "main" THEN NoIP ELSE next]

Check(t) ==
    /\ Up(t) /\ at[t] = "check"
    /\ IF req[cur[t]].due
         THEN at' = [at EXCEPT ![t] = "decide"] /\ UNCHANGED cur
         ELSE Return(t)
    /\ UNCHANGED <<cache, todo, next, dangling, down, history>>

\* Fault: one request too few before giving up.
FaultyDecide(t) ==
    /\ Up(t) /\ at[t] = "decide"
    /\ IF req[cur[t]].times_sent + 1 >= Tries
         THEN /\ at' = [at EXCEPT ![t] = "giveup"]
              /\ todo' = [todo EXCEPT ![t] = req[cur[t]].packets]
         ELSE /\ at' = [at EXCEPT ![t] = "resend"]
              /\ UNCHANGED todo
    /\ UNCHANGED <<cache, cur, next, dangling, down, history>>

\* Fault: the router never gives up.
FaultyPersist(t) ==
    /\ Up(t) /\ at[t] = "decide"
    /\ at' = [at EXCEPT ![t] = "resend"]
    /\ UNCHANGED <<cache, cur, todo, next, dangling, down, history>>

Decide(t) ==
    /\ Up(t) /\ at[t] = "decide"
    /\ IF req[cur[t]].times_sent >= Tries
         THEN /\ at' = [at EXCEPT ![t] = "giveup"]
              /\ todo' = [todo EXCEPT ![t] = req[cur[t]].packets]
         ELSE /\ at' = [at EXCEPT ![t] = "resend"]
              /\ UNCHANGED todo
    /\ UNCHANGED <<cache, cur, next, dangling, down, history>>

\* The two threads may increment times_sent at the same time, and one
\* increment is then lost.
Resend(t) ==
    LET both == at[Other(t)] = "resend" /\ cur[Other(t)] = cur[t] /\ ~dangling
    IN  /\ Up(t) /\ at[t] = "resend"
        /\ \E n \in {1} \cup (IF both THEN {0} ELSE {}) :
             req' = [req EXCEPT ![cur[t]] = [due |-> FALSE, times_sent |-> @.times_sent + n, packets |-> @.packets]]
        /\ Return(t)
        /\ UNCHANGED <<entries, old, requests, todo, next, dangling, down, history>>

\* One packet of a request given up: host unreachable to its sender, or
\* nothing when there is no route to it.
Unreachable(t) ==
    /\ Up(t) /\ at[t] = "giveup" /\ todo[t] # <<>> /\ (t = "main" => ~locked)
    /\ LET packet == Head(todo[t])
           iface  == sr_findLPMentry(packet.src)
           error  == Answer(packet, iface)
       IN  /\ outcome' = IF Own(packet) THEN outcome
                         ELSE [outcome EXCEPT ![packet.id] =
                                 IF iface = NoIP THEN "dropped" ELSE "unreachable"]
           /\ CASE iface = NoIP -> UNCHANGED <<cache, wire>>
                [] iface # NoIP /\ lookup(packet.src) ->
                     wire' = wire \cup {error} /\ UNCHANGED cache
                [] OTHER -> queuereq(packet.src, error) /\ UNCHANGED wire
    /\ todo' = [todo EXCEPT ![t] = Tail(@)]
    /\ UNCHANGED <<at, cur, next, dangling, down, new>>

\* Fault: a request is destroyed without the lock.
FaultyUnlockedDestroy(t) ==
    /\ Up(t) /\ at[t] = "giveup" /\ todo[t] = <<>>
    /\ destroy(cur[t])
    /\ dangling' = (t = "timer" /\ (dangling \/ (Handles("main") /\ cur["main"] = cur[t])))
    /\ Return(t)
    /\ UNCHANGED <<todo, next, down, history>>

\* The packet thread may be left with a pointer to what is freed here.
Destroy(t) ==
    /\ Up(t) /\ at[t] = "giveup" /\ todo[t] = <<>> /\ (t = "main" => ~locked)
    /\ destroy(cur[t])
    /\ dangling' = (t = "timer" /\ (dangling \/ (Handles("main") /\ cur["main"] = cur[t])))
    /\ Return(t)
    /\ UNCHANGED <<todo, next, down, history>>

\* The packet thread uses the request after it was destroyed.
UseFreed ==
    /\ down = "up" /\ dangling
    /\ down' = "freed"
    /\ UNCHANGED <<cache, threads, history>>

-----------------------------------------------------------------------------
(* sr_arpcache_timeout() and sr_arpcache_sweepreqs().                      *)

StartSweep ==
    /\ down = "up" /\ ~locked
    /\ invalidate
    /\ at' = [at EXCEPT !["timer"] = "sweep"]
    /\ cur' = [cur EXCEPT !["timer"] = IF requests = <<>> THEN NoIP ELSE Head(requests)]
    /\ UNCHANGED <<todo, next, dangling, down, history>>

Sweep ==
    /\ down = "up" /\ at["timer"] = "sweep" /\ cur["timer"] # NoIP
    /\ next' = After(cur["timer"])
    /\ at' = [at EXCEPT !["timer"] = "check"]
    /\ UNCHANGED <<cache, cur, todo, dangling, down, history>>

EndSweep ==
    /\ down = "up" /\ at["timer"] = "sweep" /\ cur["timer"] = NoIP
    /\ at' = [at EXCEPT !["timer"] = "idle"]
    /\ UNCHANGED <<cache, cur, todo, next, dangling, down, history>>

Time ==
    /\ down = "up"
    /\ Tick \/ \E s \in Slots : GrowOld(s)
    /\ UNCHANGED <<threads, down, history>>

-----------------------------------------------------------------------------
Receive ==
    \/ \E id \in Ids : \/ Drop(id) \/ EchoReply(id) \/ PortUnreachable(id)
                       \/ TimeExceeded(id) \/ NetUnreachable(id) \/ Forward(id)
    \/ \E ip \in Neighbours : ArpReply(ip)

handle_arpreq(t) == Check(t) \/ Decide(t) \/ Resend(t) \/ Unreachable(t) \/ Destroy(t)

Main  == SendWaiting \/ DestroyAnswered \/ handle_arpreq("main") \/ UseFreed
Timer == StartSweep \/ Sweep \/ EndSweep \/ handle_arpreq("timer")

Next == Receive \/ Main \/ Timer \/ Time

Spec == Init /\ [][Next]_vars

\* Both threads and the clock go on; the packet thread gets the lock in the
\* end, for the timeout thread sleeps a second between two sweeps.
FairSpec == Spec /\ SF_vars(Main) /\ WF_vars(Timer)
                 /\ WF_vars(Tick /\ UNCHANGED <<threads, down, history>>)

-----------------------------------------------------------------------------
PacketType == [id : Ids, src : IPs, dst : IPs, ttl : 0..255]

\* Every variable has its type.
TypeOK ==
    /\ entries \in [Slots -> IPs \cup {NoIP}] /\ old \subseteq Slots
    /\ requests \in Seq(IPs)
    /\ req \in [IPs -> [due : BOOLEAN, times_sent : Nat, packets : Seq(PacketType)]]
    /\ at \in [Threads -> {"idle", "check", "decide", "resend", "giveup", "reply", "sweep"}]
    /\ cur \in [Threads -> IPs \cup {NoIP}] /\ next \in IPs \cup {NoIP}
    /\ todo \in [Threads -> Seq(PacketType)]
    /\ dangling \in BOOLEAN /\ down \in {"up", "null", "freed"}
    /\ new \subseteq Ids /\ wire \subseteq PacketType
    /\ outcome \in [Ids -> {"none", "sent", "unreachable", "dropped"}]

Among(id, packets) == \E k \in DOMAIN packets : packets[k].id = id /\ ~Own(packets[k])
InQueue(id) == \E ip \in Queued : Among(id, req[ip].packets)
InHand(id)  == at["main"] = "reply" /\ Among(id, todo["main"])
Waiting(id) == InQueue(id) \/ InHand(id)

\* The request in the hands of the timeout thread, and the one it saved
\* before (line 29), are on the queue although handling one may destroy it
\* and add others; and a request on the queue has a packet, whose interface
\* line 133 reads.
QueueSound ==
    /\ at["timer"] # "idle" => cur["timer"] \in Queued \cup {NoIP}
    /\ Handles("timer") => next \in (Queued \cup {NoIP}) \ {cur["timer"]}
    /\ \A ip \in Queued : req[ip].packets # <<>>
    /\ \A ip \in IPs \ Queued : req[ip] = NoPacket \/ dangling

\* A packet that has been sent waits nowhere, so that it is neither sent
\* again nor reported unreachable; its TTL, a byte, has fallen by one, however
\* long it waited and whichever way it left, and the router's own packets
\* leave with theirs.
SentOnce ==
    /\ \A id \in Transit : outcome[id] = "sent" => ~Waiting(id)
    /\ \A p \in wire : IF Own(p) THEN p.ttl = INIT_TTL
                       ELSE (p.ttl + 1) % 256 = Traffic[p.id].ttl

\* Although both threads may be asking for the same address at once, at
\* most one request more than the limit is counted.
TriesBounded == \A ip \in IPs : req[ip].times_sent <= Tries + 1

\* No packet is reported unreachable before its next hop has been asked for
\* as often as line 58 says.
UnreachableIsEarned ==
    [][\A id \in Transit :
         outcome[id] # "unreachable" /\ outcome'[id] = "unreachable" =>
           req[Traffic[id].dst].times_sent >= Tries]_vars

\* The queue empties again and again: the chain of errors about packets,
\* about those errors, and about these, comes to an end.
Drains == []<>(requests = <<>> \/ down # "up")

\* The pointer sr_arpcache_queuereq() returns is good for the call of
\* sr_arpcache_handle_arpreq() it is passed to (sr_arpcache.c, lines 198-199).
NoUseAfterFree == down # "freed"

\* The promise the router keeps.
fate == [id \in Transit |->
           CASE outcome[id] # "none" -> outcome[id]
             [] outcome[id] = "none" /\ id \in new -> "new"
             [] outcome[id] = "none" /\ Waiting(id) -> "waiting"
             [] OTHER -> "lost"]
Promise == INSTANCE Delivery
Delivered == Promise!Spec

=============================================================================
