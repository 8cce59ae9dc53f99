----------------------------- MODULE RouterInv ------------------------------
(***************************************************************************)
(* The inductive invariant of Router: what holds of the queue, of the      *)
(* packets that wait and of the two threads after every step, and from     *)
(* which the properties of Router follow.                                  *)
(***************************************************************************)
EXTENDS Router

\* A thread that handles a request which has not been destroyed under it,
\* and one that has given such a request for this address up.
Works(t)        == Handles(t) /\ ~(t = "main" /\ dangling)
GivesUp(t, ip)  == at[t] = "giveup" /\ cur[t] = ip /\ ~(t = "main" /\ dangling)

\* Only the packet thread answers, and only the timeout thread sweeps.  A
\* request stays on the queue while a thread works on it, and so does the one
\* the sweep is to go on with.
ThreadInv ==
    /\ at["main"] # "sweep" /\ at["timer"] # "reply"
    /\ dangling => Handles("main")
    /\ \A t \in Threads : Works(t) => cur[t] \in Queued
    /\ at["timer"] = "sweep" => cur["timer"] \in Queued \cup {NoIP}
    /\ Handles("timer") => next \in (Queued \cup {NoIP}) \ {cur["timer"]}

\* No address is asked for by two requests; one on the queue has a packet,
\* and nothing is left of one that is not.
Distinct == \A i, j \in DOMAIN requests : requests[i] = requests[j] => i = j

RequestInv ==
    /\ Distinct
    /\ \A ip \in Queued : req[ip].packets # <<>>
    /\ \A ip \in IPs \ Queued : req[ip] = NoPacket

\* The packets the router holds: its own, and those it forwards, unchanged.
Intact(packet) ==
    IF Own(packet) THEN packet.ttl = INIT_TTL
    ELSE packet.id \in Transit /\ packet = Packet(packet.id)

PacketInv ==
    /\ \A ip \in IPs : \A k \in DOMAIN req[ip].packets :
         LET packet == req[ip].packets[k]
         IN  /\ Intact(packet)
             /\ ~Own(packet) => packet.dst = ip /\ packet.id \notin new
    /\ \A t \in Threads : \A k \in DOMAIN todo[t] :
         Intact(todo[t][k]) /\ (~Own(todo[t][k]) => todo[t][k].id \notin new)

\* No packet waits at two places.
Once(packets) ==
    \A j, k \in DOMAIN packets :
        ~Own(packets[j]) /\ ~Own(packets[k]) /\ packets[j].id = packets[k].id => j = k

OnceInv ==
    /\ \A ip \in IPs : Once(req[ip].packets)
    /\ at["main"] = "reply" => Once(todo["main"])
    /\ \A id \in Transit : ~(InHand(id) /\ InQueue(id))

\* A packet that has arrived waits until something becomes of it; one of
\* which something has become is still on the queue only until the thread
\* that gives its request up destroys it.
FateOf(id) ==
    /\ id \in new => outcome[id] = "none"
    /\ id \notin new => outcome[id] # "none" \/ Waiting(id)
    /\ outcome[id] = "sent" => ~Waiting(id)
    /\ outcome[id] = "unreachable" => id \in Answerable
    /\ outcome[id] = "dropped" => id \notin Answerable
    /\ InHand(id) => outcome[id] = "none"
    /\ InQueue(id) /\ outcome[id] # "none" =>
         \E t \in Threads : GivesUp(t, Traffic[id].dst)

FateInv == \A id \in Transit : FateOf(id)

\* A thread gives a request up after its last try, and destroys it when it
\* has come to every packet.
GiveUpInv ==
    \A t \in Threads : \A ip \in IPs : GivesUp(t, ip) =>
        /\ req[ip].times_sent >= Tries
        /\ \A id \in Transit :
             /\ Among(id, todo[t]) => Among(id, req[ip].packets)
             /\ Among(id, req[ip].packets) => Among(id, todo[t]) \/ outcome[id] # "none"

WireInv ==
    \A p \in wire : IF Own(p) THEN p.ttl = INIT_TTL
                    ELSE (p.ttl + 1) % 256 = Traffic[p.id].ttl

IInv ==
    /\ TypeOK /\ ThreadInv /\ RequestInv /\ PacketInv
    /\ OnceInv /\ FateInv /\ GiveUpInv /\ WireInv

=============================================================================
