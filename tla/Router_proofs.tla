--------------------------- MODULE Router_proofs ----------------------------
(***************************************************************************)
(* No packet is lost, sent twice, or both sent and reported unreachable,   *)
(* however the packet thread and the timeout thread interleave and however *)
(* many hosts, routes, packets and slots there are.  First the operators   *)
(* on packets, requests, routes and the queue, then IInv action by action, *)
(* then the implementation of Delivery, and last the bound on retries,     *)
(* which has an invariant of its own.                                      *)
(***************************************************************************)
EXTENDS RouterInv, NatFacts, SequenceTheorems

-----------------------------------------------------------------------------
(* The routing table and the packets.                                      *)

\* The longest match is an entry of the table, and leads to an interface.
LEMMA RouteLemma ==
    ASSUME NEW ip
    PROVE  sr_findLPMentry(ip) = NoIP \/ sr_findLPMentry(ip) \in Ifaces
<1> DEFINE hits == {i \in DOMAIN rtable : ip \in rtable[i].covers /\ rtable[i].length > 0}
           Best(i) == \A j \in hits : \/ rtable[i].length > rtable[j].length
                                      \/ rtable[i].length = rtable[j].length /\ i <= j
<1>1. sr_findLPMentry(ip) = IF hits = {} THEN NoIP ELSE rtable[CHOOSE i \in hits : Best(i)].iface
  BY DEF sr_findLPMentry
<1>2. ASSUME NEW i \in hits
      PROVE  i \in Nat /\ rtable[i].length \in 0..32 /\ rtable[i].iface \in Ifaces
  <2> DEFINE Route == [covers : SUBSET IPs, length : 0..32, iface : Ifaces]
  <2>1. rtable \in Seq(Route) /\ i \in DOMAIN rtable
    BY RouterAssumption
  <2>. HIDE DEF Route
  <2>2. i \in Nat /\ rtable[i] \in Route
    BY <2>1
  <2>. QED BY <2>2 DEF Route
<1> DEFINE lengths == {rtable[i].length : i \in hits}
<1>. HIDE DEF hits
<1>3. CASE hits # {}
  <2>1. lengths \in SUBSET (0..32) /\ lengths # {}
    BY <1>2, <1>3
  <2>2. PICK m \in lengths : \A n \in lengths : n <= m
    BY <2>1, GreatestElement
  <2> DEFINE longest == {i \in hits : rtable[i].length = m}
  <2>3. longest \in SUBSET Nat /\ longest # {}
    BY <1>2, <2>2
  <2>4. PICK i \in longest : \A j \in longest : i <= j
    BY <2>3, LeastElement
  <2>5. ASSUME NEW j \in hits
        PROVE  rtable[i].length > rtable[j].length
               \/ (rtable[i].length = rtable[j].length /\ i <= j)
    <3>1. rtable[j].length \in lengths /\ rtable[j].length <= m /\ rtable[i].length = m
      BY <2>2, <2>4
    <3>2. CASE rtable[j].length = m
      BY <3>1, <3>2, <2>4
    <3>3. CASE rtable[j].length # m
      BY <3>1, <3>3, <1>2, <2>1
    <3>. QED BY <3>2, <3>3
  <2>6. i \in hits /\ Best(i)
    BY <2>4, <2>5
  <2>7. (CHOOSE k \in hits : Best(k)) \in hits
    BY <2>6
  <2>. QED BY <1>1, <1>2, <1>3, <2>7
<1>. QED BY <1>1, <1>3

\* A packet to be forwarded is not the router's own, ...
LEMMA TransitLemma ==
    ASSUME NEW id \in Transit
    PROVE  /\ id \in Ids /\ Packet(id) \in PacketType /\ ~Own(Packet(id))
           /\ Packet(id).id = id /\ Packet(id).dst = Traffic[id].dst
           /\ Packet(id).src = Traffic[id].src /\ Packet(id).ttl = Traffic[id].ttl
           /\ Traffic[id].dst \in IPs
<1>1. id \in Ids
  BY DEF Transit
<1>2. Traffic[id].src \in IPs \ Ifaces /\ Traffic[id].dst \in IPs /\ Traffic[id].ttl \in 0..255
  BY <1>1, RouterAssumption
<1>. QED BY <1>1, <1>2 DEF Packet, PacketType, Own

\* ... and what the router sends of its own accord is.
LEMMA AnswerLemma ==
    ASSUME NEW packet \in PacketType, NEW iface \in Ifaces
    PROVE  /\ Answer(packet, iface) \in PacketType /\ Own(Answer(packet, iface))
           /\ Answer(packet, iface).ttl = INIT_TTL
           /\ Answer(packet, iface).dst = packet.src
<1>1. iface \in IPs /\ INIT_TTL \in 0..255
  BY RouterAssumption
<1>. QED BY <1>1 DEF Answer, PacketType, Own

\* A packet as it leaves: the router's own as it is, any other with a TTL
\* that is one less.
LEMMA DecrementedLemma ==
    ASSUME NEW packet \in PacketType
    PROVE  /\ Decremented(packet) \in PacketType
           /\ Decremented(packet).id = packet.id /\ Own(Decremented(packet)) = Own(packet)
           /\ (Decremented(packet).ttl + 1) % 256 = packet.ttl
<1>1. /\ packet = [id |-> packet.id, src |-> packet.src, dst |-> packet.dst, ttl |-> packet.ttl]
      /\ packet.id \in Ids /\ packet.src \in IPs /\ packet.dst \in IPs /\ packet.ttl \in 0..255
  BY DEF PacketType
<1>2. Decremented(packet) = [id |-> packet.id, src |-> packet.src, dst |-> packet.dst,
                             ttl |-> (packet.ttl + 255) % 256]
  BY <1>1 DEF Decremented
<1>3. (packet.ttl + 255) % 256 \in 0..255 /\ (((packet.ttl + 255) % 256) + 1) % 256 = packet.ttl
  BY <1>1
<1>. QED BY <1>1, <1>2, <1>3 DEF PacketType, Own

-----------------------------------------------------------------------------
(* The packets of a request.                                               *)

\* A packet put before the others.
LEMMA ConsLemma ==
    ASSUME NEW s \in Seq(PacketType), NEW p \in PacketType
    PROVE  /\ <<p>> \o s \in Seq(PacketType) /\ <<p>> \o s # <<>>
           /\ \A k \in DOMAIN (<<p>> \o s) :
                (<<p>> \o s)[k] = p \/ \E j \in DOMAIN s : (<<p>> \o s)[k] = s[j]
           /\ \A id : Among(id, <<p>> \o s) <=> Among(id, s) \/ (p.id = id /\ ~Own(p))
           /\ Once(s) /\ ~Among(p.id, s) => Once(<<p>> \o s)
           /\ Once(s) /\ Own(p) => Once(<<p>> \o s)
<1> DEFINE t == <<p>> \o s
<1>1. /\ t \in Seq(PacketType) /\ Len(t) = Len(s) + 1 /\ t[1] = p
      /\ \A k \in 1..Len(s) : t[k + 1] = s[k]
  OBVIOUS
<1>2. DOMAIN t = 1..(Len(s) + 1) /\ DOMAIN s = 1..Len(s) /\ Len(s) \in Nat
  BY <1>1
<1>. HIDE DEF t
<1>3. ASSUME NEW k \in DOMAIN t, k # 1 PROVE k - 1 \in DOMAIN s /\ t[k] = s[k - 1]
  <2>1. k - 1 \in 1..Len(s) /\ (k - 1) + 1 = k
    BY <1>2, <1>3
  <2>. QED BY <2>1, <1>1, <1>2
<1>4. \A j \in DOMAIN s : j + 1 \in DOMAIN t /\ t[j + 1] = s[j]
  BY <1>1, <1>2
<1>5. ASSUME NEW id PROVE Among(id, t) <=> Among(id, s) \/ (p.id = id /\ ~Own(p))
  <2>1. 1 \in DOMAIN t
    BY <1>2
  <2>2. ASSUME Among(id, t) PROVE Among(id, s) \/ (p.id = id /\ ~Own(p))
    <3>1. PICK k \in DOMAIN t : t[k].id = id /\ ~Own(t[k])
      BY <2>2 DEF Among
    <3>2. CASE k = 1
      BY <1>1, <3>1, <3>2
    <3>3. CASE k # 1
      <4>1. k - 1 \in DOMAIN s /\ t[k] = s[k - 1]
        BY <1>3, <3>3
      <4>. QED BY <3>1, <4>1 DEF Among
    <3>. QED BY <3>2, <3>3
  <2>3. ASSUME Among(id, s) PROVE Among(id, t)
    BY <1>4, <2>3 DEF Among
  <2>4. ASSUME p.id = id, ~Own(p) PROVE Among(id, t)
    BY <1>1, <2>1, <2>4 DEF Among
  <2>. QED BY <2>2, <2>3, <2>4
<1>6. ASSUME Once(s), Own(p) \/ ~Among(p.id, s) PROVE Once(t)
  <2> SUFFICES ASSUME NEW j \in DOMAIN t, NEW k \in DOMAIN t,
                      ~Own(t[j]), ~Own(t[k]), t[j].id = t[k].id
               PROVE  j = k
    BY DEF Once
  <2>1. CASE j # 1 /\ k # 1
    <3>1. j - 1 = k - 1
      BY <1>3, <1>6, <2>1 DEF Once
    <3>. QED BY <3>1, <1>2
  <2>2. CASE j = 1 /\ k # 1
    BY <1>1, <1>3, <1>6, <2>2 DEF Among
  <2>3. CASE j # 1 /\ k = 1
    BY <1>1, <1>3, <1>6, <2>3 DEF Among
  <2>. QED BY <2>1, <2>2, <2>3
<1>7. t # <<>>
  BY <1>1, <1>2
<1>8. \A k \in DOMAIN t : t[k] = p \/ \E j \in DOMAIN s : t[k] = s[j]
  BY <1>1, <1>3
<1>9. t = <<p>> \o s
  BY DEF t
<1>. QED BY <1>1, <1>5, <1>6, <1>7, <1>8, <1>9

\* The first packet taken away.
LEMMA TailLemma ==
    ASSUME NEW s \in Seq(PacketType), s # <<>>
    PROVE  /\ Head(s) \in PacketType /\ Tail(s) \in Seq(PacketType)
           /\ 1 \in DOMAIN s /\ Head(s) = s[1]
           /\ \A k \in DOMAIN Tail(s) : \E j \in DOMAIN s : Tail(s)[k] = s[j]
           /\ \A id : Among(id, s) <=> Among(id, Tail(s)) \/ (Head(s).id = id /\ ~Own(Head(s)))
           /\ Once(s) => Once(Tail(s)) /\ (Own(Head(s)) \/ ~Among(Head(s).id, Tail(s)))
<1> DEFINE t == Tail(s)
<1>1. /\ t \in Seq(PacketType) /\ Len(s) = Len(t) + 1 /\ Head(s) = s[1] /\ s[1] \in PacketType
      /\ \A k \in 1..Len(t) : t[k] = s[k + 1]
  OBVIOUS
<1>2. DOMAIN s = 1..(Len(t) + 1) /\ DOMAIN t = 1..Len(t) /\ Len(t) \in Nat
  BY <1>1
<1>. HIDE DEF t
<1>3. ASSUME NEW k \in DOMAIN s, k # 1 PROVE k - 1 \in DOMAIN t /\ s[k] = t[k - 1]
  <2>1. k - 1 \in 1..Len(t) /\ (k - 1) + 1 = k
    BY <1>2, <1>3
  <2>. QED BY <2>1, <1>1, <1>2
<1>4. \A j \in DOMAIN t : j + 1 \in DOMAIN s /\ j + 1 # 1 /\ t[j] = s[j + 1] /\ j \in Nat
  BY <1>1, <1>2
<1>5. 1 \in DOMAIN s
  BY <1>2
<1>6. ASSUME NEW id PROVE Among(id, s) <=> Among(id, t) \/ (Head(s).id = id /\ ~Own(Head(s)))
  <2>1. ASSUME Among(id, s) PROVE Among(id, t) \/ (Head(s).id = id /\ ~Own(Head(s)))
    <3>1. PICK k \in DOMAIN s : s[k].id = id /\ ~Own(s[k])
      BY <2>1 DEF Among
    <3>2. CASE k = 1
      BY <1>1, <3>1, <3>2
    <3>3. CASE k # 1
      <4>1. k - 1 \in DOMAIN t /\ s[k] = t[k - 1]
        BY <1>3, <3>3
      <4>. QED BY <3>1, <4>1 DEF Among
    <3>. QED BY <3>2, <3>3
  <2>2. ASSUME Among(id, t) PROVE Among(id, s)
    BY <1>4, <2>2 DEF Among
  <2>3. ASSUME Head(s).id = id, ~Own(Head(s)) PROVE Among(id, s)
    BY <1>1, <1>5, <2>3 DEF Among
  <2>. QED BY <2>1, <2>2, <2>3
<1>7. ASSUME Once(s) PROVE Once(t)
  <2> SUFFICES ASSUME NEW j \in DOMAIN t, NEW k \in DOMAIN t,
                      ~Own(t[j]), ~Own(t[k]), t[j].id = t[k].id
               PROVE  j = k
    BY DEF Once
  <2>1. j + 1 = k + 1 /\ j \in Nat /\ k \in Nat
    BY <1>4, <1>7 DEF Once
  <2>. QED BY <2>1
<1>8. ASSUME Once(s), ~Own(Head(s)) PROVE ~Among(Head(s).id, t)
  BY <1>1, <1>4, <1>5, <1>8 DEF Once, Among
<1>9. t = Tail(s)
  BY DEF t
<1>. QED BY <1>1, <1>4, <1>5, <1>6, <1>7, <1>8, <1>9

-----------------------------------------------------------------------------
(* The queue of requests.                                                  *)

Request  == [due : BOOLEAN, times_sent : Nat, packets : Seq(PacketType)]
Requests == [IPs -> Request]

\* What a request holds.
LEMMA RequestLemma ==
    ASSUME NEW r \in Requests, NEW ip \in IPs
    PROVE  /\ DOMAIN r = IPs /\ r[ip] \in Request
           /\ r[ip].due \in BOOLEAN /\ r[ip].times_sent \in Nat /\ r[ip].packets \in Seq(PacketType)
<1>1. DOMAIN r = IPs /\ r[ip] \in Request
  BY DEF Requests
<1>. QED BY <1>1 DEF Request

\* Queueing a packet changes one request, and there its packets alone.
LEMMA PushLemma ==
    ASSUME req \in Requests, NEW ip \in IPs, NEW p \in PacketType, req' = Push(ip, p)
    PROVE  /\ req' \in Requests
           /\ \A i \in IPs \ {ip} : req'[i] = req[i]
           /\ req'[ip].times_sent = req[ip].times_sent
           /\ req'[ip].packets = <<p>> \o req[ip].packets
<1>1. DOMAIN req = IPs /\ \A i \in IPs \ {ip} : req'[i] = req[i]
  BY RequestLemma DEF Push
<1>2. PICK d \in BOOLEAN, n \in Nat, q \in Seq(PacketType) :
          req[ip] = [due |-> d, times_sent |-> n, packets |-> q]
  BY RequestLemma DEF Request
<1>3. req'[ip] = [req[ip] EXCEPT !.packets = <<p>> \o req[ip].packets]
  BY <1>1 DEF Push
<1> DEFINE s == <<p>> \o q
<1>4. s \in Seq(PacketType)
  BY ConsLemma
<1>. HIDE DEF s
<1>10. req'[ip] = [req[ip] EXCEPT !.packets = s]
  BY <1>2, <1>3 DEF s
<1>5. req'[ip] = [due |-> d, times_sent |-> n, packets |-> s]
  BY <1>2, <1>10
<1>6. req'[ip] \in Request
  BY <1>4, <1>5 DEF Request
<1>7. DOMAIN req' = IPs /\ req' = [i \in IPs |-> req'[i]]
  BY <1>1 DEF Push
<1>8. \A i \in IPs : req'[i] \in Request
  BY <1>1, <1>6, RequestLemma
<1>9. req' \in Requests
  BY <1>7, <1>8 DEF Requests
<1>. QED BY <1>1, <1>2, <1>5, <1>9 DEF s

\* A request taken off the queue holds nothing.
LEMMA ForgottenLemma ==
    ASSUME req \in Requests, NEW ip \in IPs, req' = Forgotten(ip)
    PROVE  /\ req' \in Requests
           /\ \A i \in IPs \ {ip} : req'[i] = req[i]
           /\ req'[ip] = NoPacket /\ NoPacket.packets = <<>>
<1>1. DOMAIN req = IPs
  BY DEF Requests
<1>2. (\A i \in IPs \ {ip} : req'[i] = req[i]) /\ req'[ip] = NoPacket
  BY <1>1 DEF Forgotten
<1>3. DOMAIN req' = IPs /\ req' = [i \in IPs |-> req'[i]]
  BY <1>1 DEF Forgotten
<1> DEFINE s == <<>>
<1>4. s \in Seq(PacketType) /\ NoPacket = [due |-> TRUE, times_sent |-> 0, packets |-> s]
  BY DEF NoPacket
<1>. HIDE DEF s
<1>5. NoPacket \in Request
  BY <1>4 DEF Request
<1>6. \A i \in IPs : req'[i] \in Request
  BY <1>2, <1>5, RequestLemma
<1>7. req' \in Requests
  BY <1>3, <1>6 DEF Requests
<1>. QED BY <1>2, <1>7 DEF NoPacket

\* A new request joins the queue at its end, once.
LEMMA EnqueueLemma ==
    ASSUME requests \in Seq(IPs), Distinct, NEW ip \in IPs,
           requests' = IF ip \in Queued THEN requests ELSE Append(requests, ip)
    PROVE  requests' \in Seq(IPs) /\ Distinct' /\ Queued' = Queued \cup {ip}
<1>1. CASE ip \in Queued
  <2>1. requests' = requests
    BY <1>1
  <2>. QED BY <1>1, <2>1 DEF Distinct, Queued
<1>2. CASE ip \notin Queued
  <2>1. requests' = Append(requests, ip)
    BY <1>2
  <2>2. /\ requests' \in Seq(IPs) /\ DOMAIN requests' = 1..(Len(requests) + 1)
        /\ DOMAIN requests = 1..Len(requests) /\ Len(requests) \in Nat
        /\ requests'[Len(requests) + 1] = ip
        /\ \A k \in DOMAIN requests : requests'[k] = requests[k] /\ requests[k] # ip
    BY <1>2, <2>1 DEF Queued
  <2>3. Queued' = Queued \cup {ip}
    BY <2>2 DEF Queued
  <2>4. ASSUME NEW i \in DOMAIN requests', NEW j \in DOMAIN requests', requests'[i] = requests'[j]
        PROVE  i = j
    <3>1. \A k \in DOMAIN requests' : k \in DOMAIN requests \/ k = Len(requests) + 1
      BY <2>2
    <3>. QED BY <2>2, <2>4, <3>1 DEF Distinct
  <2>. QED BY <2>2, <2>3, <2>4 DEF Distinct
<1>. QED BY <1>1, <1>2

\* The request for an address is where Position() says.
LEMMA PositionLemma ==
    ASSUME requests \in Seq(IPs), NEW ip \in Queued
    PROVE  /\ Position(ip) \in 1..Len(requests) /\ Len(requests) \in Nat
           /\ DOMAIN requests = 1..Len(requests) /\ requests[Position(ip)] = ip
<1>1. \E k \in DOMAIN requests : requests[k] = ip
  BY DEF Queued
<1>2. Position(ip) \in DOMAIN requests /\ requests[Position(ip)] = ip
  BY <1>1 DEF Position
<1>. QED BY <1>2

\* Taking a request off the queue leaves the others, each once.
LEMMA WithoutLemma ==
    ASSUME requests \in Seq(IPs), Distinct, NEW ip, requests' = Without(ip)
    PROVE  requests' \in Seq(IPs) /\ Distinct' /\ Queued' = Queued \ {ip}
<1>1. CASE ip \notin Queued
  <2>1. requests' = requests
    BY <1>1 DEF Without
  <2>. QED BY <1>1, <2>1 DEF Distinct, Queued
<1>2. CASE ip \in Queued
  <2>1. PICK i \in 1..Len(requests) : i = Position(ip) /\ requests[i] = ip
    BY <1>2, PositionLemma
  <2>2. Len(requests) \in Nat /\ DOMAIN requests = 1..Len(requests)
    OBVIOUS
  <2> DEFINE from(k) == IF k < i THEN k ELSE k + 1
             s == SubSeq(requests, 1, i - 1)
             t == SubSeq(requests, i + 1, Len(requests))
  <2>10. requests' = s \o t
    BY <1>2, <2>1 DEF Without
  <2>11. /\ s \in Seq(IPs) /\ Len(s) = i - 1
        /\ \A k \in 1..(i - 1) : s[k] = requests[k]
    BY <2>1, <2>2
  <2>12. /\ t \in Seq(IPs) /\ Len(t) = Len(requests) - i
        /\ \A k \in 1..(Len(requests) - i) : t[k] = requests[k + i]
    BY <2>1, <2>2
  <2>. HIDE DEF s, t
  <2>3. /\ requests' \in Seq(IPs) /\ DOMAIN requests' = 1..(Len(requests) - 1)
        /\ \A k \in DOMAIN requests' : requests'[k] = IF k < i THEN s[k] ELSE t[k - (i - 1)]
    <3>1. /\ s \o t \in Seq(IPs) /\ Len(s \o t) = Len(s) + Len(t)
          /\ \A k \in 1..(Len(s) + Len(t)) :
                 (s \o t)[k] = IF k <= Len(s) THEN s[k] ELSE t[k - Len(s)]
      BY <2>11, <2>12, ConcatProperties
    <3>2. Len(s) + Len(t) = Len(requests) - 1 /\ i \in Nat
      BY <2>1, <2>2, <2>11, <2>12
    <3>3. requests' \in Seq(IPs) /\ DOMAIN requests' = 1..(Len(requests) - 1)
      BY <2>10, <3>1, <3>2
    <3>4. ASSUME NEW k \in 1..(Len(requests) - 1)
          PROVE  requests'[k] = IF k < i THEN s[k] ELSE t[k - (i - 1)]
      <4>1. requests'[k] = IF k <= Len(s) THEN s[k] ELSE t[k - Len(s)]
        BY <2>10, <3>1, <3>2
      <4>2. Len(s) = i - 1 /\ (k <= i - 1 <=> k < i)
        BY <2>11, <3>2
      <4>. QED BY <4>1, <4>2
    <3>. QED BY <3>3, <3>4
  <2>4. ASSUME NEW k \in DOMAIN requests'
        PROVE  from(k) \in DOMAIN requests /\ from(k) # i /\ requests'[k] = requests[from(k)]
    <3>1. CASE k < i
      BY <2>1, <2>2, <2>3, <2>11, <3>1
    <3>2. CASE ~(k < i)
      <4>1. k - (i - 1) \in 1..(Len(requests) - i) /\ (k - (i - 1)) + i = k + 1
        BY <2>1, <2>2, <2>3, <3>2
      <4>2. requests'[k] = requests[k + 1]
        BY <2>3, <2>12, <3>2, <4>1
      <4>. QED BY <2>1, <2>2, <2>3, <3>2, <4>2
    <3>. QED BY <3>1, <3>2
  <2>5. \A j, k \in DOMAIN requests' : from(j) = from(k) => j = k
    BY <2>1, <2>2, <2>3
  <2>6. \A m \in DOMAIN requests : m # i => \E k \in DOMAIN requests' : m = from(k)
    <3>1. ASSUME NEW m \in DOMAIN requests, m # i PROVE \E k \in DOMAIN requests' : m = from(k)
      <4>1. CASE m < i
        BY <2>1, <2>2, <2>3, <4>1
      <4>2. CASE m > i
        <5>1. m - 1 \in DOMAIN requests' /\ from(m - 1) = m
          BY <2>1, <2>2, <2>3, <4>2
        <5>. QED BY <5>1
      <4>. QED BY <2>1, <2>2, <3>1, <4>1, <4>2
    <3>. QED BY <3>1
  <2>. HIDE DEF from
  <2>7. Distinct'
    BY <2>4, <2>5 DEF Distinct
  <2>8. \A m \in DOMAIN requests : requests[m] = ip => m = i
    BY <2>1, <2>2 DEF Distinct
  <2>9. Queued' = Queued \ {ip}
    BY <2>1, <2>4, <2>6, <2>8 DEF Queued
  <2>. QED BY <2>3, <2>7, <2>9
<1>. QED BY <1>1, <1>2

\* The next request is another one.
LEMMA AfterLemma ==
    ASSUME requests \in Seq(IPs), Distinct, NEW ip \in Queued
    PROVE  After(ip) \in (Queued \cup {NoIP}) \ {ip}
<1>1. PICK i \in 1..Len(requests) : i = Position(ip) /\ requests[i] = ip
  BY PositionLemma
<1>2. Len(requests) \in Nat /\ DOMAIN requests = 1..Len(requests) /\ ip \in IPs
  BY <1>1
<1>3. CASE i < Len(requests)
  <2>1. i + 1 \in DOMAIN requests /\ i + 1 # i /\ i \in DOMAIN requests
    BY <1>1, <1>2, <1>3
  <2>2. After(ip) = requests[i + 1] /\ requests[i + 1] # ip
    BY <1>1, <1>3, <2>1 DEF After, Distinct
  <2>. QED BY <2>1, <2>2 DEF Queued
<1>4. CASE ~(i < Len(requests))
  <2>1. After(ip) = NoIP
    BY <1>1, <1>4 DEF After
  <2>. QED BY <1>2, <2>1, ArpCacheAssumption
<1>. QED BY <1>3, <1>4

\* The clock leaves all but the time of a request alone, ...
LEMMA TickLemma ==
    ASSUME req \in Requests, Tick
    PROVE  /\ req' \in Requests
           /\ \A ip \in IPs : /\ req'[ip].packets = req[ip].packets
                              /\ req'[ip].times_sent = req[ip].times_sent
                              /\ req[ip] = NoPacket => req'[ip] = NoPacket
<1>1. req' = [ip \in IPs |-> [req[ip] EXCEPT !.due = TRUE]]
  BY DEF Tick
<1>2. ASSUME NEW ip \in IPs
      PROVE  /\ req'[ip] \in Request /\ req'[ip].packets = req[ip].packets
             /\ req'[ip].times_sent = req[ip].times_sent
             /\ req[ip] = NoPacket => req'[ip] = NoPacket
  <2>1. PICK d \in BOOLEAN, n \in Nat, q \in Seq(PacketType) :
            req[ip] = [due |-> d, times_sent |-> n, packets |-> q]
    BY RequestLemma DEF Request
  <2>2. req'[ip] = [req[ip] EXCEPT !.due = TRUE]
    BY <1>1
  <2>3. req'[ip] = [[due |-> d, times_sent |-> n, packets |-> q] EXCEPT !.due = TRUE]
    BY <2>1, <2>2
  <2>4. req'[ip] = [due |-> TRUE, times_sent |-> n, packets |-> q]
    BY <2>3
  <2>5. req'[ip] \in Request
    BY <2>4 DEF Request
  <2>6. req[ip] = NoPacket => req'[ip] = req[ip]
    <3>1. req[ip] = NoPacket => d = TRUE
      BY <2>1 DEF NoPacket
    <3>. QED BY <2>1, <2>4, <3>1
  <2>. QED BY <2>1, <2>4, <2>5, <2>6
<1>. QED BY <1>1, <1>2 DEF Requests

\* ... and asking again all but its time and its count.
LEMMA ResendLemma ==
    ASSUME req \in Requests, NEW t \in Threads, Resend(t), cur[t] \in IPs
    PROVE  /\ req' \in Requests
           /\ \A ip \in IPs : /\ req'[ip].packets = req[ip].packets
                              /\ req'[ip].times_sent >= req[ip].times_sent
                              /\ ip # cur[t] => req'[ip] = req[ip]
<1>1. PICK n \in {0, 1} :
          req' = [req EXCEPT ![cur[t]] =
                    [due |-> FALSE, times_sent |-> @.times_sent + n, packets |-> @.packets]]
  BY DEF Resend
<1>2. DOMAIN req = IPs /\ DOMAIN req' = IPs /\ req' = [ip \in IPs |-> req'[ip]]
  BY <1>1 DEF Requests
<1>3. ASSUME NEW ip \in IPs
      PROVE  /\ req'[ip] \in Request /\ req'[ip].packets = req[ip].packets
             /\ req'[ip].times_sent >= req[ip].times_sent
             /\ ip # cur[t] => req'[ip] = req[ip]
  <2>1. /\ req[ip].times_sent \in Nat /\ req[ip].packets \in Seq(PacketType)
        /\ req[ip] \in Request
    BY RequestLemma
  <2>2. CASE ip = cur[t]
    <3>1. req'[ip] = [due |-> FALSE, times_sent |-> req[ip].times_sent + n,
                      packets |-> req[ip].packets]
      BY <1>1, <1>2, <2>2
    <3>2. /\ req'[ip].packets = req[ip].packets
          /\ req'[ip].times_sent = req[ip].times_sent + n
      BY <3>1
    <3>3. req[ip].times_sent + n \in Nat
      BY <2>1
    <3>4. req'[ip] \in Request
      BY <2>1, <3>1, <3>3 DEF Request
    <3>. QED BY <2>1, <2>2, <3>2, <3>4
  <2>3. CASE ip # cur[t]
    <3>1. req'[ip] = req[ip]
      BY <1>1, <1>2, <2>3
    <3>. QED BY <2>1, <2>3, <3>1
  <2>. QED BY <2>2, <2>3
<1>. QED BY <1>2, <1>3 DEF Requests

-----------------------------------------------------------------------------
(* What a step leaves alone.                                               *)

\* A packet to be forwarded waits in the request for its destination only.
Where ==
    \A id \in Transit :
        /\ InQueue(id) <=> Among(id, req[Traffic[id].dst].packets)
        /\ \A ip \in IPs : Among(id, req[ip].packets) => ip = Traffic[id].dst /\ id \notin new
        /\ \A t \in Threads : Among(id, todo[t]) => id \notin new

LEMMA WhereLemma == TypeOK /\ RequestInv /\ PacketInv => Where
<1>. SUFFICES ASSUME TypeOK, RequestInv, PacketInv, NEW id \in Transit
              PROVE  /\ InQueue(id) <=> Among(id, req[Traffic[id].dst].packets)
                     /\ \A ip \in IPs : Among(id, req[ip].packets) =>
                          ip = Traffic[id].dst /\ id \notin new
                     /\ \A t \in Threads : Among(id, todo[t]) => id \notin new
  BY DEF Where
<1>1. Traffic[id].dst \in IPs /\ Packet(id).dst = Traffic[id].dst
  BY TransitLemma
<1>2. ASSUME NEW ip \in IPs, Among(id, req[ip].packets)
      PROVE  ip = Traffic[id].dst /\ id \notin new
  BY <1>1, <1>2 DEF Among, PacketInv, Intact
<1>3. ASSUME NEW t \in Threads, Among(id, todo[t]) PROVE id \notin new
  BY <1>3 DEF Among, PacketInv, Intact
<1>4. \A ip \in IPs \ Queued : ~Among(id, req[ip].packets)
  BY DEF RequestInv, NoPacket, Among
<1>5. Queued \subseteq IPs
  BY DEF TypeOK, Queued
<1>. QED BY <1>1, <1>2, <1>3, <1>4, <1>5 DEF InQueue

\* The same holds after a step.
LEMMA WhereNext == TypeOK' /\ RequestInv' /\ PacketInv' => Where'
<1>1. TypeOK /\ RequestInv /\ PacketInv => Where
  BY WhereLemma
<1>. QED BY <1>1, PTL

\* What the router holds for others stays where it is: a step that adds at
\* most packets of its own to requests, and forgets no count.
Undisturbed ==
    \A ip \in IPs :
        /\ \A k \in DOMAIN req'[ip].packets :
             \/ Own(req'[ip].packets[k]) /\ req'[ip].packets[k].ttl = INIT_TTL
             \/ \E j \in DOMAIN req[ip].packets : req'[ip].packets[k] = req[ip].packets[j]
        /\ \A id : Among(id, req'[ip].packets) <=> Among(id, req[ip].packets)
        /\ Once(req[ip].packets) => Once(req'[ip].packets)
        /\ req[ip].times_sent >= Tries => req'[ip].times_sent >= Tries

\* Such is a step that changes no packets, ...
LEMMA SameUndisturbed ==
    ASSUME req \in Requests, req' \in Requests,
           \A ip \in IPs : /\ req'[ip].packets = req[ip].packets
                           /\ req'[ip].times_sent >= req[ip].times_sent
    PROVE  Undisturbed
<1>1. Tries \in Nat /\ \A ip \in IPs : req[ip].times_sent \in Nat /\ req'[ip].times_sent \in Nat
  BY RouterAssumption, RequestLemma
<1>2. \A ip \in IPs : req[ip].times_sent >= Tries => req'[ip].times_sent >= Tries
  BY <1>1
<1>. QED BY <1>2 DEF Undisturbed

\* ... and one that queues a packet of the router's own.
LEMMA OwnUndisturbed ==
    ASSUME req \in Requests, NEW ip \in IPs, NEW p \in PacketType,
           Own(p), p.ttl = INIT_TTL, req' = Push(ip, p)
    PROVE  Undisturbed
<1>1. /\ \A i \in IPs \ {ip} : req'[i] = req[i]
      /\ req'[ip].times_sent = req[ip].times_sent
      /\ req'[ip].packets = <<p>> \o req[ip].packets
  BY PushLemma
<1>2. req[ip].packets \in Seq(PacketType)
  BY RequestLemma
<1>3. ASSUME NEW i \in IPs, i # ip
      PROVE  /\ \A k \in DOMAIN req'[i].packets :
                  \E j \in DOMAIN req[i].packets : req'[i].packets[k] = req[i].packets[j]
             /\ \A id : Among(id, req'[i].packets) <=> Among(id, req[i].packets)
             /\ Once(req[i].packets) => Once(req'[i].packets)
             /\ req[i].times_sent >= Tries => req'[i].times_sent >= Tries
  BY <1>1, <1>3
<1>4. /\ \A k \in DOMAIN req'[ip].packets :
           \/ Own(req'[ip].packets[k]) /\ req'[ip].packets[k].ttl = INIT_TTL
           \/ \E j \in DOMAIN req[ip].packets : req'[ip].packets[k] = req[ip].packets[j]
      /\ \A id : Among(id, req'[ip].packets) <=> Among(id, req[ip].packets)
      /\ Once(req[ip].packets) => Once(req'[ip].packets)
  BY <1>1, <1>2, ConsLemma
<1>5. req[ip].times_sent >= Tries => req'[ip].times_sent >= Tries
  BY <1>1
<1>6. ASSUME NEW i \in IPs
      PROVE  /\ \A k \in DOMAIN req'[i].packets :
                  \/ Own(req'[i].packets[k]) /\ req'[i].packets[k].ttl = INIT_TTL
                  \/ \E j \in DOMAIN req[i].packets : req'[i].packets[k] = req[i].packets[j]
             /\ \A id : Among(id, req'[i].packets) <=> Among(id, req[i].packets)
             /\ Once(req[i].packets) => Once(req'[i].packets)
             /\ req[i].times_sent >= Tries => req'[i].times_sent >= Tries
  <2>1. CASE i = ip
    BY <1>4, <1>5, <2>1
  <2>2. CASE i # ip
    BY <1>3, <2>2
  <2>. QED BY <2>1, <2>2
<1>. QED BY <1>6 DEF Undisturbed

\* A packet that the router holds.
Held(p) ==
    \/ \E t \in Threads : \E j \in DOMAIN todo[t] : p = todo[t][j]
    \/ \E ip \in IPs : \E j \in DOMAIN req[ip].packets : p = req[ip].packets[j]

\* Packets stay what they are.
LEMMA PacketsKept ==
    ASSUME PacketInv, Undisturbed, new' \subseteq new,
           \A t \in Threads : \A k \in DOMAIN todo'[t] : Held(todo'[t][k])
    PROVE  PacketInv'
<1>1. ASSUME NEW p, Held(p) PROVE Intact(p) /\ (~Own(p) => p.id \notin new')
  BY <1>1 DEF Held, PacketInv
<1>2. ASSUME NEW ip \in IPs, NEW k \in DOMAIN req'[ip].packets
      PROVE  /\ Intact(req'[ip].packets[k])
             /\ ~Own(req'[ip].packets[k]) =>
                  req'[ip].packets[k].dst = ip /\ req'[ip].packets[k].id \notin new'
  <2> DEFINE p == req'[ip].packets[k]
  <2>1. CASE Own(p) /\ p.ttl = INIT_TTL
    BY <2>1 DEF Intact
  <2>2. CASE \E j \in DOMAIN req[ip].packets : p = req[ip].packets[j]
    BY <2>2 DEF PacketInv
  <2>. QED BY <2>1, <2>2 DEF Undisturbed
<1>3. \A t \in Threads : \A k \in DOMAIN todo'[t] :
          Intact(todo'[t][k]) /\ (~Own(todo'[t][k]) => todo'[t][k].id \notin new')
  BY <1>1
<1>. QED BY <1>2, <1>3 DEF PacketInv, Intact, Own, Packet

\* What waits on the queue waits there still, ...
LEMMA InQueueKept ==
    ASSUME TypeOK, RequestInv, PacketInv, TypeOK', RequestInv', PacketInv', Undisturbed,
           NEW id \in Transit
    PROVE  InQueue(id)' <=> InQueue(id)
<1>1. Where /\ Where'
  BY WhereLemma, WhereNext
<1>2. Traffic[id].dst \in IPs
  BY TransitLemma
<1>3. InQueue(id) <=> Among(id, req[Traffic[id].dst].packets)
  BY <1>1 DEF Where
<1>4. InQueue(id)' <=> Among(id, req'[Traffic[id].dst].packets)
  BY <1>1 DEF Where, Among, Own
<1>. QED BY <1>2, <1>3, <1>4 DEF Undisturbed

\* ... and no packet waits at two places.
LEMMA OnceKept ==
    ASSUME TypeOK, RequestInv, PacketInv, TypeOK', RequestInv', PacketInv', OnceInv, Undisturbed,
           at'["main"] = "reply" => at["main"] = "reply" /\ todo'["main"] = todo["main"]
    PROVE  OnceInv'
<1>1. \A ip \in IPs : Once(req'[ip].packets)
  BY DEF OnceInv, Undisturbed
<1>2. at'["main"] = "reply" => Once(todo'["main"])
  BY DEF OnceInv
<1>3. ASSUME NEW id \in Transit PROVE ~(InHand(id)' /\ InQueue(id)')
  <2>1. InHand(id)' => InHand(id)
    BY DEF InHand, Among, Own
  <2>. QED BY <2>1, InQueueKept DEF OnceInv
<1>. QED BY <1>1, <1>2, <1>3 DEF OnceInv, Once, Own

\* Nothing becomes of any packet.
LEMMA FateKept ==
    ASSUME TypeOK, RequestInv, PacketInv, TypeOK', RequestInv', PacketInv', FateInv, Undisturbed,
           UNCHANGED outcome, new' \subseteq new, \A id \in Transit : id \in new => id \in new',
           \A id \in Transit : InHand(id)' <=> InHand(id),
           \A t \in Threads, ip \in IPs : GivesUp(t, ip) => GivesUp(t, ip)'
    PROVE  FateInv'
<1> SUFFICES ASSUME NEW id \in Transit PROVE FateOf(id)'
  BY DEF FateInv
<1>1. FateOf(id)
  BY DEF FateInv
<1>2. InQueue(id)' <=> InQueue(id)
  BY InQueueKept
<1>3. Waiting(id)' <=> Waiting(id)
  BY <1>2 DEF Waiting
<1>4. Traffic[id].dst \in IPs
  BY TransitLemma
<1>. QED BY <1>1, <1>2, <1>3, <1>4 DEF FateOf

\* A thread that gives a request up has come no further.
LEMMA GiveUpKept ==
    ASSUME GiveUpInv, Undisturbed, UNCHANGED outcome,
           \A t \in Threads, ip \in IPs : GivesUp(t, ip)' => GivesUp(t, ip) /\ todo'[t] = todo[t]
    PROVE  GiveUpInv'
<1> SUFFICES ASSUME NEW t \in Threads, NEW ip \in IPs, GivesUp(t, ip)'
    PROVE  /\ req'[ip].times_sent >= Tries
           /\ \A id \in Transit :
                /\ Among(id, todo'[t]) => Among(id, req'[ip].packets)
                /\ Among(id, req'[ip].packets) => Among(id, todo'[t]) \/ outcome'[id] # "none"
  BY DEF GiveUpInv, Among, Own
<1>1. GivesUp(t, ip) /\ todo'[t] = todo[t]
  OBVIOUS
<1>2. /\ req[ip].times_sent >= Tries
      /\ \A id \in Transit :
           /\ Among(id, todo[t]) => Among(id, req[ip].packets)
           /\ Among(id, req[ip].packets) => Among(id, todo[t]) \/ outcome[id] # "none"
  BY <1>1 DEF GiveUpInv
<1>. QED BY <1>1, <1>2 DEF Undisturbed

\* A step of which no packet to be forwarded takes notice keeps the
\* invariant when the threads and the queue are sound after it.
LEMMA QuietStep ==
    ASSUME IInv, TypeOK', ThreadInv', RequestInv', Undisturbed,
           UNCHANGED <<todo, outcome>>, new' \subseteq new,
           \A id \in Transit : id \in new => id \in new',
           \A p \in wire' : p \in wire \/ (Own(p) /\ p.ttl = INIT_TTL),
           at'["main"] = "reply" => at["main"] = "reply",
           at["main"] = "reply" => at'["main"] = "reply" \/ todo["main"] = <<>>,
           \A t \in Threads, ip \in IPs : GivesUp(t, ip)' <=> GivesUp(t, ip)
    PROVE  IInv'
<1>1. /\ TypeOK /\ ThreadInv /\ RequestInv /\ PacketInv
      /\ OnceInv /\ FateInv /\ GiveUpInv /\ WireInv
  BY DEF IInv
<1>2. PacketInv'
  BY <1>1, PacketsKept DEF Held
<1>3. OnceInv'
  BY <1>1, <1>2, OnceKept
<1>4. \A id \in Transit : InHand(id)' <=> InHand(id)
  BY DEF InHand, Among, Own
<1>5. FateInv'
  BY <1>1, <1>2, <1>4, FateKept
<1>6. GiveUpInv'
  BY <1>1, GiveUpKept
<1>7. WireInv'
  BY <1>1 DEF WireInv, Own
<1>. QED BY <1>2, <1>3, <1>5, <1>6, <1>7 DEF IInv

-----------------------------------------------------------------------------
(* The packet thread: a packet arrives.                                    *)

\* When a packet arrives, neither thread is at work.
LEMMA ArrivalLemma ==
    ASSUME IInv, NEW id \in Ids, Arrives(id)
    PROVE  /\ at["main"] = "idle" /\ at["timer"] = "idle" /\ dangling = FALSE /\ down = "up"
           /\ new' = new \ {id} /\ new' \subseteq new /\ new \subseteq Ids
           /\ \A t \in Threads : \A ip : ~GivesUp(t, ip)
           /\ id \notin Transit => \A i \in Transit : i \in new => i \in new'
<1>1. /\ at["main"] = "idle" /\ at["timer"] = "idle" /\ down = "up"
      /\ new' = new \ {id} /\ new \subseteq Ids
  BY DEF Arrives, locked, IInv, TypeOK
<1>2. dangling = FALSE
  BY <1>1 DEF IInv, TypeOK, ThreadInv, Handles
<1>3. \A t \in Threads : \A ip : ~GivesUp(t, ip)
  BY <1>1 DEF GivesUp, Threads
<1>. QED BY <1>1, <1>2, <1>3

\* A step that leaves the cache and the threads alone, and sends at most
\* packets of the router's own.
LEMMA NothingQueued ==
    ASSUME IInv, UNCHANGED <<cache, threads, outcome>>, TypeOK', new' \subseteq new,
           \A id \in Transit : id \in new => id \in new',
           \A p \in wire' : p \in wire \/ (Own(p) /\ p.ttl = INIT_TTL)
    PROVE  IInv'
<1>1. UNCHANGED <<entries, old, requests, req, at, cur, todo, next, dangling, outcome>>
  BY DEF cache, threads
<1>2. ThreadInv'
  BY <1>1 DEF IInv, ThreadInv, Works, Handles, Queued
<1>3. RequestInv'
  BY <1>1 DEF IInv, RequestInv, Queued, Distinct
<1>4. Undisturbed
  BY <1>1 DEF Undisturbed
<1>5. \A t \in Threads, ip \in IPs : GivesUp(t, ip)' <=> GivesUp(t, ip)
  BY <1>1 DEF GivesUp
<1>. QED BY <1>1, <1>2, <1>3, <1>4, <1>5, QuietStep

\* A packet joins those that wait for an address.
LEMMA QueuereqLemma ==
    ASSUME TypeOK, RequestInv, NEW ip \in IPs, NEW p \in PacketType, queuereq(ip, p)
    PROVE  /\ requests' \in Seq(IPs) /\ Queued' = Queued \cup {ip} /\ RequestInv'
           /\ req \in Requests /\ req' \in Requests
           /\ \A i \in IPs \ {ip} : req'[i] = req[i]
           /\ req'[ip].packets = <<p>> \o req[ip].packets
           /\ req'[ip].times_sent = req[ip].times_sent
           /\ req[ip].packets \in Seq(PacketType)
           /\ UNCHANGED <<entries, old>>
<1>1. /\ requests' = IF ip \in Queued THEN requests ELSE Append(requests, ip)
      /\ req' = Push(ip, p)
      /\ UNCHANGED <<entries, old>>
  BY DEF queuereq
<1>2. req \in Requests /\ requests \in Seq(IPs) /\ Distinct
  BY DEF TypeOK, Requests, Request, RequestInv
<1>3. requests' \in Seq(IPs) /\ Distinct' /\ Queued' = Queued \cup {ip}
  BY <1>1, <1>2, EnqueueLemma
<1>4. req[ip].packets \in Seq(PacketType)
  BY <1>2, RequestLemma
<1>5. <<p>> \o req[ip].packets # <<>>
  BY <1>4, ConsLemma
<1>6. /\ req' \in Requests /\ \A i \in IPs \ {ip} : req'[i] = req[i]
      /\ req'[ip].packets = <<p>> \o req[ip].packets
      /\ req'[ip].times_sent = req[ip].times_sent
  BY <1>1, <1>2, PushLemma
<1>7. Queued \subseteq IPs
  BY <1>2 DEF Queued
<1>8. \A i \in Queued' : req'[i].packets # <<>>
  BY <1>3, <1>5, <1>6, <1>7 DEF RequestInv
<1>9. \A i \in IPs \ Queued' : req'[i] = NoPacket
  BY <1>3, <1>6 DEF RequestInv
<1>10. RequestInv'
  BY <1>3, <1>8, <1>9 DEF RequestInv, NoPacket
<1>. QED BY <1>1, <1>2, <1>3, <1>4, <1>6, <1>10

\* A packet of the router's own is sent, or queued for its destination.
LEMMA OwnOutput ==
    ASSUME IInv, NEW id \in Ids, Arrives(id), id \notin Transit,
           NEW p \in PacketType, Own(p), p.ttl = INIT_TTL, Output(p, p),
           UNCHANGED <<todo, next, dangling, down>>
    PROVE  IInv'
<1>1. /\ at["main"] = "idle" /\ at["timer"] = "idle" /\ dangling = FALSE
      /\ new' \subseteq new /\ new' \subseteq Ids
      /\ \A t \in Threads : \A ip : ~GivesUp(t, ip)
      /\ \A i \in Transit : i \in new => i \in new'
  BY ArrivalLemma
<1>2. TypeOK /\ ThreadInv /\ RequestInv /\ p.dst \in IPs
  BY DEF IInv, PacketType
<1>3. CASE lookup(p.dst)
  <2>1. UNCHANGED <<cache, threads, outcome>> /\ wire' = wire \cup {p}
    BY <1>3 DEF Output, Transmit, threads
  <2>2. TypeOK'
    BY <1>1, <1>2, <2>1 DEF TypeOK, cache, threads
  <2>. QED BY <1>1, <2>1, <2>2, NothingQueued
<1>4. CASE ~lookup(p.dst)
  <2>1. /\ queuereq(p.dst, p)
        /\ at' = [at EXCEPT !["main"] = "check"]
        /\ cur' = [cur EXCEPT !["main"] = p.dst]
        /\ UNCHANGED <<wire, outcome>>
    BY <1>4 DEF Output
  <2>2. /\ requests' \in Seq(IPs) /\ Queued' = Queued \cup {p.dst} /\ RequestInv'
        /\ req \in Requests /\ req' \in Requests /\ UNCHANGED <<entries, old>>
    BY <1>2, <2>1, QueuereqLemma
  <2>3. TypeOK'
    BY <1>1, <1>2, <2>1, <2>2 DEF TypeOK, Requests, Request, Threads
  <2>4. /\ at'["main"] = "check" /\ at'["timer"] = "idle" /\ cur'["main"] = p.dst
        /\ dangling' = FALSE
    BY <1>1, <1>2, <2>1 DEF TypeOK, Threads
  <2>5. ThreadInv'
    BY <2>2, <2>4 DEF ThreadInv, Works, Handles, Threads
  <2>6. Undisturbed
    BY <1>2, <2>1, <2>2, OwnUndisturbed DEF queuereq
  <2>7. \A t \in Threads, ip \in IPs : GivesUp(t, ip)' <=> GivesUp(t, ip)
    BY <1>1, <2>4 DEF GivesUp, Threads
  <2>. QED BY <1>1, <2>1, <2>2, <2>3, <2>4, <2>5, <2>6, <2>7, QuietStep
<1>. QED BY <1>3, <1>4

\* What is not to be forwarded: dropped, answered, or told off.
LEMMA LocalStep ==
    ASSUME IInv, NEW id \in Ids,
           Drop(id) \/ EchoReply(id) \/ PortUnreachable(id)
           \/ TimeExceeded(id) \/ NetUnreachable(id)
    PROVE  IInv'
<1>1. Arrives(id)
  BY DEF Drop, EchoReply, PortUnreachable, TimeExceeded, NetUnreachable
<1>2. id \notin Transit
  BY DEF Drop, EchoReply, PortUnreachable, TimeExceeded, NetUnreachable, Dropped, Transit, ToForward
<1>3. /\ new' \subseteq new /\ new' \subseteq Ids
      /\ \A i \in Transit : i \in new => i \in new'
  BY <1>1, <1>2, ArrivalLemma
<1>4. /\ Traffic[id].src \in IPs /\ Traffic[id].dst \in IPs /\ Traffic[id].ttl \in 0..255
      /\ Traffic[id].from \in Ifaces
  BY RouterAssumption
<1>5. Packet(id) \in PacketType
  BY <1>4 DEF Packet, PacketType
<1>6. TypeOK
  BY DEF IInv
<1>7. ASSUME NEW iface \in Ifaces, LET p == Answer(Packet(id), iface) IN Output(p, p),
             UNCHANGED <<todo, next, dangling, down>>
      PROVE  IInv'
  BY <1>1, <1>2, <1>5, <1>7, AnswerLemma, OwnOutput
<1>8. CASE Drop(id)
  <2>1. UNCHANGED <<cache, threads, down, wire, outcome>>
    BY <1>8 DEF Drop
  <2>2. TypeOK'
    BY <1>3, <1>6, <2>1 DEF TypeOK, cache, threads
  <2>. QED BY <1>3, <2>1, <2>2, NothingQueued
<1>9. CASE PortUnreachable(id)
  <2>1. UNCHANGED <<cache, threads>> /\ down' \in {down, "null"}
    BY <1>9 DEF PortUnreachable
  <2>2. Traffic[id].dst \in Ifaces
    BY <1>9 DEF PortUnreachable
  <2> DEFINE p == Answer(Packet(id), Traffic[id].dst)
  <2>3. p \in PacketType /\ Own(p) /\ p.ttl = INIT_TTL
    BY <1>5, <2>2, AnswerLemma
  <2>4. UNCHANGED outcome /\ (wire' = wire \/ wire' = wire \cup {p})
    BY <1>9, <2>3 DEF PortUnreachable, Transmit
  <2>. HIDE DEF p
  <2>5. TypeOK'
    BY <1>3, <1>6, <2>1, <2>3, <2>4 DEF TypeOK, cache, threads
  <2>. QED BY <1>3, <2>1, <2>3, <2>4, <2>5, NothingQueued
<1>10. CASE (EchoReply(id) \/ NetUnreachable(id)) /\ sr_findLPMentry(Traffic[id].src) = NoIP
  <2>1. UNCHANGED <<cache, threads, down, wire, outcome>>
    BY <1>10 DEF EchoReply, NetUnreachable, threads
  <2>2. TypeOK'
    BY <1>3, <1>6, <2>1 DEF TypeOK, cache, threads
  <2>. QED BY <1>3, <2>1, <2>2, NothingQueued
<1>11. CASE EchoReply(id) /\ sr_findLPMentry(Traffic[id].src) # NoIP
  BY <1>7, <1>11 DEF EchoReply
<1>12. CASE NetUnreachable(id) /\ sr_findLPMentry(Traffic[id].src) # NoIP
  BY <1>4, <1>7, <1>12 DEF NetUnreachable
<1>13. CASE TimeExceeded(id)
  BY <1>4, <1>7, <1>13 DEF TimeExceeded
<1>. QED BY <1>8, <1>9, <1>10, <1>11, <1>12, <1>13

\* A packet to be forwarded is sent at once, ...
LEMMA ForwardSends ==
    ASSUME IInv, NEW id \in Ids, Forward(id), lookup(Packet(id).dst)
    PROVE  IInv'
<1>1. /\ Arrives(id) /\ id \in Transit /\ UNCHANGED <<cache, threads, down>>
      /\ Transmit(Decremented(Packet(id)))
  BY DEF Forward, Output, threads
<1>2. /\ at["main"] = "idle" /\ new' = new \ {id} /\ new' \subseteq new /\ new' \subseteq Ids
      /\ \A t \in Threads : \A ip : ~GivesUp(t, ip)
  BY <1>1, ArrivalLemma
<1>3. /\ Packet(id) \in PacketType /\ ~Own(Packet(id)) /\ Packet(id).id = id
      /\ Packet(id).ttl = Traffic[id].ttl
  BY <1>1, TransitLemma
<1> DEFINE p == Decremented(Packet(id))
<1>4. p \in PacketType /\ p.id = id /\ ~Own(p) /\ (p.ttl + 1) % 256 = Traffic[id].ttl
  BY <1>3, DecrementedLemma
<1>. HIDE DEF p
<1>5. wire' = wire \cup {p} /\ outcome' = [outcome EXCEPT ![id] = "sent"]
  BY <1>1, <1>4 DEF Transmit, p
<1>6. UNCHANGED <<entries, old, requests, req, at, cur, todo, next, dangling, down>>
  BY <1>1 DEF cache, threads
<1>7. /\ TypeOK /\ ThreadInv /\ RequestInv /\ PacketInv
      /\ OnceInv /\ FateInv /\ GiveUpInv /\ WireInv
  BY DEF IInv
<1>8. TypeOK'
  BY <1>2, <1>4, <1>5, <1>6, <1>7 DEF TypeOK
<1>9. ThreadInv'
  BY <1>6, <1>7 DEF ThreadInv, Works, Handles, Queued
<1>10. RequestInv'
  BY <1>6, <1>7 DEF RequestInv, Queued, Distinct
<1>11. Undisturbed
  BY <1>6 DEF Undisturbed
<1>12. PacketInv'
  BY <1>2, <1>6, <1>7, <1>11, PacketsKept DEF Held
<1>13. OnceInv'
  BY <1>2, <1>6, <1>7, <1>8, <1>10, <1>11, <1>12, OnceKept
<1>14. FateInv'
  <2>1. \A i \in Transit : (InHand(i)' <=> InHand(i)) /\ ~InHand(i)
    BY <1>2, <1>6 DEF InHand
  <2>2. \A i \in Transit : InQueue(i)' <=> InQueue(i)
    BY <1>7, <1>8, <1>10, <1>11, <1>12, InQueueKept
  <2>3. id \in new /\ ~InQueue(id)
    BY <1>1, <1>7, WhereLemma, TransitLemma DEF Arrives, Where
  <2>4. \A i \in Transit : i # id => outcome'[i] = outcome[i] /\ (i \in new' <=> i \in new)
    BY <1>2, <1>5
  <2>5. outcome'[id] = "sent" /\ id \notin new'
    BY <1>2, <1>5, <1>7 DEF TypeOK
  <2>6. ASSUME NEW i \in Transit PROVE FateOf(i)'
    <3>1. CASE i = id
      BY <2>1, <2>2, <2>3, <2>5, <3>1 DEF Waiting, FateOf
    <3>2. CASE i # id
      BY <1>2, <1>7, <2>1, <2>2, <2>4, <3>2 DEF Waiting, FateInv, FateOf
    <3>. QED BY <3>1, <3>2
  <2>. QED BY <2>6 DEF FateInv
<1>15. GiveUpInv'
  BY <1>2, <1>6 DEF GiveUpInv, GivesUp
<1>16. WireInv'
  BY <1>4, <1>5, <1>7 DEF WireInv, Own
<1>. QED BY <1>8, <1>9, <1>10, <1>12, <1>13, <1>14, <1>15, <1>16 DEF IInv

\* ... or waits for the address of its next hop.
LEMMA ForwardWaits ==
    ASSUME IInv, NEW id \in Ids, Forward(id), ~lookup(Packet(id).dst)
    PROVE  IInv'
<1> DEFINE p == Packet(id)
           ip == Traffic[id].dst
<1>1. /\ Arrives(id) /\ id \in Transit /\ UNCHANGED <<todo, next, dangling, down, wire, outcome>>
      /\ queuereq(p.dst, p)
      /\ at' = [at EXCEPT !["main"] = "check"]
      /\ cur' = [cur EXCEPT !["main"] = p.dst]
  BY DEF Forward, Output
<1>2. /\ at["main"] = "idle" /\ at["timer"] = "idle" /\ dangling = FALSE
      /\ new' = new \ {id} /\ new' \subseteq new /\ new' \subseteq Ids
      /\ \A t \in Threads : \A i : ~GivesUp(t, i)
  BY <1>1, ArrivalLemma
<1>3. p \in PacketType /\ ~Own(p) /\ p.id = id /\ p.dst = ip /\ ip \in IPs
  BY <1>1, TransitLemma
<1>4. /\ TypeOK /\ ThreadInv /\ RequestInv /\ PacketInv
      /\ OnceInv /\ FateInv /\ GiveUpInv /\ WireInv
  BY DEF IInv
<1>5. Intact(p)
  BY <1>1, <1>3 DEF Intact
<1>. HIDE DEF p, ip
<1>6. /\ requests' \in Seq(IPs) /\ Queued' = Queued \cup {ip} /\ RequestInv'
      /\ req' \in Requests /\ UNCHANGED <<entries, old>>
      /\ \A i \in IPs \ {ip} : req'[i] = req[i]
      /\ req'[ip].packets = <<p>> \o req[ip].packets
      /\ req[ip].packets \in Seq(PacketType)
  BY <1>1, <1>3, <1>4, QueuereqLemma
<1>7. TypeOK'
  BY <1>1, <1>2, <1>3, <1>4, <1>6 DEF TypeOK, Requests, Request, Threads
<1>8. /\ at'["main"] = "check" /\ at'["timer"] = "idle" /\ cur'["main"] = ip
      /\ dangling' = FALSE
  BY <1>1, <1>2, <1>3, <1>4 DEF TypeOK, Threads
<1>9. ThreadInv'
  BY <1>6, <1>8 DEF ThreadInv, Works, Handles, Threads
<1>10. id \in new /\ \A i \in IPs : ~Among(id, req[i].packets)
  BY <1>1, <1>4, WhereLemma DEF Arrives, Where
<1>11. /\ \A k \in DOMAIN req'[ip].packets :
            \/ req'[ip].packets[k] = p
            \/ \E j \in DOMAIN req[ip].packets : req'[ip].packets[k] = req[ip].packets[j]
       /\ \A i : Among(i, req'[ip].packets) <=> Among(i, req[ip].packets) \/ i = id
       /\ Once(req[ip].packets) => Once(req'[ip].packets)
  BY <1>3, <1>6, <1>10, ConsLemma
<1>12. PacketInv'
  <2>1. ASSUME NEW i \in IPs, NEW k \in DOMAIN req'[i].packets
        PROVE  /\ Intact(req'[i].packets[k])
               /\ ~Own(req'[i].packets[k]) =>
                    req'[i].packets[k].dst = i /\ req'[i].packets[k].id \notin new'
    <3>1. CASE i = ip /\ req'[i].packets[k] = p
      BY <1>2, <1>3, <1>5, <3>1
    <3>2. CASE \E j \in DOMAIN req[i].packets : req'[i].packets[k] = req[i].packets[j]
      BY <1>2, <1>4, <3>2 DEF PacketInv
    <3>. QED BY <1>6, <1>11, <3>1, <3>2
  <2>2. \A t \in Threads : \A k \in DOMAIN todo'[t] :
            Intact(todo'[t][k]) /\ (~Own(todo'[t][k]) => todo'[t][k].id \notin new')
    BY <1>1, <1>2, <1>4 DEF PacketInv
  <2>. QED BY <2>1, <2>2 DEF PacketInv, Intact, Own, Packet
<1>13. \A i \in Transit : ~InHand(i) /\ ~InHand(i)'
  BY <1>2, <1>8 DEF InHand
<1>14. OnceInv'
  <2>1. \A i \in IPs : Once(req'[i].packets)
    BY <1>4, <1>6, <1>11 DEF OnceInv
  <2>. QED BY <1>8, <1>13, <2>1 DEF OnceInv, Once, Own
<1>15. FateInv'
  <2>1. Where /\ Where'
    BY <1>4, <1>6, <1>7, <1>12, WhereLemma, WhereNext
  <2>2. ASSUME NEW i \in Transit PROVE InQueue(i)' <=> InQueue(i) \/ i = id
    <3>1. Traffic[i].dst \in IPs /\ (i = id => Traffic[i].dst = ip)
      BY TransitLemma DEF ip
    <3>2. InQueue(i) <=> Among(i, req[Traffic[i].dst].packets)
      BY <2>1 DEF Where
    <3>3. InQueue(i)' <=> Among(i, req'[Traffic[i].dst].packets)
      BY <2>1 DEF Where, Among, Own
    <3>. QED BY <1>6, <1>11, <3>1, <3>2, <3>3
  <2>3. outcome[id] = "none" /\ outcome' = outcome
    BY <1>1, <1>4, <1>10 DEF FateInv, FateOf
  <2>4. \A i \in Transit : i # id => (i \in new' <=> i \in new)
    BY <1>2
  <2>5. id \notin new'
    BY <1>2
  <2>6. ASSUME NEW i \in Transit PROVE FateOf(i)'
    <3>1. CASE i = id
      BY <2>2, <2>3, <2>5, <3>1 DEF Waiting, FateOf
    <3>2. CASE i # id
      BY <1>2, <1>4, <1>13, <2>2, <2>3, <2>4, <3>2 DEF Waiting, FateInv, FateOf
    <3>. QED BY <3>1, <3>2
  <2>. QED BY <2>6 DEF FateInv
<1>16. GiveUpInv'
  BY <1>8 DEF GiveUpInv, GivesUp, Threads
<1>17. WireInv'
  BY <1>1, <1>4 DEF WireInv, Own
<1>. QED BY <1>6, <1>7, <1>9, <1>12, <1>14, <1>15, <1>16, <1>17 DEF IInv

-----------------------------------------------------------------------------
(* The packet thread: an address becomes known.                            *)

\* A request leaves the queue, its packets with it.
LEMMA RemoveLemma ==
    ASSUME TypeOK, RequestInv, NEW ip \in IPs, requests' = Without(ip), req' = Forgotten(ip)
    PROVE  /\ requests' \in Seq(IPs) /\ Queued' = Queued \ {ip} /\ RequestInv'
           /\ req \in Requests /\ req' \in Requests
           /\ \A i \in IPs \ {ip} : req'[i] = req[i]
           /\ req'[ip] = NoPacket /\ DOMAIN req'[ip].packets = {}
           /\ Once(req'[ip].packets) /\ \A id : ~Among(id, req'[ip].packets)
<1>1. req \in Requests /\ requests \in Seq(IPs) /\ Distinct
  BY DEF TypeOK, Requests, Request, RequestInv
<1>2. requests' \in Seq(IPs) /\ Distinct' /\ Queued' = Queued \ {ip}
  BY <1>1, WithoutLemma
<1>3. /\ req' \in Requests /\ \A i \in IPs \ {ip} : req'[i] = req[i]
      /\ req'[ip] = NoPacket /\ req'[ip].packets = <<>>
  BY <1>1, ForgottenLemma
<1>4. DOMAIN req'[ip].packets = {}
  BY <1>3
<1>5. Once(req'[ip].packets) /\ \A id : ~Among(id, req'[ip].packets)
  BY <1>4 DEF Once, Among
<1>6. Queued \subseteq IPs
  BY <1>1 DEF Queued
<1>7. RequestInv'
  BY <1>2, <1>3, <1>6 DEF RequestInv, NoPacket
<1>. QED BY <1>1, <1>2, <1>3, <1>4, <1>5, <1>7

\* An answer that nobody asked for.
LEMMA ArpReplyUnasked ==
    ASSUME IInv, NEW ip \in Neighbours, ArpReply(ip), ip \notin Queued
    PROVE  IInv'
<1>1. ip \in IPs
  BY RouterAssumption
<1>2. /\ entries' = WithMapping(ip) /\ requests' = Without(ip) /\ req' = Forgotten(ip)
      /\ UNCHANGED <<old, at, cur, todo, next, dangling, down, new, wire, outcome>>
  BY DEF ArpReply, insert, history
<1>3. /\ TypeOK /\ ThreadInv /\ RequestInv
  BY DEF IInv
<1>4. /\ requests' \in Seq(IPs) /\ Queued' = Queued /\ RequestInv'
      /\ req \in Requests /\ req' \in Requests
      /\ \A i \in IPs \ {ip} : req'[i] = req[i]
      /\ req'[ip] = NoPacket
  BY <1>1, <1>2, <1>3, RemoveLemma
<1>5. req[ip] = NoPacket
  BY <1>1, <1>3 DEF RequestInv
<1>6. \A i \in IPs : req'[i] = req[i]
  BY <1>4, <1>5
<1>7. entries' \in [Slots -> IPs \cup {NoIP}]
  BY <1>1, <1>2, <1>3 DEF WithMapping, TypeOK
<1>8. TypeOK'
  BY <1>2, <1>3, <1>4, <1>7 DEF TypeOK, Requests, Request
<1>9. ThreadInv'
  BY <1>2, <1>3, <1>4 DEF ThreadInv, Works, Handles
<1>10. Undisturbed
  BY <1>6 DEF Undisturbed
<1>11. \A t \in Threads, i \in IPs : GivesUp(t, i)' <=> GivesUp(t, i)
  BY <1>2 DEF GivesUp
<1>. QED BY <1>2, <1>4, <1>8, <1>9, <1>10, <1>11, QuietStep

\* An answer that packets wait for: they are in hand now.
LEMMA ArpReplyAsked ==
    ASSUME IInv, NEW ip \in Neighbours, ArpReply(ip), ip \in Queued
    PROVE  IInv'
<1>1. ip \in IPs
  BY RouterAssumption
<1>2. /\ entries' = WithMapping(ip) /\ requests' = Without(ip) /\ req' = Forgotten(ip)
      /\ at' = [at EXCEPT !["main"] = "reply"]
      /\ cur' = [cur EXCEPT !["main"] = ip]
      /\ todo' = [todo EXCEPT !["main"] = req[ip].packets]
      /\ at["main"] = "idle" /\ at["timer"] = "idle"
      /\ UNCHANGED <<old, next, dangling, down, new, wire, outcome>>
  BY DEF ArpReply, insert, history, locked
<1>3. /\ TypeOK /\ ThreadInv /\ RequestInv /\ PacketInv
      /\ OnceInv /\ FateInv /\ GiveUpInv /\ WireInv
  BY DEF IInv
<1>4. /\ requests' \in Seq(IPs) /\ Queued' = Queued \ {ip} /\ RequestInv'
      /\ req \in Requests /\ req' \in Requests
      /\ \A i \in IPs \ {ip} : req'[i] = req[i]
      /\ DOMAIN req'[ip].packets = {}
      /\ Once(req'[ip].packets) /\ \A id : ~Among(id, req'[ip].packets)
  BY <1>1, <1>2, <1>3, RemoveLemma
<1>5. entries' \in [Slots -> IPs \cup {NoIP}]
  BY <1>1, <1>2, <1>3 DEF WithMapping, TypeOK
<1>6. req[ip].packets \in Seq(PacketType)
  BY <1>1, <1>4, RequestLemma
<1>7. TypeOK'
  BY <1>1, <1>2, <1>3, <1>4, <1>5, <1>6 DEF TypeOK, Requests, Request, Threads
<1>8. /\ at'["main"] = "reply" /\ at'["timer"] = "idle" /\ todo'["main"] = req[ip].packets
      /\ todo'["timer"] = todo["timer"] /\ ~dangling /\ ~dangling'
  BY <1>2, <1>3 DEF TypeOK, Threads, ThreadInv, Handles
<1>9. ThreadInv'
  BY <1>8 DEF ThreadInv, Works, Handles, Threads
<1>10. PacketInv'
  <2>1. \A i \in IPs : \A k \in DOMAIN req'[i].packets :
            /\ Intact(req'[i].packets[k])
            /\ ~Own(req'[i].packets[k]) =>
                 req'[i].packets[k].dst = i /\ req'[i].packets[k].id \notin new'
    BY <1>2, <1>3, <1>4 DEF PacketInv
  <2>2. \A t \in Threads : \A k \in DOMAIN todo'[t] :
            Intact(todo'[t][k]) /\ (~Own(todo'[t][k]) => todo'[t][k].id \notin new')
    BY <1>1, <1>2, <1>3, <1>8 DEF PacketInv, Threads
  <2>. QED BY <2>1, <2>2 DEF PacketInv, Intact, Own, Packet
<1>11. ASSUME NEW id \in Transit
       PROVE  /\ InHand(id)' <=> InQueue(id) /\ Traffic[id].dst = ip
              /\ InQueue(id)' <=> InQueue(id) /\ Traffic[id].dst # ip
  <2>1. Where /\ Where'
    BY <1>3, <1>4, <1>7, <1>10, WhereLemma, WhereNext
  <2>2. Traffic[id].dst \in IPs
    BY TransitLemma
  <2>3. /\ InQueue(id) <=> Among(id, req[Traffic[id].dst].packets)
        /\ Among(id, req[ip].packets) => ip = Traffic[id].dst
    BY <1>1, <2>1 DEF Where
  <2>4. InQueue(id)' <=> Among(id, req'[Traffic[id].dst].packets)
    BY <2>1 DEF Where, Among, Own
  <2>5. InHand(id)' <=> Among(id, req[ip].packets)
    BY <1>8 DEF InHand, Among, Own
  <2>. QED BY <1>4, <2>2, <2>3, <2>4, <2>5
<1>12. OnceInv'
  <2>1. \A i \in IPs : Once(req'[i].packets)
    BY <1>3, <1>4 DEF OnceInv
  <2>2. Once(todo'["main"])
    BY <1>1, <1>3, <1>8 DEF OnceInv
  <2>. QED BY <1>11, <2>1, <2>2 DEF OnceInv, Once, Own
<1>13. FateInv'
  <2>1. \A t \in Threads, i \in IPs : ~GivesUp(t, i)
    BY <1>2 DEF GivesUp, Threads
  <2>2. ASSUME NEW id \in Transit PROVE FateOf(id)'
    <3>1. FateOf(id) /\ ~InHand(id) /\ Traffic[id].dst \in IPs
      BY <1>2, <1>3, TransitLemma DEF FateInv, InHand
    <3>2. Waiting(id)' <=> Waiting(id)
      BY <1>11, <3>1 DEF Waiting
    <3>. QED BY <1>2, <1>11, <2>1, <3>1, <3>2 DEF FateOf
  <2>. QED BY <2>2 DEF FateInv
<1>14. GiveUpInv'
  BY <1>8 DEF GiveUpInv, GivesUp, Threads
<1>15. WireInv'
  BY <1>2, <1>3 DEF WireInv, Own
<1>. QED BY <1>4, <1>7, <1>9, <1>10, <1>12, <1>13, <1>14, <1>15 DEF IInv

\* A packet that waited is sent.
LEMMA SendWaitingStep == ASSUME IInv, SendWaiting PROVE IInv'
<1> DEFINE p == Head(todo["main"])
           q == IF Own(p) THEN p ELSE Decremented(p)
<1>1. /\ at["main"] = "reply" /\ todo["main"] # <<>> /\ Transmit(q)
      /\ todo' = [todo EXCEPT !["main"] = Tail(todo["main"])]
      /\ UNCHANGED <<cache, at, cur, next, dangling, down, new>>
  BY DEF SendWaiting
<1>2. /\ TypeOK /\ ThreadInv /\ RequestInv /\ PacketInv
      /\ OnceInv /\ FateInv /\ GiveUpInv /\ WireInv
  BY DEF IInv
<1>3. todo["main"] \in Seq(PacketType) /\ DOMAIN todo = Threads
  BY <1>2 DEF TypeOK, Threads
<1>4. /\ p \in PacketType /\ Tail(todo["main"]) \in Seq(PacketType)
      /\ 1 \in DOMAIN todo["main"] /\ p = todo["main"][1]
      /\ \A k \in DOMAIN Tail(todo["main"]) :
            \E j \in DOMAIN todo["main"] : Tail(todo["main"])[k] = todo["main"][j]
      /\ \A id : Among(id, todo["main"]) <=>
            Among(id, Tail(todo["main"])) \/ (p.id = id /\ ~Own(p))
      /\ Once(Tail(todo["main"])) /\ (Own(p) \/ ~Among(p.id, Tail(todo["main"])))
  BY <1>1, <1>2, <1>3, TailLemma DEF OnceInv
<1>5. /\ Intact(p) /\ (~Own(p) => p.id \in Transit /\ p.id \notin new /\ p = Packet(p.id))
  BY <1>2, <1>4 DEF PacketInv, Intact, Threads
<1>6. /\ q \in PacketType /\ q.id = p.id /\ Own(q) = Own(p)
      /\ IF Own(q) THEN q.ttl = INIT_TTL ELSE (q.ttl + 1) % 256 = Traffic[q.id].ttl
  BY <1>4, <1>5, DecrementedLemma, TransitLemma DEF Intact
<1>. HIDE DEF p, q
<1>7. /\ wire' = wire \cup {q}
      /\ outcome' = IF Own(p) THEN outcome ELSE [outcome EXCEPT ![p.id] = "sent"]
  BY <1>1, <1>6 DEF Transmit
<1>8. UNCHANGED <<entries, old, requests, req, at, cur, next, dangling, down, new>>
  BY <1>1 DEF cache
<1>9. /\ todo'["main"] = Tail(todo["main"]) /\ todo'["timer"] = todo["timer"]
      /\ todo' \in [Threads -> Seq(PacketType)]
  BY <1>1, <1>2, <1>3, <1>4 DEF Threads, TypeOK
<1>10. p.id \in Ids
  BY <1>4 DEF PacketType
<1>11. TypeOK'
  BY <1>2, <1>6, <1>7, <1>8, <1>9, <1>10 DEF TypeOK
<1>12. ThreadInv'
  BY <1>2, <1>8 DEF ThreadInv, Works, Handles, Queued
<1>13. RequestInv'
  BY <1>2, <1>8 DEF RequestInv, Queued, Distinct
<1>14. Undisturbed
  BY <1>8 DEF Undisturbed
<1>15. PacketInv'
  <2>1. \A t \in Threads : \A k \in DOMAIN todo'[t] : Held(todo'[t][k])
    <3>1. \A k \in DOMAIN todo'["main"] : Held(todo'["main"][k])
      BY <1>4, <1>9 DEF Held, Threads
    <3>2. \A k \in DOMAIN todo'["timer"] : Held(todo'["timer"][k])
      BY <1>9 DEF Held, Threads
    <3>. QED BY <3>1, <3>2 DEF Threads
  <2>. QED BY <1>2, <1>8, <1>14, <2>1, PacketsKept
<1>16. \A id \in Transit : InQueue(id)' <=> InQueue(id)
  BY <1>2, <1>11, <1>13, <1>14, <1>15, InQueueKept
<1>17. \A id \in Transit : InHand(id)' <=> Among(id, Tail(todo["main"]))
  BY <1>1, <1>8, <1>9 DEF InHand, Among, Own
<1>18. \A id \in Transit : InHand(id) <=> InHand(id)' \/ (p.id = id /\ ~Own(p))
  BY <1>1, <1>4, <1>17 DEF InHand
<1>19. OnceInv'
  <2>1. Once(todo'["main"])
    BY <1>4, <1>9
  <2>2. \A ip \in IPs : Once(req'[ip].packets)
    BY <1>2, <1>8 DEF OnceInv
  <2>3. \A id \in Transit : ~(InHand(id)' /\ InQueue(id)')
    BY <1>2, <1>16, <1>18 DEF OnceInv
  <2>. QED BY <2>1, <2>2, <2>3 DEF OnceInv, Once, Own
<1>20. FateInv'
  <2>1. ASSUME NEW id \in Transit PROVE FateOf(id)'
    <3>1. FateOf(id) /\ ~(InHand(id) /\ InQueue(id))
      BY <1>2 DEF FateInv, OnceInv
    <3>2. CASE id = p.id /\ ~Own(p)
      <4>1. outcome'[id] = "sent" /\ id \notin new'
        BY <1>2, <1>5, <1>7, <1>8, <1>10, <3>2 DEF TypeOK
      <4>2. ~InHand(id)' /\ ~InQueue(id)'
        BY <1>4, <1>16, <1>17, <1>18, <3>1, <3>2
      <4>. QED BY <4>1, <4>2 DEF FateOf, Waiting
    <3>3. CASE ~(id = p.id /\ ~Own(p))
      <4>1. outcome'[id] = outcome[id]
        BY <1>7, <3>3
      <4>2. (InHand(id)' <=> InHand(id)) /\ (InQueue(id)' <=> InQueue(id))
        BY <1>16, <1>18, <3>3
      <4>3. \A t \in Threads, ip \in IPs : GivesUp(t, ip)' <=> GivesUp(t, ip)
        BY <1>8 DEF GivesUp
      <4>4. Traffic[id].dst \in IPs
        BY TransitLemma
      <4>. QED BY <1>8, <3>1, <4>1, <4>2, <4>3, <4>4 DEF FateOf, Waiting
    <3>. QED BY <3>2, <3>3
  <2>. QED BY <2>1 DEF FateInv
<1>21. GiveUpInv'
  <2>1. ASSUME NEW t \in Threads, NEW ip \in IPs, GivesUp(t, ip)'
        PROVE  /\ req'[ip].times_sent >= Tries
               /\ \A id \in Transit :
                    /\ Among(id, todo'[t]) => Among(id, req'[ip].packets)
                    /\ Among(id, req'[ip].packets) => Among(id, todo'[t]) \/ outcome'[id] # "none"
    <3>1. t = "timer" /\ GivesUp(t, ip) /\ todo'[t] = todo[t]
      BY <1>1, <1>8, <1>9, <2>1 DEF GivesUp, Threads
    <3>2. \A id \in Transit : outcome[id] # "none" => outcome'[id] # "none"
      BY <1>2, <1>7 DEF TypeOK
    <3>. QED BY <1>2, <1>8, <3>1, <3>2 DEF GiveUpInv
  <2>. QED BY <2>1 DEF GiveUpInv, Among, Own
<1>22. WireInv'
  BY <1>2, <1>6, <1>7 DEF WireInv, Own
<1>. QED BY <1>11, <1>12, <1>13, <1>15, <1>19, <1>20, <1>21, <1>22 DEF IInv

\* The answered request is freed.
LEMMA DestroyAnsweredStep == ASSUME IInv, DestroyAnswered PROVE IInv'
<1>1. /\ at["main"] = "reply" /\ todo["main"] = <<>> /\ at["timer"] = "idle"
      /\ at' = [at EXCEPT !["main"] = "idle"]
      /\ cur' = [cur EXCEPT !["main"] = NoIP]
      /\ UNCHANGED <<entries, old, requests, req, todo, next, dangling, down, new, wire, outcome>>
  BY DEF DestroyAnswered, cache, history, locked
<1>2. TypeOK /\ ThreadInv /\ RequestInv
  BY DEF IInv
<1>3. TypeOK'
  BY <1>1, <1>2 DEF TypeOK
<1>4. at'["main"] = "idle" /\ at'["timer"] = "idle" /\ ~dangling /\ ~dangling'
  BY <1>1, <1>2 DEF TypeOK, Threads, ThreadInv, Handles
<1>5. ThreadInv'
  BY <1>4 DEF ThreadInv, Works, Handles, Threads
<1>6. RequestInv'
  BY <1>1, <1>2 DEF RequestInv, Queued, Distinct
<1>7. Undisturbed
  BY <1>1 DEF Undisturbed
<1>8. \A t \in Threads, ip \in IPs : GivesUp(t, ip)' <=> GivesUp(t, ip)
  BY <1>1, <1>4 DEF GivesUp, Threads
<1>. QED BY <1>1, <1>3, <1>4, <1>5, <1>6, <1>7, <1>8, QuietStep

-----------------------------------------------------------------------------
(* Either thread handles a request.                                        *)

\* The request it handles is on the queue.
LEMMA WorksLemma ==
    ASSUME IInv, NEW t \in Threads, Up(t), Handles(t)
    PROVE  /\ Works(t) /\ cur[t] \in Queued /\ cur[t] \in IPs /\ (t = "main" => ~dangling)
           /\ down = "up" /\ Queued \subseteq IPs
<1>1. TypeOK /\ ThreadInv
  BY DEF IInv
<1>2. Works(t) /\ (t = "main" => ~dangling) /\ down = "up"
  BY DEF Works, Up
<1>3. Queued \subseteq IPs
  BY <1>1 DEF TypeOK, Queued
<1>. QED BY <1>1, <1>2, <1>3 DEF ThreadInv

\* When it is done with it, it goes on.
LEMMA ReturnLemma ==
    ASSUME IInv, NEW t \in Threads, Up(t), Handles(t), Return(t),
           UNCHANGED <<requests, next, dangling>>
    PROVE  /\ ThreadInv'
           /\ at' \in [Threads -> {"idle", "check", "decide", "resend", "giveup", "reply", "sweep"}]
           /\ cur' \in [Threads -> IPs \cup {NoIP}]
           /\ at'[t] \in {"idle", "sweep"}
           /\ \A u \in Threads \ {t} : at'[u] = at[u] /\ cur'[u] = cur[u]
<1>1. TypeOK /\ ThreadInv
  BY DEF IInv
<1>2. /\ at' = [at EXCEPT ![t] = IF t = "main" THEN "idle" ELSE "sweep"]
      /\ cur' = [cur EXCEPT ![t] = IF t = "main" THEN NoIP ELSE next]
  BY DEF Return
<1>3. /\ at'[t] = (IF t = "main" THEN "idle" ELSE "sweep")
      /\ cur'[t] = (IF t = "main" THEN NoIP ELSE next)
      /\ \A u \in Threads \ {t} : at'[u] = at[u] /\ cur'[u] = cur[u]
  BY <1>1, <1>2 DEF TypeOK
<1>4. /\ at' \in [Threads -> {"idle", "check", "decide", "resend", "giveup", "reply", "sweep"}]
      /\ cur' \in [Threads -> IPs \cup {NoIP}]
  BY <1>1, <1>2 DEF TypeOK
<1>5. Queued' = Queued /\ (t = "main" => ~dangling)
  BY WorksLemma DEF Queued
<1>6. CASE t = "main"
  <2>1. at'["main"] = "idle" /\ at'["timer"] = at["timer"] /\ cur'["timer"] = cur["timer"]
    BY <1>3, <1>6 DEF Threads
  <2>2. ThreadInv'
    BY <1>1, <1>5, <1>6, <2>1 DEF ThreadInv, Works, Handles, Threads
  <2>. QED BY <1>3, <1>4, <1>6, <2>2
<1>7. CASE t = "timer"
  <2>1. /\ at'["timer"] = "sweep" /\ cur'["timer"] = next
        /\ at'["main"] = at["main"] /\ cur'["main"] = cur["main"]
    BY <1>3, <1>7 DEF Threads
  <2>2. next \in Queued \cup {NoIP}
    BY <1>1, <1>7 DEF ThreadInv
  <2>3. ThreadInv'
    BY <1>1, <1>5, <2>1, <2>2 DEF ThreadInv, Works, Handles, Threads
  <2>. QED BY <1>3, <1>4, <1>7, <2>3
<1>. QED BY <1>6, <1>7 DEF Threads

\* It looks whether the request is due.
LEMMA CheckStep == ASSUME IInv, NEW t \in Threads, Check(t) PROVE IInv'
<1>1. /\ Up(t) /\ at[t] = "check"
      /\ (at' = [at EXCEPT ![t] = "decide"] /\ UNCHANGED cur) \/ Return(t)
      /\ UNCHANGED <<entries, old, requests, req, todo, next, dangling, down, new, wire, outcome>>
  BY DEF Check, cache, history
<1>2. TypeOK /\ ThreadInv /\ RequestInv /\ Handles(t)
  BY <1>1 DEF IInv, Handles
<1>3. RequestInv'
  BY <1>1, <1>2 DEF RequestInv, Queued, Distinct
<1>4. Undisturbed
  BY <1>1 DEF Undisturbed
<1>5. CASE at' = [at EXCEPT ![t] = "decide"] /\ UNCHANGED cur
  <2>1. TypeOK'
    BY <1>1, <1>2, <1>5 DEF TypeOK
  <2>2. at'[t] = "decide" /\ cur' = cur /\ \A u \in Threads \ {t} : at'[u] = at[u]
    BY <1>2, <1>5 DEF TypeOK
  <2>3. ThreadInv'
    BY <1>1, <1>2, <2>2 DEF ThreadInv, Works, Handles, Threads, Queued
  <2>4. \A u \in Threads, ip \in IPs : GivesUp(u, ip)' <=> GivesUp(u, ip)
    BY <1>1, <2>2 DEF GivesUp
  <2>5. /\ at'["main"] = "reply" => at["main"] = "reply"
        /\ at["main"] = "reply" => at'["main"] = "reply"
    BY <1>1, <2>2 DEF Threads
  <2>. QED BY <1>1, <1>3, <1>4, <2>1, <2>3, <2>4, <2>5, QuietStep
<1>6. CASE Return(t)
  <2>1. /\ ThreadInv'
        /\ at' \in [Threads -> {"idle", "check", "decide", "resend", "giveup", "reply", "sweep"}]
        /\ cur' \in [Threads -> IPs \cup {NoIP}]
        /\ at'[t] \in {"idle", "sweep"}
        /\ \A u \in Threads \ {t} : at'[u] = at[u] /\ cur'[u] = cur[u]
    BY <1>1, <1>2, <1>6, ReturnLemma
  <2>2. TypeOK'
    BY <1>1, <1>2, <2>1 DEF TypeOK
  <2>3. \A u \in Threads, ip \in IPs : GivesUp(u, ip)' <=> GivesUp(u, ip)
    BY <1>1, <2>1 DEF GivesUp
  <2>4. /\ at'["main"] = "reply" => at["main"] = "reply"
        /\ at["main"] = "reply" => at'["main"] = "reply"
    BY <1>1, <2>1 DEF Threads
  <2>. QED BY <1>1, <1>3, <1>4, <2>1, <2>2, <2>3, <2>4, QuietStep
<1>. QED BY <1>1, <1>5, <1>6

\* It asks again.
LEMMA ResendStep == ASSUME IInv, NEW t \in Threads, Resend(t) PROVE IInv'
<1>1. /\ Up(t) /\ at[t] = "resend" /\ Return(t)
      /\ UNCHANGED <<entries, old, requests, todo, next, dangling, down, new, wire, outcome>>
  BY DEF Resend, history
<1>2. TypeOK /\ ThreadInv /\ RequestInv /\ Handles(t)
  BY <1>1 DEF IInv, Handles
<1>3. cur[t] \in Queued /\ cur[t] \in IPs /\ Queued \subseteq IPs
  BY <1>1, <1>2, WorksLemma
<1>4. req \in Requests
  BY <1>2 DEF TypeOK, Requests, Request
<1>5. /\ req' \in Requests
      /\ \A ip \in IPs : /\ req'[ip].packets = req[ip].packets
                         /\ req'[ip].times_sent >= req[ip].times_sent
                         /\ ip # cur[t] => req'[ip] = req[ip]
  BY <1>3, <1>4, ResendLemma
<1>6. Undisturbed
  BY <1>4, <1>5, SameUndisturbed
<1>7. /\ ThreadInv'
      /\ at' \in [Threads -> {"idle", "check", "decide", "resend", "giveup", "reply", "sweep"}]
      /\ cur' \in [Threads -> IPs \cup {NoIP}]
      /\ at'[t] \in {"idle", "sweep"}
      /\ \A u \in Threads \ {t} : at'[u] = at[u] /\ cur'[u] = cur[u]
  BY <1>1, <1>2, ReturnLemma
<1>8. TypeOK'
  BY <1>1, <1>2, <1>5, <1>7 DEF TypeOK, Requests, Request
<1>9. RequestInv'
  <2>1. Queued' = Queued
    BY <1>1 DEF Queued
  <2>2. \A ip \in Queued : req'[ip].packets # <<>>
    BY <1>2, <1>3, <1>5 DEF RequestInv
  <2>3. \A ip \in IPs \ Queued : req'[ip] = NoPacket
    BY <1>2, <1>3, <1>5 DEF RequestInv
  <2>. QED BY <1>1, <1>2, <2>1, <2>2, <2>3 DEF RequestInv, Distinct, NoPacket
<1>10. \A u \in Threads, ip \in IPs : GivesUp(u, ip)' <=> GivesUp(u, ip)
  BY <1>1, <1>7 DEF GivesUp
<1>11. /\ at'["main"] = "reply" => at["main"] = "reply"
       /\ at["main"] = "reply" => at'["main"] = "reply"
  BY <1>1, <1>7 DEF Threads
<1>. QED BY <1>1, <1>6, <1>7, <1>8, <1>9, <1>10, <1>11, QuietStep

\* It decides between asking again and giving up.
LEMMA DecideStep == ASSUME IInv, NEW t \in Threads, Decide(t) PROVE IInv'
<1>1. /\ Up(t) /\ at[t] = "decide"
      /\ UNCHANGED <<entries, old, requests, req, cur, next, dangling, down, new, wire, outcome>>
      /\ \/ /\ req[cur[t]].times_sent >= Tries
            /\ at' = [at EXCEPT ![t] = "giveup"]
            /\ todo' = [todo EXCEPT ![t] = req[cur[t]].packets]
         \/ at' = [at EXCEPT ![t] = "resend"] /\ todo' = todo
  BY DEF Decide, cache, history
<1>2. /\ TypeOK /\ ThreadInv /\ RequestInv /\ PacketInv /\ Handles(t)
      /\ OnceInv /\ FateInv /\ GiveUpInv /\ WireInv
  BY <1>1 DEF IInv, Handles
<1>3. cur[t] \in Queued /\ cur[t] \in IPs /\ Queued \subseteq IPs /\ (t = "main" => ~dangling)
  BY <1>1, <1>2, WorksLemma
<1>4. RequestInv'
  BY <1>1, <1>2 DEF RequestInv, Queued, Distinct
<1>5. Undisturbed
  BY <1>1 DEF Undisturbed
<1>6. /\ at'[t] \in {"resend", "giveup"} /\ \A u \in Threads \ {t} : at'[u] = at[u]
      /\ at' \in [Threads -> {"idle", "check", "decide", "resend", "giveup", "reply", "sweep"}]
  BY <1>1, <1>2 DEF TypeOK
<1>7. ThreadInv'
  BY <1>1, <1>2, <1>6 DEF ThreadInv, Works, Handles, Threads, Queued
<1>8. /\ at'["main"] = "reply" => at["main"] = "reply"
      /\ at["main"] = "reply" => at'["main"] = "reply"
  BY <1>1, <1>6 DEF Threads
<1>9. req[cur[t]].packets \in Seq(PacketType)
  <2>1. req \in Requests
    BY <1>2 DEF TypeOK, Requests, Request
  <2>. QED BY <1>3, <2>1, RequestLemma
<1>10. CASE at' = [at EXCEPT ![t] = "resend"] /\ todo' = todo
  <2>1. TypeOK'
    BY <1>1, <1>2, <1>6, <1>10 DEF TypeOK
  <2>2. at'[t] = "resend"
    BY <1>2, <1>10 DEF TypeOK
  <2>3. \A u \in Threads, ip \in IPs : GivesUp(u, ip)' <=> GivesUp(u, ip)
    BY <1>1, <1>6, <2>2 DEF GivesUp
  <2>. QED BY <1>1, <1>4, <1>5, <1>7, <1>8, <1>10, <2>1, <2>3, QuietStep
<1>11. CASE /\ req[cur[t]].times_sent >= Tries
            /\ at' = [at EXCEPT ![t] = "giveup"]
            /\ todo' = [todo EXCEPT ![t] = req[cur[t]].packets]
  <2>1. /\ at'[t] = "giveup" /\ todo'[t] = req[cur[t]].packets
        /\ todo' \in [Threads -> Seq(PacketType)]
        /\ \A u \in Threads \ {t} : todo'[u] = todo[u]
    BY <1>2, <1>9, <1>11 DEF TypeOK
  <2>2. TypeOK'
    BY <1>1, <1>2, <1>6, <2>1 DEF TypeOK
  <2>3. PacketInv'
    <3>1. \A u \in Threads : \A k \in DOMAIN todo'[u] : Held(todo'[u][k])
      BY <1>3, <2>1 DEF Held
    <3>. QED BY <1>1, <1>2, <1>5, <3>1, PacketsKept
  <2>4. at'["main"] = "reply" => todo'["main"] = todo["main"]
    BY <1>1, <1>8, <2>1 DEF Threads
  <2>5. OnceInv'
    BY <1>2, <1>4, <1>5, <1>8, <2>2, <2>3, <2>4, OnceKept
  <2>6. \A id \in Transit : InHand(id)' <=> InHand(id)
    BY <1>8, <2>4 DEF InHand, Among, Own
  <2>7. \A u \in Threads, ip \in IPs : GivesUp(u, ip) => GivesUp(u, ip)'
    BY <1>1, <1>6 DEF GivesUp
  <2>8. FateInv'
    BY <1>1, <1>2, <1>4, <1>5, <2>2, <2>3, <2>6, <2>7, FateKept
  <2>9. ASSUME NEW u \in Threads, NEW ip \in IPs, GivesUp(u, ip)'
        PROVE  /\ req'[ip].times_sent >= Tries
               /\ \A id \in Transit :
                    /\ Among(id, todo'[u]) => Among(id, req'[ip].packets)
                    /\ Among(id, req'[ip].packets) => Among(id, todo'[u]) \/ outcome'[id] # "none"
    <3>1. CASE u = t
      <4>1. ip = cur[t]
        BY <1>1, <2>9, <3>1 DEF GivesUp
      <4>. QED BY <1>1, <1>11, <2>1, <3>1, <4>1
    <3>2. CASE u # t
      <4>1. GivesUp(u, ip) /\ todo'[u] = todo[u]
        BY <1>1, <1>6, <2>1, <2>9, <3>2 DEF GivesUp
      <4>. QED BY <1>1, <1>2, <4>1 DEF GiveUpInv
    <3>. QED BY <3>1, <3>2
  <2>10. GiveUpInv'
    BY <2>9 DEF GiveUpInv, Among, Own
  <2>11. WireInv'
    BY <1>1, <1>2 DEF WireInv, Own
  <2>. QED BY <1>4, <1>7, <2>2, <2>3, <2>5, <2>8, <2>10, <2>11 DEF IInv
<1>. QED BY <1>1, <1>10, <1>11

\* It gives up on one packet.
LEMMA UnreachableStep == ASSUME IInv, NEW t \in Threads, Unreachable(t) PROVE IInv'
<1> DEFINE p == Head(todo[t])
           iface == sr_findLPMentry(p.src)
           error == Answer(p, iface)
<1>1. /\ Up(t) /\ at[t] = "giveup" /\ todo[t] # <<>> /\ (t = "main" => at["timer"] = "idle")
      /\ outcome' = IF Own(p) THEN outcome
                    ELSE [outcome EXCEPT
                           ![p.id] = IF iface = NoIP THEN "dropped" ELSE "unreachable"]
      /\ todo' = [todo EXCEPT ![t] = Tail(todo[t])]
      /\ UNCHANGED <<at, cur, next, dangling, down, new>>
  BY DEF Unreachable, locked
<1>2. \/ UNCHANGED <<cache, wire>>
      \/ iface # NoIP /\ wire' = wire \cup {error} /\ UNCHANGED cache
      \/ iface # NoIP /\ queuereq(p.src, error) /\ UNCHANGED wire
  BY DEF Unreachable
<1>3. /\ TypeOK /\ ThreadInv /\ RequestInv /\ PacketInv /\ Handles(t)
      /\ OnceInv /\ FateInv /\ GiveUpInv /\ WireInv
  BY <1>1 DEF IInv, Handles
<1>4. /\ cur[t] \in Queued /\ cur[t] \in IPs /\ Queued \subseteq IPs /\ (t = "main" => ~dangling)
      /\ GivesUp(t, cur[t])
  BY <1>1, <1>3, WorksLemma DEF GivesUp
<1>5. todo[t] \in Seq(PacketType) /\ DOMAIN todo = Threads
  BY <1>3 DEF TypeOK
<1>6. /\ p \in PacketType /\ Tail(todo[t]) \in Seq(PacketType)
      /\ 1 \in DOMAIN todo[t] /\ p = todo[t][1]
      /\ \A k \in DOMAIN Tail(todo[t]) : \E j \in DOMAIN todo[t] : Tail(todo[t])[k] = todo[t][j]
      /\ \A id : Among(id, todo[t]) <=> Among(id, Tail(todo[t])) \/ (p.id = id /\ ~Own(p))
  BY <1>1, <1>5, TailLemma
<1>7. ~Own(p) => p.id \in Transit /\ p.id \notin new /\ p = Packet(p.id)
  BY <1>3, <1>6 DEF PacketInv, Intact
<1>8. p.id \in Ids /\ p.src \in IPs
  BY <1>6 DEF PacketType
<1>9. iface # NoIP => error \in PacketType /\ Own(error) /\ error.ttl = INIT_TTL
  BY <1>6, RouteLemma, AnswerLemma
<1>10. ~Own(p) => (iface # NoIP <=> p.id \in Answerable)
  <2>1. ASSUME ~Own(p) PROVE iface # NoIP <=> p.id \in Answerable
    <3>1. p.id \in Transit /\ p.src = Traffic[p.id].src
      BY <1>7, <2>1, TransitLemma
    <3>. QED BY <3>1 DEF Answerable
  <2>. QED BY <2>1
<1>. HIDE DEF p, iface, error
<1>11. req \in Requests /\ requests \in Seq(IPs)
  BY <1>3 DEF TypeOK, Requests, Request
<1>12. /\ requests' \in Seq(IPs) /\ Queued \subseteq Queued' /\ RequestInv' /\ Undisturbed
       /\ req' \in Requests /\ UNCHANGED <<entries, old>>
       /\ \A q \in wire' : q \in wire \/ (q \in PacketType /\ Own(q) /\ q.ttl = INIT_TTL)
  <2>1. CASE UNCHANGED cache
    <3>1. UNCHANGED <<entries, old, requests, req>>
      BY <2>1 DEF cache
    <3>2. RequestInv' /\ Queued' = Queued
      BY <1>3, <3>1 DEF RequestInv, Queued, Distinct
    <3>3. Undisturbed
      BY <3>1 DEF Undisturbed
    <3>4. \A q \in wire' : q \in wire \/ (q \in PacketType /\ Own(q) /\ q.ttl = INIT_TTL)
      BY <1>2, <1>9
    <3>. QED BY <1>11, <3>1, <3>2, <3>3, <3>4
  <2>2. CASE iface # NoIP /\ queuereq(p.src, error) /\ UNCHANGED wire
    <3>1. /\ requests' \in Seq(IPs) /\ Queued' = Queued \cup {p.src} /\ RequestInv'
          /\ req' \in Requests /\ UNCHANGED <<entries, old>>
      BY <1>3, <1>8, <1>9, <2>2, QueuereqLemma
    <3>2. Undisturbed
      BY <1>8, <1>9, <1>11, <2>2, OwnUndisturbed DEF queuereq
    <3>. QED BY <2>2, <3>1, <3>2
  <2>. QED BY <1>2, <2>1, <2>2
<1>13. /\ todo'[t] = Tail(todo[t]) /\ \A u \in Threads \ {t} : todo'[u] = todo[u]
       /\ todo' \in [Threads -> Seq(PacketType)]
  BY <1>1, <1>3, <1>6 DEF TypeOK
<1>14. TypeOK'
  BY <1>1, <1>3, <1>8, <1>12, <1>13 DEF TypeOK, Requests, Request
<1>15. ThreadInv'
  BY <1>1, <1>3, <1>12 DEF ThreadInv, Works, Handles
<1>16. PacketInv'
  <2>1. \A u \in Threads : \A k \in DOMAIN todo'[u] : Held(todo'[u][k])
    <3>1. \A k \in DOMAIN todo'[t] : Held(todo'[t][k])
      BY <1>6, <1>13 DEF Held
    <3>2. \A u \in Threads \ {t} : \A k \in DOMAIN todo'[u] : Held(todo'[u][k])
      BY <1>13 DEF Held
    <3>. QED BY <3>1, <3>2
  <2>. QED BY <1>1, <1>3, <1>12, <2>1, PacketsKept
<1>17. at["main"] = "reply" => todo'["main"] = todo["main"]
  BY <1>1, <1>13 DEF Threads
<1>18. OnceInv'
  BY <1>1, <1>3, <1>12, <1>14, <1>16, <1>17, OnceKept
<1>19. \A id \in Transit : /\ InHand(id)' <=> InHand(id)
                           /\ InQueue(id)' <=> InQueue(id)
  <2>1. \A id \in Transit : InHand(id)' <=> InHand(id)
    BY <1>1, <1>17 DEF InHand, Among, Own
  <2>. QED BY <1>3, <1>12, <1>14, <1>16, <2>1, InQueueKept
<1>20. \A u \in Threads, ip \in IPs : GivesUp(u, ip)' <=> GivesUp(u, ip)
  BY <1>1 DEF GivesUp
<1>21. ~Own(p) => /\ InQueue(p.id) /\ Traffic[p.id].dst = cur[t]
                  /\ outcome[p.id] # "sent" /\ ~InHand(p.id)
  <2>1. ASSUME ~Own(p)
        PROVE  /\ InQueue(p.id) /\ Traffic[p.id].dst = cur[t]
               /\ outcome[p.id] # "sent" /\ ~InHand(p.id)
    <3>1. Among(p.id, req[cur[t]].packets) /\ p.id \in Transit
      BY <1>3, <1>4, <1>6, <1>7, <2>1 DEF GiveUpInv
    <3>2. InQueue(p.id) /\ Traffic[p.id].dst = cur[t]
      BY <1>3, <1>4, <3>1, WhereLemma DEF Where
    <3>. QED BY <1>3, <3>1, <3>2 DEF FateInv, FateOf, Waiting, OnceInv
  <2>. QED BY <2>1
<1>22. /\ \A id \in Transit : id = p.id /\ ~Own(p) =>
            outcome'[id] = IF iface = NoIP THEN "dropped" ELSE "unreachable"
       /\ \A id \in Transit : ~(id = p.id /\ ~Own(p)) => outcome'[id] = outcome[id]
       /\ \A id \in Transit : outcome[id] # "none" => outcome'[id] # "none"
  BY <1>1, <1>3, <1>8 DEF TypeOK
<1>23. FateInv'
  <2>1. ASSUME NEW id \in Transit PROVE FateOf(id)'
    <3>1. FateOf(id) /\ Traffic[id].dst \in IPs
      BY <1>3, TransitLemma DEF FateInv
    <3>2. CASE id = p.id /\ ~Own(p)
      BY <1>1, <1>4, <1>7, <1>10, <1>19, <1>20, <1>21, <1>22, <3>2 DEF FateOf, Waiting
    <3>3. CASE ~(id = p.id /\ ~Own(p))
      BY <1>1, <1>19, <1>20, <1>22, <3>1, <3>3 DEF FateOf, Waiting
    <3>. QED BY <3>2, <3>3
  <2>. QED BY <2>1 DEF FateInv
<1>24. GiveUpInv'
  <2>1. ASSUME NEW u \in Threads, NEW ip \in IPs, GivesUp(u, ip)'
        PROVE  /\ req'[ip].times_sent >= Tries
               /\ \A id \in Transit :
                    /\ Among(id, todo'[u]) => Among(id, req'[ip].packets)
                    /\ Among(id, req'[ip].packets) => Among(id, todo'[u]) \/ outcome'[id] # "none"
    <3>1. /\ req[ip].times_sent >= Tries
          /\ \A id \in Transit :
               /\ Among(id, todo[u]) => Among(id, req[ip].packets)
               /\ Among(id, req[ip].packets) => Among(id, todo[u]) \/ outcome[id] # "none"
      BY <1>3, <1>20, <2>1 DEF GiveUpInv
    <3>2. /\ req'[ip].times_sent >= Tries
          /\ \A id : Among(id, req'[ip].packets) <=> Among(id, req[ip].packets)
      BY <1>12, <3>1 DEF Undisturbed
    <3>3. CASE u = t
      <4>1. \A id \in Transit : Among(id, todo[t]) =>
                Among(id, todo'[t]) \/ outcome'[id] # "none"
        BY <1>6, <1>13, <1>22
      <4>2. \A id \in Transit : Among(id, todo'[t]) => Among(id, todo[t])
        BY <1>6, <1>13
      <4>. QED BY <1>22, <3>1, <3>2, <3>3, <4>1, <4>2
    <3>4. CASE u # t
      BY <1>13, <1>22, <3>1, <3>2, <3>4
    <3>. QED BY <3>3, <3>4
  <2>. QED BY <2>1 DEF GiveUpInv, Among, Own
<1>25. WireInv'
  BY <1>3, <1>12 DEF WireInv, Own
<1>. QED BY <1>12, <1>14, <1>15, <1>16, <1>18, <1>23, <1>24, <1>25 DEF IInv

\* It has come to every packet, and destroys the request.
LEMMA DestroyStep == ASSUME IInv, NEW t \in Threads, Destroy(t) PROVE IInv'
<1> DEFINE ip == cur[t]
<1>1. /\ Up(t) /\ at[t] = "giveup" /\ todo[t] = <<>> /\ (t = "main" => at["timer"] = "idle")
      /\ requests' = Without(ip) /\ req' = Forgotten(ip)
      /\ dangling' = (t = "timer" /\ (dangling \/ (Handles("main") /\ cur["main"] = ip)))
      /\ at' = [at EXCEPT ![t] = IF t = "main" THEN "idle" ELSE "sweep"]
      /\ cur' = [cur EXCEPT ![t] = IF t = "main" THEN NoIP ELSE next]
      /\ UNCHANGED <<entries, old, todo, next, down, new, wire, outcome>>
  BY DEF Destroy, destroy, Return, history, locked
<1>2. /\ TypeOK /\ ThreadInv /\ RequestInv /\ PacketInv /\ Handles(t)
      /\ OnceInv /\ FateInv /\ GiveUpInv /\ WireInv
  BY <1>1 DEF IInv, Handles
<1>3. /\ ip \in Queued /\ ip \in IPs /\ (t = "main" => ~dangling) /\ GivesUp(t, ip)
  BY <1>1, <1>2, WorksLemma DEF GivesUp
<1>4. /\ at'[t] = (IF t = "main" THEN "idle" ELSE "sweep")
      /\ cur'[t] = (IF t = "main" THEN NoIP ELSE next)
      /\ \A u \in Threads \ {t} : at'[u] = at[u] /\ cur'[u] = cur[u]
      /\ at' \in [Threads -> {"idle", "check", "decide", "resend", "giveup", "reply", "sweep"}]
      /\ cur' \in [Threads -> IPs \cup {NoIP}]
  BY <1>1, <1>2 DEF TypeOK
<1>. HIDE DEF ip
<1>5. /\ requests' \in Seq(IPs) /\ Queued' = Queued \ {ip} /\ RequestInv'
      /\ req \in Requests /\ req' \in Requests
      /\ \A i \in IPs \ {ip} : req'[i] = req[i]
      /\ DOMAIN req'[ip].packets = {}
      /\ Once(req'[ip].packets) /\ \A id : ~Among(id, req'[ip].packets)
  BY <1>1, <1>2, <1>3, RemoveLemma
<1>6. TypeOK'
  BY <1>1, <1>2, <1>4, <1>5 DEF TypeOK, Requests, Request
<1>7. ThreadInv'
  <2>1. CASE t = "main"
    <3>1. at'["main"] = "idle" /\ at'["timer"] = "idle" /\ ~dangling'
      BY <1>1, <1>4, <2>1 DEF Threads
    <3>. QED BY <3>1 DEF ThreadInv, Works, Handles, Threads
  <2>2. CASE t = "timer"
    <3>1. /\ at'["timer"] = "sweep" /\ cur'["timer"] = next /\ cur["timer"] = ip
          /\ at'["main"] = at["main"] /\ cur'["main"] = cur["main"]
      BY <1>4, <2>2 DEF Threads, ip
    <3>2. next \in Queued' \cup {NoIP}
      BY <1>2, <1>5, <2>2, <3>1 DEF ThreadInv
    <3>3. dangling' = (dangling \/ (Handles("main") /\ cur["main"] = ip))
      BY <1>1, <2>2
    <3>. QED BY <1>2, <1>5, <3>1, <3>2, <3>3 DEF ThreadInv, Works, Handles, Threads
  <2>. QED BY <2>1, <2>2 DEF Threads
<1>8. PacketInv'
  <2>1. \A i \in IPs : \A k \in DOMAIN req'[i].packets :
            /\ Intact(req'[i].packets[k])
            /\ ~Own(req'[i].packets[k]) =>
                 req'[i].packets[k].dst = i /\ req'[i].packets[k].id \notin new'
    BY <1>1, <1>2, <1>5 DEF PacketInv
  <2>2. \A u \in Threads : \A k \in DOMAIN todo'[u] :
            Intact(todo'[u][k]) /\ (~Own(todo'[u][k]) => todo'[u][k].id \notin new')
    BY <1>1, <1>2 DEF PacketInv
  <2>. QED BY <2>1, <2>2 DEF PacketInv, Intact, Own, Packet
<1>9. ASSUME NEW id \in Transit
      PROVE  /\ InQueue(id)' <=> InQueue(id) /\ Traffic[id].dst # ip
             /\ InQueue(id) /\ Traffic[id].dst = ip => outcome[id] # "none"
             /\ Traffic[id].dst \in IPs
  <2>1. Where /\ Where'
    BY <1>2, <1>5, <1>6, <1>8, WhereLemma, WhereNext
  <2>2. Traffic[id].dst \in IPs
    BY TransitLemma
  <2>3. InQueue(id) <=> Among(id, req[Traffic[id].dst].packets)
    BY <2>1 DEF Where
  <2>4. InQueue(id)' <=> Among(id, req'[Traffic[id].dst].packets)
    BY <2>1 DEF Where, Among, Own
  <2>5. ~Among(id, todo[t])
    BY <1>1 DEF Among
  <2>6. Among(id, req[ip].packets) => outcome[id] # "none"
    BY <1>2, <1>3, <2>5 DEF GiveUpInv
  <2>. QED BY <1>5, <2>2, <2>3, <2>4, <2>6
<1>10. /\ at'["main"] = "reply" <=> at["main"] = "reply"
       /\ \A id \in Transit : InHand(id)' <=> InHand(id)
  <2>1. at'["main"] = "reply" <=> at["main"] = "reply"
    BY <1>1, <1>4 DEF Threads
  <2>. QED BY <1>1, <2>1 DEF InHand, Among, Own
<1>11. OnceInv'
  <2>1. \A i \in IPs : Once(req'[i].packets)
    BY <1>2, <1>5 DEF OnceInv
  <2>2. at'["main"] = "reply" => Once(todo'["main"])
    BY <1>1, <1>2, <1>10 DEF OnceInv
  <2>3. \A id \in Transit : ~(InHand(id)' /\ InQueue(id)')
    BY <1>2, <1>9, <1>10 DEF OnceInv
  <2>. QED BY <2>1, <2>2, <2>3 DEF OnceInv, Once, Own
<1>12. ASSUME NEW u \in Threads, NEW i \in IPs
       PROVE  /\ GivesUp(u, i) /\ i # ip => GivesUp(u, i)'
              /\ GivesUp(u, i)' => GivesUp(u, i) /\ i # ip
  <2>1. CASE u = t
    <3>1. GivesUp(u, i) => i = ip
      BY <2>1 DEF GivesUp, ip
    <3>2. ~GivesUp(u, i)'
      BY <1>4, <2>1 DEF GivesUp
    <3>. QED BY <3>1, <3>2
  <2>2. CASE u # t
    <3>1. at'[u] = at[u] /\ cur'[u] = cur[u]
      BY <1>4, <2>2
    <3>2. CASE u = "timer"
      <4>1. ~GivesUp(u, i) /\ ~GivesUp(u, i)'
        BY <1>1, <2>2, <3>1, <3>2 DEF GivesUp, Threads
      <4>. QED BY <4>1
    <3>3. CASE u = "main"
      <4>1. dangling' = (dangling \/ (Handles("main") /\ cur["main"] = ip))
        BY <1>1, <2>2, <3>3 DEF Threads
      <4>. QED BY <3>1, <3>3, <4>1 DEF GivesUp, Handles
    <3>. QED BY <3>2, <3>3 DEF Threads
  <2>. QED BY <2>1, <2>2
<1>13. FateInv'
  <2>1. ASSUME NEW id \in Transit PROVE FateOf(id)'
    <3>1. FateOf(id)
      BY <1>2 DEF FateInv
    <3>. QED BY <1>1, <1>9, <1>10, <1>12, <3>1 DEF FateOf, Waiting
  <2>. QED BY <2>1 DEF FateInv
<1>14. GiveUpInv'
  <2>1. ASSUME NEW u \in Threads, NEW i \in IPs, GivesUp(u, i)'
        PROVE  /\ req'[i].times_sent >= Tries
               /\ \A id \in Transit :
                    /\ Among(id, todo'[u]) => Among(id, req'[i].packets)
                    /\ Among(id, req'[i].packets) => Among(id, todo'[u]) \/ outcome'[id] # "none"
    <3>1. GivesUp(u, i) /\ i # ip
      BY <1>12, <2>1
    <3>2. req'[i] = req[i]
      BY <1>5, <3>1
    <3>. QED BY <1>1, <1>2, <3>1, <3>2 DEF GiveUpInv
  <2>. QED BY <2>1 DEF GiveUpInv, Among, Own
<1>15. WireInv'
  BY <1>1, <1>2 DEF WireInv, Own
<1>. QED BY <1>5, <1>6, <1>7, <1>8, <1>11, <1>13, <1>14, <1>15 DEF IInv

-----------------------------------------------------------------------------
(* The timeout thread and the clock.                                       *)

\* The sweep starts with the oldest request, ...
LEMMA StartSweepStep == ASSUME IInv, StartSweep PROVE IInv'
<1>1. /\ at["timer"] = "idle" /\ old' = {}
      /\ entries' = [s \in Slots |-> IF s \in old THEN NoIP ELSE entries[s]]
      /\ at' = [at EXCEPT !["timer"] = "sweep"]
      /\ cur' = [cur EXCEPT !["timer"] = IF requests = <<>> THEN NoIP ELSE Head(requests)]
      /\ UNCHANGED <<requests, req, todo, next, dangling, down, new, wire, outcome>>
  BY DEF StartSweep, invalidate, history, locked
<1>2. TypeOK /\ ThreadInv /\ RequestInv
  BY DEF IInv
<1> DEFINE first == IF requests = <<>> THEN NoIP ELSE Head(requests)
<1>3. first \in Queued \cup {NoIP} /\ Queued \subseteq IPs
  <2>1. requests \in Seq(IPs)
    BY <1>2 DEF TypeOK
  <2>2. requests # <<>> => 1 \in DOMAIN requests /\ Head(requests) = requests[1]
    BY <2>1
  <2>. QED BY <2>1, <2>2 DEF Queued
<1>. HIDE DEF first
<1>4. cur' = [cur EXCEPT !["timer"] = first]
  BY <1>1 DEF first
<1>5. /\ at'["timer"] = "sweep" /\ cur'["timer"] = first
      /\ at'["main"] = at["main"] /\ cur'["main"] = cur["main"]
  BY <1>1, <1>2, <1>4 DEF TypeOK, Threads
<1>6. TypeOK'
  <2>1. entries' \in [Slots -> IPs \cup {NoIP}]
    BY <1>1, <1>2 DEF TypeOK
  <2>2. cur' \in [Threads -> IPs \cup {NoIP}]
    BY <1>2, <1>3, <1>4 DEF TypeOK
  <2>3. at' \in [Threads -> {"idle", "check", "decide", "resend", "giveup", "reply", "sweep"}]
    BY <1>1, <1>2 DEF TypeOK
  <2>. QED BY <1>1, <1>2, <2>1, <2>2, <2>3 DEF TypeOK
<1>7. Queued' = Queued
  BY <1>1 DEF Queued
<1>8. ThreadInv'
  BY <1>1, <1>2, <1>3, <1>5, <1>7 DEF ThreadInv, Works, Handles, Threads
<1>9. RequestInv'
  BY <1>1, <1>2, <1>7 DEF RequestInv, Distinct
<1>10. Undisturbed
  BY <1>1 DEF Undisturbed
<1>11. \A t \in Threads, ip \in IPs : GivesUp(t, ip)' <=> GivesUp(t, ip)
  BY <1>1, <1>5 DEF GivesUp, Threads
<1>. QED BY <1>1, <1>5, <1>6, <1>8, <1>9, <1>10, <1>11, QuietStep

\* ... notes, before it handles one, which is the next, ...
LEMMA SweepStep == ASSUME IInv, Sweep PROVE IInv'
<1>1. /\ at["timer"] = "sweep" /\ cur["timer"] # NoIP
      /\ next' = After(cur["timer"])
      /\ at' = [at EXCEPT !["timer"] = "check"]
      /\ UNCHANGED <<entries, old, requests, req, cur, todo, dangling, down, new, wire, outcome>>
  BY DEF Sweep, cache, history
<1>2. TypeOK /\ ThreadInv /\ RequestInv
  BY DEF IInv
<1>3. cur["timer"] \in Queued
  BY <1>1, <1>2 DEF ThreadInv
<1>4. requests \in Seq(IPs) /\ Distinct /\ Queued \subseteq IPs /\ Queued' = Queued
  BY <1>1, <1>2 DEF TypeOK, RequestInv, Queued
<1>5. next' \in (Queued \cup {NoIP}) \ {cur["timer"]}
  BY <1>1, <1>3, <1>4, AfterLemma
<1>6. at'["timer"] = "check" /\ at'["main"] = at["main"]
  BY <1>1, <1>2 DEF TypeOK, Threads
<1>7. TypeOK'
  BY <1>1, <1>2, <1>4, <1>5 DEF TypeOK
<1>8. ThreadInv'
  BY <1>1, <1>2, <1>3, <1>4, <1>5, <1>6 DEF ThreadInv, Works, Handles, Threads
<1>9. RequestInv'
  BY <1>1, <1>2, <1>4 DEF RequestInv, Distinct
<1>10. Undisturbed
  BY <1>1 DEF Undisturbed
<1>11. \A t \in Threads, ip \in IPs : GivesUp(t, ip)' <=> GivesUp(t, ip)
  BY <1>1, <1>6 DEF GivesUp, Threads
<1>. QED BY <1>1, <1>6, <1>7, <1>8, <1>9, <1>10, <1>11, QuietStep

\* ... and ends after the last.
LEMMA EndSweepStep == ASSUME IInv, EndSweep PROVE IInv'
<1>1. /\ at["timer"] = "sweep"
      /\ at' = [at EXCEPT !["timer"] = "idle"]
      /\ UNCHANGED <<entries, old, requests, req, cur, todo, next, dangling,
                     down, new, wire, outcome>>
  BY DEF EndSweep, cache, history
<1>2. TypeOK /\ ThreadInv /\ RequestInv
  BY DEF IInv
<1>3. at'["timer"] = "idle" /\ at'["main"] = at["main"] /\ Queued' = Queued
  BY <1>1, <1>2 DEF TypeOK, Threads, Queued
<1>4. TypeOK'
  BY <1>1, <1>2 DEF TypeOK
<1>5. ThreadInv'
  BY <1>1, <1>2, <1>3 DEF ThreadInv, Works, Handles, Threads
<1>6. RequestInv'
  BY <1>1, <1>2, <1>3 DEF RequestInv, Distinct
<1>7. Undisturbed
  BY <1>1 DEF Undisturbed
<1>8. \A t \in Threads, ip \in IPs : GivesUp(t, ip)' <=> GivesUp(t, ip)
  BY <1>1, <1>3 DEF GivesUp, Threads
<1>. QED BY <1>1, <1>3, <1>4, <1>5, <1>6, <1>7, <1>8, QuietStep

\* Time passes.
LEMMA TimeStep == ASSUME IInv, Time PROVE IInv'
<1>1. UNCHANGED <<at, cur, todo, next, dangling, down, new, wire, outcome, requests>>
  BY DEF Time, threads, history, Tick, GrowOld
<1>2. TypeOK /\ ThreadInv /\ RequestInv
  BY DEF IInv
<1>3. req \in Requests
  BY <1>2 DEF TypeOK, Requests, Request
<1>4. /\ req' \in Requests /\ entries' \in [Slots -> IPs \cup {NoIP}] /\ old' \subseteq Slots
      /\ \A ip \in IPs : /\ req'[ip].packets = req[ip].packets
                         /\ req'[ip].times_sent = req[ip].times_sent
                         /\ req[ip] = NoPacket => req'[ip] = NoPacket
  <2>1. CASE Tick
    <3>1. UNCHANGED <<entries, old>>
      BY <2>1 DEF Tick
    <3>. QED BY <1>2, <1>3, <2>1, <3>1, TickLemma DEF TypeOK
  <2>2. CASE \E s \in Slots : GrowOld(s)
    <3>1. UNCHANGED <<entries, req>> /\ old' \subseteq Slots
      BY <1>2, <2>2 DEF GrowOld, TypeOK
    <3>. QED BY <1>2, <1>3, <3>1 DEF TypeOK
  <2>. QED BY <2>1, <2>2 DEF Time
<1>5. TypeOK'
  BY <1>1, <1>2, <1>4 DEF TypeOK, Requests, Request
<1>6. Queued' = Queued /\ Queued \subseteq IPs
  BY <1>1, <1>2 DEF Queued, TypeOK
<1>7. ThreadInv'
  BY <1>1, <1>2, <1>6 DEF ThreadInv, Works, Handles
<1>8. RequestInv'
  <2>1. \A ip \in Queued : req'[ip].packets # <<>>
    BY <1>2, <1>4, <1>6 DEF RequestInv
  <2>2. \A ip \in IPs \ Queued : req'[ip] = NoPacket
    BY <1>2, <1>4 DEF RequestInv
  <2>. QED BY <1>1, <1>2, <1>6, <2>1, <2>2 DEF RequestInv, Distinct, NoPacket
<1>9. Undisturbed
  <2>1. \A ip \in IPs : req[ip].times_sent \in Nat
    BY <1>3, RequestLemma
  <2>. QED BY <1>3, <1>4, <2>1, SameUndisturbed
<1>10. \A t \in Threads, ip \in IPs : GivesUp(t, ip)' <=> GivesUp(t, ip)
  BY <1>1 DEF GivesUp
<1>. QED BY <1>1, <1>5, <1>7, <1>8, <1>9, <1>10, QuietStep

-----------------------------------------------------------------------------
(* The invariant.                                                          *)

\* It holds at the start, ...
LEMMA InitLemma == Init => IInv
<1>. SUFFICES ASSUME Init PROVE IInv
  OBVIOUS
<1>1. /\ entries = [s \in Slots |-> NoIP] /\ old = {} /\ requests = <<>>
      /\ req = [ip \in IPs |-> NoPacket]
      /\ at = [t \in Threads |-> "idle"] /\ cur = [t \in Threads |-> NoIP]
      /\ todo = [t \in Threads |-> <<>>] /\ next = NoIP /\ dangling = FALSE /\ down = "up"
      /\ new = Ids /\ wire = {} /\ outcome = [id \in Ids |-> "none"]
  BY DEF Init, sr_arpcache_init
<1>2. TypeOK
  <2>1. req \in [IPs -> [due : BOOLEAN, times_sent : Nat, packets : Seq(PacketType)]]
    BY <1>1 DEF NoPacket
  <2>2. todo \in [Threads -> Seq(PacketType)] /\ requests \in Seq(IPs)
    BY <1>1
  <2>. QED BY <1>1, <2>1, <2>2 DEF TypeOK
<1>3. at["main"] = "idle" /\ at["timer"] = "idle" /\ Queued = {}
  BY <1>1 DEF Threads, Queued
<1>4. ThreadInv
  BY <1>1, <1>3 DEF ThreadInv, Works, Handles, Threads
<1>5. RequestInv
  BY <1>1, <1>3 DEF RequestInv, Distinct
<1>6. \A ip \in IPs : DOMAIN req[ip].packets = {}
  BY <1>1 DEF NoPacket
<1>7. \A t \in Threads : DOMAIN todo[t] = {}
  BY <1>1
<1>8. PacketInv
  BY <1>6, <1>7 DEF PacketInv
<1>9. \A id : ~InHand(id) /\ ~InQueue(id)
  BY <1>3 DEF InHand, InQueue
<1>10. OnceInv
  BY <1>3, <1>6, <1>9 DEF OnceInv, Once
<1>11. FateInv
  BY <1>1, <1>9 DEF FateInv, FateOf, Waiting, Transit
<1>12. GiveUpInv
  BY <1>3 DEF GiveUpInv, GivesUp, Threads
<1>13. WireInv
  BY <1>1 DEF WireInv
<1>. QED BY <1>2, <1>4, <1>5, <1>8, <1>10, <1>11, <1>12, <1>13 DEF IInv

\* ... and every step keeps it.
LEMMA StepLemma == IInv /\ [Next]_vars => IInv'
<1>. SUFFICES ASSUME IInv, [Next]_vars PROVE IInv'
  OBVIOUS
<1>1. CASE Receive
  <2>1. ASSUME NEW id \in Ids,
               \/ Drop(id) \/ EchoReply(id) \/ PortUnreachable(id)
               \/ TimeExceeded(id) \/ NetUnreachable(id)
        PROVE  IInv'
    BY <2>1, LocalStep
  <2>2. ASSUME NEW id \in Ids, Forward(id) PROVE IInv'
    BY <2>2, ForwardSends, ForwardWaits
  <2>3. ASSUME NEW ip \in Neighbours, ArpReply(ip) PROVE IInv'
    BY <2>3, ArpReplyAsked, ArpReplyUnasked
  <2>. QED BY <1>1, <2>1, <2>2, <2>3 DEF Receive
<1>2. ASSUME NEW t \in Threads, handle_arpreq(t) PROVE IInv'
  BY <1>2, CheckStep, DecideStep, ResendStep, UnreachableStep, DestroyStep DEF handle_arpreq
<1>3. CASE UseFreed \/ UNCHANGED vars
  <2>1. /\ UNCHANGED <<cache, threads, new, wire, outcome>> /\ down' \in {down, "freed"}
    BY <1>3 DEF UseFreed, vars, history
  <2>2. TypeOK'
    BY <2>1 DEF IInv, TypeOK, cache, threads
  <2>. QED BY <2>1, <2>2, NothingQueued
<1>4. CASE Main
  BY <1>2, <1>3, <1>4, SendWaitingStep, DestroyAnsweredStep DEF Main, Threads
<1>5. CASE Timer
  BY <1>2, <1>5, StartSweepStep, SweepStep, EndSweepStep DEF Timer, Threads
<1>6. CASE Time
  BY <1>6, TimeStep
<1>. QED BY <1>1, <1>3, <1>4, <1>5, <1>6 DEF Next

\* The invariant of both threads, the clock and the network.
THEOREM RouterInvariant == Spec => []IInv
BY InitLemma, StepLemma, PTL DEF Spec

\* Every variable of the router keeps its type.
THEOREM TypeCorrect == Spec => []TypeOK
<1>1. IInv => TypeOK
  BY DEF IInv
<1>. QED BY <1>1, RouterInvariant, PTL

\* The sweep of the timeout thread never follows a pointer to a request that
\* was freed (sr_arpcache.c, lines 27-31), and finds a packet in each.
THEOREM SweepIsSafe == Spec => []QueueSound
<1>1. IInv => QueueSound
  <2>. SUFFICES ASSUME IInv PROVE QueueSound
    OBVIOUS
  <2>1. TypeOK /\ ThreadInv /\ RequestInv
    BY DEF IInv
  <2>2. at["timer"] # "idle" => Works("timer") \/ at["timer"] = "sweep"
    BY <2>1 DEF TypeOK, ThreadInv, Threads, Works, Handles
  <2>. QED BY <2>1, <2>2 DEF QueueSound, ThreadInv, RequestInv, Threads
<1>. QED BY <1>1, RouterInvariant, PTL

\* A packet that was sent waits nowhere, and what was sent left with the TTL
\* it had less one, or, the router's own, with INIT_TTL.
THEOREM PacketsSentOnce == Spec => []SentOnce
<1>1. IInv => SentOnce
  BY DEF IInv, SentOnce, FateInv, FateOf, WireInv
<1>. QED BY <1>1, RouterInvariant, PTL

-----------------------------------------------------------------------------
(* What becomes of packets: the implementation of Delivery.                *)

\* The four ways in which a step may settle a packet, or none.
Unsettled    == \A id \in Transit : outcome'[id] = outcome[id] /\ (id \in new' <=> id \in new)
Arrived(id)  == /\ id \in new /\ id \notin new' /\ outcome'[id] \in {outcome[id], "sent"}
Answered(id) == /\ id \notin new /\ id \notin new' /\ InHand(id) /\ outcome'[id] = "sent"
GivenUp(id)  == /\ id \notin new /\ id \notin new' /\ outcome[id] # "sent"
                /\ \E t \in Threads : GivesUp(t, Traffic[id].dst)
                /\ outcome'[id] = IF id \in Answerable THEN "unreachable" ELSE "dropped"

\* What becomes of one packet does not concern the others.
Alone(id) == \A i \in Transit \ {id} : outcome'[i] = outcome[i] /\ (i \in new' <=> i \in new)
Settles   == Unsettled \/ \E id \in Transit :
                 Alone(id) /\ (Arrived(id) \/ Answered(id) \/ GivenUp(id))

\* A packet that is not to be forwarded settles none that is.
LEMMA LocalSettles ==
    ASSUME IInv, NEW id \in Ids,
           Drop(id) \/ EchoReply(id) \/ PortUnreachable(id)
           \/ TimeExceeded(id) \/ NetUnreachable(id)
    PROVE  Unsettled
<1>1. Arrives(id)
  BY DEF Drop, EchoReply, PortUnreachable, TimeExceeded, NetUnreachable
<1>2. id \notin Transit
  BY DEF Drop, EchoReply, PortUnreachable, TimeExceeded, NetUnreachable, Dropped, Transit, ToForward
<1>3. \A i \in Transit : i \in new' <=> i \in new
  BY <1>1, <1>2, ArrivalLemma
<1>4. Packet(id) \in PacketType /\ Traffic[id].from \in Ifaces
  BY RouterAssumption DEF Packet, PacketType
<1>5. ASSUME NEW iface \in Ifaces, Transmit(Answer(Packet(id), iface)) PROVE UNCHANGED outcome
  BY <1>4, <1>5, AnswerLemma DEF Transmit
<1>6. ASSUME NEW iface \in Ifaces,
             LET p == Answer(Packet(id), iface) IN Output(p, p)
      PROVE  UNCHANGED outcome
  BY <1>5, <1>6 DEF Output
<1>7. UNCHANGED outcome
  <2>1. CASE Drop(id)
    BY <2>1 DEF Drop
  <2>2. CASE EchoReply(id)
    BY <1>6, <2>2 DEF EchoReply
  <2>3. CASE PortUnreachable(id)
    BY <1>5, <2>3 DEF PortUnreachable
  <2>4. CASE TimeExceeded(id)
    BY <1>4, <1>6, <2>4 DEF TimeExceeded
  <2>5. CASE NetUnreachable(id)
    BY <1>4, <1>6, <2>5 DEF NetUnreachable
  <2>. QED BY <2>1, <2>2, <2>3, <2>4, <2>5
<1>. QED BY <1>3, <1>7 DEF Unsettled

\* Every step settles one packet, or none.
LEMMA SettlesLemma ==
    ASSUME IInv, [Next]_vars
    PROVE  Settles
<1>1. /\ TypeOK /\ ThreadInv /\ RequestInv /\ PacketInv
      /\ OnceInv /\ FateInv /\ GiveUpInv /\ WireInv
  BY DEF IInv
<1>2. outcome \in [Ids -> {"none", "sent", "unreachable", "dropped"}]
  BY <1>1 DEF TypeOK
<1>3. ASSUME NEW id \in Ids, Forward(id) PROVE Settles
  <2>1. /\ Arrives(id) /\ id \in Transit
        /\ Transmit(Decremented(Packet(id))) \/ UNCHANGED outcome
    BY <1>3 DEF Forward, Output
  <2>2. new' = new \ {id} /\ id \in new
    BY <2>1, ArrivalLemma DEF Arrives
  <2>3. outcome' = outcome \/ outcome' = [outcome EXCEPT ![id] = "sent"]
    BY <2>1, TransitLemma, DecrementedLemma DEF Transmit
  <2>4. Arrived(id)
    BY <1>2, <1>3, <2>2, <2>3 DEF Arrived
  <2>5. Alone(id)
    <3>1. \A i \in Transit \ {id} : i \in new' <=> i \in new
      BY <2>2
    <3>2. \A i \in Ids \ {id} : outcome'[i] = outcome[i]
      BY <1>2, <1>3, <2>3
    <3>. QED BY <3>1, <3>2 DEF Alone, Transit
  <2>. QED BY <2>1, <2>4, <2>5 DEF Settles
<1>4. CASE SendWaiting
  <2> DEFINE p == Head(todo["main"])
             q == IF Own(p) THEN p ELSE Decremented(p)
  <2>1. at["main"] = "reply" /\ todo["main"] # <<>> /\ Transmit(q) /\ UNCHANGED new
    BY <1>4 DEF SendWaiting
  <2>2. todo["main"] \in Seq(PacketType)
    BY <1>1 DEF TypeOK, Threads
  <2>3. /\ p \in PacketType /\ 1 \in DOMAIN todo["main"] /\ p = todo["main"][1]
        /\ ~Own(p) => Among(p.id, todo["main"])
    BY <2>1, <2>2, TailLemma
  <2>4. ~Own(p) => p.id \in Transit /\ p.id \notin new
    BY <1>1, <2>3 DEF PacketInv, Intact, Threads
  <2>5. q.id = p.id /\ Own(q) = Own(p)
    BY <2>3, DecrementedLemma
  <2>. HIDE DEF p, q
  <2>6. outcome' = IF Own(p) THEN outcome ELSE [outcome EXCEPT ![p.id] = "sent"]
    BY <2>1, <2>5 DEF Transmit
  <2>7. CASE Own(p)
    BY <2>1, <2>6, <2>7 DEF Settles, Unsettled
  <2>8. CASE ~Own(p)
    <3>1. InHand(p.id) /\ p.id \in Transit /\ p.id \in Ids
      BY <2>1, <2>3, <2>4, <2>8 DEF InHand, PacketType
    <3>2. Answered(p.id) /\ Alone(p.id)
      BY <1>2, <2>1, <2>4, <2>6, <2>8, <3>1 DEF Answered, Alone
    <3>. QED BY <3>1, <3>2 DEF Settles
  <2>. QED BY <2>7, <2>8
<1>5. ASSUME NEW t \in Threads, Unreachable(t) PROVE Settles
  <2> DEFINE p == Head(todo[t])
             iface == sr_findLPMentry(p.src)
  <2>1. /\ Up(t) /\ at[t] = "giveup" /\ todo[t] # <<>> /\ UNCHANGED new
        /\ outcome' = IF Own(p) THEN outcome
                      ELSE [outcome EXCEPT
                             ![p.id] = IF iface = NoIP THEN "dropped" ELSE "unreachable"]
    BY <1>5 DEF Unreachable
  <2>2. todo[t] \in Seq(PacketType)
    BY <1>1 DEF TypeOK
  <2>3. /\ p \in PacketType /\ 1 \in DOMAIN todo[t] /\ p = todo[t][1]
        /\ ~Own(p) => Among(p.id, todo[t])
    BY <2>1, <2>2, TailLemma
  <2>4. ~Own(p) => p.id \in Transit /\ p.id \notin new /\ p = Packet(p.id)
    BY <1>1, <2>3 DEF PacketInv, Intact
  <2>5. GivesUp(t, cur[t]) /\ cur[t] \in IPs
    BY <2>1, WorksLemma DEF GivesUp, Handles
  <2>6. ~Own(p) => iface = sr_findLPMentry(Traffic[p.id].src)
    <3>1. ~Own(p) => p.src = Traffic[p.id].src
      BY <2>4, TransitLemma
    <3>. QED BY <3>1
  <2>. HIDE DEF p, iface
  <2>7. CASE Own(p)
    BY <2>1, <2>7 DEF Settles, Unsettled
  <2>8. CASE ~Own(p)
    <3>1. Among(p.id, req[cur[t]].packets) /\ p.id \in Transit /\ p.id \in Ids
      BY <1>1, <2>3, <2>4, <2>5, <2>8 DEF GiveUpInv, PacketType
    <3>2. InQueue(p.id) /\ Traffic[p.id].dst = cur[t]
      BY <1>1, <2>5, <3>1, WhereLemma DEF Where
    <3>3. outcome[p.id] # "sent"
      BY <1>1, <3>1, <3>2 DEF FateInv, FateOf, Waiting
    <3>4. outcome'[p.id] = IF p.id \in Answerable THEN "unreachable" ELSE "dropped"
      BY <1>2, <2>1, <2>6, <2>8, <3>1 DEF Answerable
    <3>5. GivenUp(p.id) /\ Alone(p.id)
      BY <1>2, <2>1, <2>4, <2>5, <2>8, <3>1, <3>2, <3>3, <3>4 DEF GivenUp, Alone
    <3>. QED BY <3>1, <3>5 DEF Settles
  <2>. QED BY <2>7, <2>8
<1>6. ASSUME UNCHANGED <<new, outcome>> PROVE Settles
  BY <1>6 DEF Settles, Unsettled
<1>7. CASE Receive
  <2>1. ASSUME NEW id \in Ids,
               \/ Drop(id) \/ EchoReply(id) \/ PortUnreachable(id)
               \/ TimeExceeded(id) \/ NetUnreachable(id)
        PROVE  Settles
    BY <2>1, LocalSettles DEF Settles
  <2>2. ASSUME NEW ip \in Neighbours, ArpReply(ip) PROVE Settles
    BY <1>6, <2>2 DEF ArpReply, history
  <2>. QED BY <1>3, <1>7, <2>1, <2>2 DEF Receive
<1>8. ASSUME NEW t \in Threads, handle_arpreq(t) PROVE Settles
  BY <1>5, <1>6, <1>8 DEF handle_arpreq, Check, Decide, Resend, Destroy, history
<1>9. CASE Main
  BY <1>4, <1>6, <1>8, <1>9 DEF Main, DestroyAnswered, UseFreed, history, Threads
<1>10. CASE Timer \/ Time \/ UNCHANGED vars
  BY <1>6, <1>8, <1>10 DEF Timer, StartSweep, Sweep, EndSweep, Time, vars, history, Threads
<1>. QED BY <1>7, <1>9, <1>10 DEF Next

\* No packet is reported unreachable before its next hop has been asked for
\* Tries times (sr_arpcache.c, line 58).
THEOREM UnreachableEarned == Spec => UnreachableIsEarned
<1>1. IInv /\ [Next]_vars =>
        [\A id \in Transit :
            outcome[id] # "unreachable" /\ outcome'[id] = "unreachable" =>
                req[Traffic[id].dst].times_sent >= Tries]_vars
  <2>. SUFFICES ASSUME IInv, [Next]_vars, NEW id \in Transit,
                       outcome[id] # "unreachable", outcome'[id] = "unreachable"
                PROVE  req[Traffic[id].dst].times_sent >= Tries
    OBVIOUS
  <2>1. Settles
    BY SettlesLemma
  <2>2. GivenUp(id)
    BY <2>1 DEF Settles, Unsettled, Alone, Arrived, Answered
  <2>3. Traffic[id].dst \in IPs
    BY TransitLemma
  <2>. QED BY <2>2, <2>3 DEF GivenUp, IInv, GiveUpInv
<1>. QED BY <1>1, RouterInvariant, PTL DEF Spec, UnreachableIsEarned

\* No packet is ever lost: what the router promises is told by what became
\* of the packet, and by whether it has arrived.
FateNow == fate = [id \in Transit |-> IF outcome[id] # "none" THEN outcome[id]
                                      ELSE IF id \in new THEN "new" ELSE "waiting"]

LEMMA FateLemma == IInv => FateNow
<1>. SUFFICES ASSUME IInv PROVE FateNow
  OBVIOUS
<1>1. TypeOK /\ RequestInv /\ PacketInv /\ FateInv
  BY DEF IInv
<1>2. ASSUME NEW id \in Transit
      PROVE  (CASE outcome[id] # "none" -> outcome[id]
                [] outcome[id] = "none" /\ id \in new -> "new"
                [] outcome[id] = "none" /\ Waiting(id) -> "waiting"
                [] OTHER -> "lost") =
             IF outcome[id] # "none" THEN outcome[id] ELSE IF id \in new THEN "new" ELSE "waiting"
  <2>1. id \in new => ~Waiting(id)
    <3>1. Where
      BY <1>1, WhereLemma
    <3>2. Traffic[id].dst \in IPs /\ "main" \in Threads
      BY TransitLemma DEF Threads
    <3>. QED BY <3>1, <3>2 DEF Where, Waiting, InHand
  <2>2. id \notin new => outcome[id] # "none" \/ Waiting(id)
    BY <1>1 DEF FateInv, FateOf
  <2>3. CASE outcome[id] # "none"
    BY <2>3
  <2>4. CASE outcome[id] = "none" /\ id \in new
    BY <2>1, <2>4
  <2>5. CASE outcome[id] = "none" /\ id \notin new
    BY <2>2, <2>5
  <2>. QED BY <2>3, <2>4, <2>5
<1>. QED BY <1>2 DEF FateNow, fate

\* The router starts as Delivery does, ...
LEMMA DeliveryInit == Init => Promise!Init
<1>. SUFFICES ASSUME Init PROVE fate = [id \in Transit |-> "new"]
  BY DEF Promise!Init
<1>1. FateNow
  BY InitLemma, FateLemma
<1>2. \A id \in Transit : outcome[id] = "none" /\ id \in new
  BY DEF Init, Transit
<1>. QED BY <1>1, <1>2 DEF FateNow

\* ... and every step of it is a step of Delivery, or none.
LEMMA DeliveryStep == IInv /\ IInv' /\ [Next]_vars => [Promise!Next]_fate
<1>. SUFFICES ASSUME IInv, IInv', [Next]_vars PROVE [Promise!Next]_fate
  OBVIOUS
<1> DEFINE f(id) == IF outcome[id] # "none" THEN outcome[id]
                    ELSE IF id \in new THEN "new" ELSE "waiting"
           g(id) == IF outcome'[id] # "none" THEN outcome'[id]
                    ELSE IF id \in new' THEN "new" ELSE "waiting"
<1>1. FateNow /\ FateNow'
  <2>1. IInv => FateNow
    BY FateLemma
  <2>2. IInv' => FateNow'
    BY <2>1, FateLemma, PTL
  <2>. QED BY <2>1, <2>2
<1>2. fate = [id \in Transit |-> f(id)] /\ fate' = [id \in Transit |-> g(id)]
  BY <1>1 DEF FateNow
<1>3. Settles
  BY SettlesLemma
<1>4. CASE Unsettled
  <2>1. \A id \in Transit : f(id) = g(id)
    BY <1>4 DEF Unsettled
  <2>. QED BY <1>2, <2>1
<1>5. ASSUME NEW id \in Transit, Alone(id), Arrived(id) \/ Answered(id) \/ GivenUp(id)
      PROVE  [Promise!Next]_fate
  <2>1. \A i \in Transit \ {id} : f(i) = g(i)
    BY <1>5 DEF Alone
  <2>2. fate' = [fate EXCEPT ![id] = g(id)] /\ fate[id] = f(id)
    BY <1>2, <2>1
  <2>3. FateOf(id)
    BY DEF IInv, FateInv
  <2>4. CASE Arrived(id)
    <3>1. f(id) = "new" /\ g(id) \in {"sent", "waiting"}
      BY <2>3, <2>4 DEF Arrived, FateOf
    <3>. QED BY <2>2, <3>1 DEF Promise!Next, Promise!SendAtOnce, Promise!Wait, Promise!Become
  <2>5. CASE Answered(id)
    <3>1. f(id) = "waiting" /\ g(id) = "sent"
      BY <2>3, <2>5 DEF Answered, FateOf
    <3>. QED BY <2>2, <3>1 DEF Promise!Next, Promise!Send, Promise!Become
  <2>6. CASE GivenUp(id)
    <3>1. g(id) = IF id \in Answerable THEN "unreachable" ELSE "dropped"
      BY <2>6 DEF GivenUp
    <3>2. f(id) = "waiting" \/ f(id) = g(id)
      <4>1. outcome \in [Ids -> {"none", "sent", "unreachable", "dropped"}] /\ id \in Ids
        BY TransitLemma DEF IInv, TypeOK
      <4>. QED BY <2>3, <2>6, <3>1, <4>1 DEF GivenUp, FateOf
    <3>3. CASE f(id) = g(id)
      <4>1. fate' = fate
        BY <1>2, <2>1, <3>3
      <4>. QED BY <4>1
    <3>4. CASE f(id) = "waiting"
      BY <2>2, <3>1, <3>4 DEF Promise!Next, Promise!Report, Promise!GiveUp, Promise!Become
    <3>. QED BY <3>2, <3>3, <3>4
  <2>. QED BY <1>5, <2>4, <2>5, <2>6
<1>. QED BY <1>3, <1>4, <1>5 DEF Settles

\* The router keeps its promise: a packet waits for the address of its next
\* hop, and is then sent or reported unreachable, never both and never
\* neither, and given up in silence only when its sender cannot be told.
THEOREM RouterDelivers == Spec => Delivered
<1>1. Init => Promise!Init
  BY DeliveryInit
<1>2. IInv /\ IInv' /\ [Next]_vars => [Promise!Next]_fate
  BY DeliveryStep
<1>. QED BY <1>1, <1>2, RouterInvariant, PTL DEF Spec, Delivered, Promise!Spec

-----------------------------------------------------------------------------
(* However the two threads interleave, a request is counted as sent at     *)
(* most once more than the limit.                                          *)

\* Whether a thread has read times_sent for this address, found it below
\* the limit and not yet incremented it.
Asking(t, ip) == IF at[t] = "resend" /\ cur[t] = ip THEN 1 ELSE 0

ReqShape == req = [ip \in IPs |-> [due |-> req[ip].due, times_sent |-> req[ip].times_sent,
                                   packets |-> req[ip].packets]]
Counted(ip) ==
    /\ req[ip].times_sent \in Nat
    /\ req[ip].times_sent + Asking("main", ip) + Asking("timer", ip) <= Tries + 1

\* Each of the two threads may add one to what it found below the limit.
CountInv ==
    /\ ReqShape
    /\ DOMAIN at = Threads /\ DOMAIN cur = Threads
    /\ \A ip \in IPs : Counted(ip)

-----------------------------------------------------------------------------
\* The four ways in which the code changes a request.
SameCount == \A ip \in IPs : req'[ip].times_sent = req[ip].times_sent
Reset     == \A ip \in IPs : req'[ip].times_sent \in {req[ip].times_sent, 0}

\* Queueing a packet leaves every count alone.
LEMMA PushKeeps ==
    ASSUME ReqShape, NEW ip, NEW packet, req' = Push(ip, packet)
    PROVE  ReqShape' /\ SameCount
<1>1. /\ DOMAIN req = IPs
      /\ \A i \in IPs : req[i] = [due |-> req[i].due, times_sent |-> req[i].times_sent,
                                  packets |-> req[i].packets]
  BY DEF ReqShape
<1>2. DOMAIN req' = IPs /\ req' = [i \in DOMAIN req' |-> req'[i]]
  BY <1>1 DEF Push
<1>3. ASSUME NEW i \in IPs
      PROVE  /\ req'[i] = [due |-> req'[i].due, times_sent |-> req'[i].times_sent,
                           packets |-> req'[i].packets]
             /\ req'[i].times_sent = req[i].times_sent
  <2>1. PICK d, n, q : req[i] = [due |-> d, times_sent |-> n, packets |-> q]
    BY <1>1
  <2>2. CASE i = ip
    <3>1. req'[i] = [req[i] EXCEPT !.packets = <<packet>> \o @]
      BY <1>1, <2>2 DEF Push
    <3>. QED BY <2>1, <3>1
  <2>3. CASE i # ip
    BY <1>1, <2>1, <2>3 DEF Push
  <2>. QED BY <2>2, <2>3
<1>. QED BY <1>2, <1>3 DEF ReqShape, SameCount

\* Taking a request off the queue starts its count again.
LEMMA ForgottenKeeps ==
    ASSUME ReqShape, NEW ip, req' = Forgotten(ip)
    PROVE  ReqShape' /\ Reset
<1>1. /\ DOMAIN req = IPs
      /\ \A i \in IPs : req[i] = [due |-> req[i].due, times_sent |-> req[i].times_sent,
                                  packets |-> req[i].packets]
  BY DEF ReqShape
<1>2. DOMAIN req' = IPs /\ req' = [i \in DOMAIN req' |-> req'[i]]
  BY <1>1 DEF Forgotten
<1>3. ASSUME NEW i \in IPs
      PROVE  /\ req'[i] = [due |-> req'[i].due, times_sent |-> req'[i].times_sent,
                           packets |-> req'[i].packets]
             /\ req'[i].times_sent \in {req[i].times_sent, 0}
  <2>1. req'[i] = IF i = ip THEN NoPacket ELSE req[i]
    BY <1>1 DEF Forgotten
  <2>2. CASE i = ip
    BY <2>1, <2>2 DEF NoPacket
  <2>3. CASE i # ip
    BY <1>1, <2>1, <2>3
  <2>. QED BY <2>2, <2>3
<1>. QED BY <1>2, <1>3 DEF ReqShape, Reset

\* The clock leaves every count alone.
LEMMA TickKeeps ==
    ASSUME ReqShape, Tick
    PROVE  ReqShape' /\ SameCount
<1>1. \A i \in IPs : req[i] = [due |-> req[i].due, times_sent |-> req[i].times_sent,
                               packets |-> req[i].packets]
  BY DEF ReqShape
<1>2. req' = [i \in IPs |-> [req[i] EXCEPT !.due = TRUE]]
  BY DEF Tick
<1>3. ASSUME NEW i \in IPs
      PROVE  /\ req'[i] = [due |-> req'[i].due, times_sent |-> req'[i].times_sent,
                           packets |-> req'[i].packets]
             /\ req'[i].times_sent = req[i].times_sent
  <2>1. PICK d, n, q : req[i] = [due |-> d, times_sent |-> n, packets |-> q]
    BY <1>1
  <2>2. req'[i] = [req[i] EXCEPT !.due = TRUE]
    BY <1>2
  <2>. QED BY <2>1, <2>2
<1>. QED BY <1>2, <1>3 DEF ReqShape, SameCount

\* A step that at most starts counts again, and after which no thread is
\* about to ask that was not before, keeps the invariant.
LEMMA Quiet ==
    ASSUME CountInv, ReqShape', Reset,
           DOMAIN at' = Threads, DOMAIN cur' = Threads,
           \A t \in Threads : at'[t] = "resend" => at[t] = "resend" /\ cur'[t] = cur[t]
    PROVE  CountInv'
<1>1. ASSUME NEW ip \in IPs PROVE Counted(ip)'
  <2>1. Counted(ip) /\ Tries \in Nat
    BY RouterAssumption DEF CountInv
  <2>2. /\ Asking("main", ip)' <= Asking("main", ip) /\ Asking("timer", ip)' <= Asking("timer", ip)
        /\ Asking("main", ip)' \in {0, 1} /\ Asking("timer", ip)' \in {0, 1}
        /\ Asking("main", ip) \in {0, 1} /\ Asking("timer", ip) \in {0, 1}
    BY DEF Asking, Threads
  <2>3. req'[ip].times_sent \in {req[ip].times_sent, 0}
    BY DEF Reset
  <2>. QED BY <2>1, <2>2, <2>3 DEF Counted
<1>. QED BY <1>1 DEF CountInv

\* Queueing and sending, which any handler of a packet may do.
LEMMA OutputKeeps ==
    ASSUME CountInv, NEW packet, NEW asSent, Output(packet, asSent)
    PROVE  CountInv'
<1>1. ReqShape /\ DOMAIN at = Threads /\ DOMAIN cur = Threads
  BY DEF CountInv
<1>2. CASE lookup(packet.dst)
  <2>1. UNCHANGED <<req, at, cur>>
    BY <1>2 DEF Output, cache
  <2>. QED BY <2>1 DEF CountInv, ReqShape, Counted, Asking
<1>3. CASE ~lookup(packet.dst)
  <2>1. /\ req' = Push(packet.dst, packet)
        /\ at' = [at EXCEPT !["main"] = "check"]
        /\ cur' = [cur EXCEPT !["main"] = packet.dst]
    BY <1>3 DEF Output, queuereq
  <2>2. ReqShape' /\ SameCount
    BY <1>1, <2>1, PushKeeps
  <2>. QED BY <1>1, <2>1, <2>2, Quiet DEF SameCount, Reset
<1>. QED BY <1>2, <1>3

\* A thread about to ask has just read a count below the limit.
LEMMA DecideKeeps ==
    ASSUME CountInv, NEW t \in Threads, Decide(t)
    PROVE  CountInv'
<1>1. /\ at[t] = "decide"
      /\ at' = [at EXCEPT ![t] = IF req[cur[t]].times_sent >= Tries THEN "giveup" ELSE "resend"]
      /\ UNCHANGED <<req, cur>>
  BY DEF Decide, cache
<1>2. ReqShape' /\ DOMAIN at' = Threads /\ DOMAIN cur' = Threads /\ Tries \in Nat
  BY <1>1, RouterAssumption DEF CountInv, ReqShape
<1>3. ASSUME NEW ip \in IPs PROVE Counted(ip)'
  <2>1. Counted(ip) /\ DOMAIN at = Threads
    BY DEF CountInv
  <2>2. ASSUME NEW u \in Threads, u # t PROVE Asking(u, ip)' = Asking(u, ip)
    BY <1>1, <2>1, <2>2 DEF Asking
  <2>3. Asking(t, ip) = 0
    BY <1>1 DEF Asking
  <2>4. /\ Asking(t, ip)' \in {0, 1}
        /\ Asking(t, ip)' = 1 => ~(req[ip].times_sent >= Tries)
    BY <1>1, <2>1 DEF Asking
  <2>5. \A u \in Threads : Asking(u, ip) \in {0, 1} /\ Asking(u, ip)' \in {0, 1}
    BY DEF Asking
  <2>6. req[ip].times_sent \in Nat /\ req'[ip].times_sent = req[ip].times_sent
    BY <1>1, <2>1 DEF Counted
  <2>7. req[ip].times_sent + Asking("main", ip)' + Asking("timer", ip)' <= Tries + 1
    <3>1. CASE t = "main"
      BY <1>2, <2>1, <2>2, <2>3, <2>4, <2>5, <2>6, <3>1 DEF Threads, Counted
    <3>2. CASE t = "timer"
      BY <1>2, <2>1, <2>2, <2>3, <2>4, <2>5, <2>6, <3>2 DEF Threads, Counted
    <3>. QED BY <3>1, <3>2 DEF Threads
  <2>. QED BY <2>6, <2>7 DEF Counted
<1>. QED BY <1>2, <1>3 DEF CountInv

\* A thread that has asked adds one at most, and is no longer about to.
LEMMA ResendKeeps ==
    ASSUME CountInv, NEW t \in Threads, Resend(t)
    PROVE  CountInv'
<1>1. PICK n \in {0, 1} :
        /\ at[t] = "resend"
        /\ req' = [req EXCEPT ![cur[t]] =
                     [due |-> FALSE, times_sent |-> @.times_sent + n, packets |-> @.packets]]
  BY DEF Resend
<1>2. /\ at' = [at EXCEPT ![t] = IF t = "main" THEN "idle" ELSE "sweep"]
      /\ cur' = [cur EXCEPT ![t] = IF t = "main" THEN NoIP ELSE next]
  BY DEF Resend, Return
<1>3. /\ DOMAIN req = IPs /\ DOMAIN at = Threads /\ DOMAIN cur = Threads /\ Tries \in Nat
      /\ \A i \in IPs : req[i] = [due |-> req[i].due, times_sent |-> req[i].times_sent,
                                  packets |-> req[i].packets]
  BY RouterAssumption DEF CountInv, ReqShape
<1>4. DOMAIN req' = IPs /\ req' = [i \in DOMAIN req' |-> req'[i]]
  BY <1>1, <1>3
<1>5. ASSUME NEW ip \in IPs
      PROVE  /\ req'[ip] = [due |-> req'[ip].due, times_sent |-> req'[ip].times_sent,
                            packets |-> req'[ip].packets]
             /\ req'[ip].times_sent = IF ip = cur[t] THEN req[ip].times_sent + n
                                      ELSE req[ip].times_sent
  <2>1. PICK d, k, q : req[ip] = [due |-> d, times_sent |-> k, packets |-> q]
    BY <1>3
  <2>2. CASE ip = cur[t]
    <3>1. req'[ip] = [due |-> FALSE, times_sent |-> req[ip].times_sent + n,
                      packets |-> req[ip].packets]
      BY <1>1, <1>3, <2>2
    <3>. QED BY <2>2, <3>1
  <2>3. CASE ip # cur[t]
    <3>1. req'[ip] = req[ip]
      BY <1>1, <1>3, <2>3
    <3>. QED BY <2>1, <2>3, <3>1
  <2>. QED BY <2>2, <2>3
<1>6. ASSUME NEW ip \in IPs PROVE Counted(ip)'
  <2>1. Counted(ip)
    BY DEF CountInv
  <2>2. ASSUME NEW u \in Threads, u # t PROVE Asking(u, ip)' = Asking(u, ip)
    BY <1>2, <1>3, <2>2 DEF Asking
  <2>3. Asking(t, ip)' = 0 /\ Asking(t, ip) = IF ip = cur[t] THEN 1 ELSE 0
    BY <1>1, <1>2, <1>3 DEF Asking
  <2>4. \A u \in Threads : Asking(u, ip) \in {0, 1}
    BY DEF Asking
  <2>5. /\ req[ip].times_sent \in Nat /\ n \in {0, 1}
        /\ req'[ip].times_sent = IF ip = cur[t] THEN req[ip].times_sent + n
                                 ELSE req[ip].times_sent
    BY <1>1, <1>5, <2>1 DEF Counted
  <2>6. req'[ip].times_sent \in Nat
    BY <2>5
  <2>7. req'[ip].times_sent + Asking("main", ip)' + Asking("timer", ip)' <= Tries + 1
    <3>1. CASE t = "main"
      BY <1>3, <2>1, <2>2, <2>3, <2>4, <2>5, <3>1 DEF Counted, Threads
    <3>2. CASE t = "timer"
      BY <1>3, <2>1, <2>2, <2>3, <2>4, <2>5, <3>2 DEF Counted, Threads
    <3>. QED BY <3>1, <3>2 DEF Threads
  <2>. QED BY <2>6, <2>7 DEF Counted
<1>7. ReqShape'
  BY <1>4, <1>5 DEF ReqShape
<1>8. DOMAIN at' = Threads /\ DOMAIN cur' = Threads
  BY <1>2, <1>3
<1>. QED BY <1>6, <1>7, <1>8 DEF CountInv

\* Giving up: an error is queued for each packet, ...
LEMMA UnreachableKeeps ==
    ASSUME CountInv, NEW t \in Threads, Unreachable(t)
    PROVE  CountInv'
<1>1. /\ UNCHANGED <<at, cur>>
      /\ \/ UNCHANGED req
         \/ \E ip, packet : req' = Push(ip, packet)
  BY DEF Unreachable, queuereq, cache
<1>2. ReqShape /\ DOMAIN at = Threads /\ DOMAIN cur = Threads
  BY DEF CountInv
<1>3. CASE UNCHANGED req
  BY <1>1, <1>3 DEF CountInv, ReqShape, Counted, Asking
<1>4. CASE \E ip, packet : req' = Push(ip, packet)
  <2>1. PICK ip, packet : req' = Push(ip, packet)
    BY <1>4
  <2>2. ReqShape' /\ SameCount
    BY <1>2, <2>1, PushKeeps
  <2>. QED BY <1>1, <1>2, <2>2, Quiet DEF SameCount, Reset
<1>. QED BY <1>1, <1>3, <1>4

\* ... and then the request is destroyed.
LEMMA DestroyKeeps ==
    ASSUME CountInv, NEW t \in Threads, Destroy(t)
    PROVE  CountInv'
<1>1. ReqShape /\ DOMAIN at = Threads /\ DOMAIN cur = Threads
  BY DEF CountInv
<1>2. /\ req' = Forgotten(cur[t])
      /\ at' = [at EXCEPT ![t] = IF t = "main" THEN "idle" ELSE "sweep"]
      /\ cur' = [cur EXCEPT ![t] = IF t = "main" THEN NoIP ELSE next]
  BY DEF Destroy, destroy, Return
<1>3. ReqShape' /\ Reset
  BY <1>1, <1>2, ForgottenKeeps
<1>. QED BY <1>1, <1>2, <1>3, Quiet

\* So does an answer take its request off the queue.
LEMMA ArpReplyKeeps ==
    ASSUME CountInv, NEW ip \in Neighbours, ArpReply(ip)
    PROVE  CountInv'
<1>1. ReqShape /\ DOMAIN at = Threads /\ DOMAIN cur = Threads
  BY DEF CountInv
<1>2. /\ req' = Forgotten(ip)
      /\ \/ /\ at' = [at EXCEPT !["main"] = "reply"]
            /\ cur' = [cur EXCEPT !["main"] = ip]
         \/ UNCHANGED <<at, cur>>
  BY DEF ArpReply, insert
<1>3. ReqShape' /\ Reset
  BY <1>1, <1>2, ForgottenKeeps
<1>. QED BY <1>1, <1>2, <1>3, Quiet

\* Every other step leaves the counts alone.
LEMMA OtherKeeps ==
    ASSUME CountInv,
           \/ SendWaiting \/ DestroyAnswered \/ UseFreed \/ StartSweep \/ Sweep \/ EndSweep
           \/ Time \/ (\E t \in Threads : Check(t)) \/ UNCHANGED vars
           \/ \E id \in Ids : Drop(id) \/ PortUnreachable(id)
    PROVE  CountInv'
<1>1. ReqShape /\ DOMAIN at = Threads /\ DOMAIN cur = Threads
  BY DEF CountInv
<1>2. CASE SendWaiting \/ UseFreed \/ UNCHANGED vars
           \/ \E id \in Ids : Drop(id) \/ PortUnreachable(id)
  <2>1. UNCHANGED <<req, at, cur>>
    BY <1>2 DEF SendWaiting, UseFreed, vars, Drop, PortUnreachable, cache, threads
  <2>. QED BY <2>1 DEF CountInv, ReqShape, Counted, Asking
<1>3. CASE Time
  <2>1. UNCHANGED <<at, cur>> /\ (UNCHANGED req \/ Tick)
    BY <1>3 DEF Time, threads, GrowOld
  <2>2. CASE UNCHANGED req
    BY <2>1, <2>2 DEF CountInv, ReqShape, Counted, Asking
  <2>3. CASE Tick
    <3>1. ReqShape' /\ SameCount
      BY <1>1, <2>3, TickKeeps
    <3>. QED BY <1>1, <2>1, <3>1, Quiet DEF SameCount, Reset
  <2>. QED BY <2>1, <2>2, <2>3
<1>4. CASE DestroyAnswered \/ StartSweep \/ Sweep \/ EndSweep \/ \E t \in Threads : Check(t)
  <2>1. UNCHANGED req
    BY <1>4 DEF DestroyAnswered, StartSweep, Sweep, EndSweep, Check, cache, invalidate
  <2>2. /\ DOMAIN at' = Threads /\ DOMAIN cur' = Threads
        /\ \A t \in Threads : at'[t] = "resend" => at[t] = "resend" /\ cur'[t] = cur[t]
    BY <1>1, <1>4 DEF DestroyAnswered, StartSweep, Sweep, EndSweep, Check, Return, Threads
  <2>3. ReqShape' /\ Reset
    BY <1>1, <2>1 DEF ReqShape, Reset
  <2>. QED BY <2>2, <2>3, Quiet
<1>. QED BY <1>2, <1>3, <1>4

\* The invariant holds at the start, ...
LEMMA CountInit == Init => CountInv
<1>. SUFFICES ASSUME Init PROVE CountInv
  OBVIOUS
<1>1. /\ req = [ip \in IPs |-> [due |-> TRUE, times_sent |-> 0, packets |-> <<>>]]
      /\ at = [t \in Threads |-> "idle"] /\ cur = [t \in Threads |-> NoIP]
  BY DEF Init, sr_arpcache_init, NoPacket
<1>2. \A ip \in IPs : Asking("main", ip) = 0 /\ Asking("timer", ip) = 0
  BY <1>1 DEF Asking, Threads
<1>3. Tries \in Nat
  BY RouterAssumption
<1>. QED BY <1>1, <1>2, <1>3 DEF CountInv, ReqShape, Counted

\* ... and every step keeps it.
LEMMA CountStep == CountInv /\ [Next]_vars => CountInv'
<1>. SUFFICES ASSUME CountInv, [Next]_vars PROVE CountInv'
  OBVIOUS
<1>1. CASE Receive
  <2>1. ASSUME NEW ip \in Neighbours, ArpReply(ip) PROVE CountInv'
    BY <2>1, ArpReplyKeeps
  <2>2. ASSUME NEW id \in Ids, Drop(id) \/ PortUnreachable(id) PROVE CountInv'
    BY <2>2, OtherKeeps
  <2>3. ASSUME NEW id \in Ids, EchoReply(id) \/ TimeExceeded(id) \/ NetUnreachable(id) \/ Forward(id)
        PROVE  CountInv'
    <3>1. \/ UNCHANGED <<req, at, cur>>
          \/ \E packet, asSent : Output(packet, asSent)
      BY <2>3 DEF EchoReply, TimeExceeded, NetUnreachable, Forward, cache
    <3>2. CASE UNCHANGED <<req, at, cur>>
      BY <3>2 DEF CountInv, ReqShape, Counted, Asking
    <3>3. CASE \E packet, asSent : Output(packet, asSent)
      BY <3>3, OutputKeeps
    <3>. QED BY <3>1, <3>2, <3>3
  <2>. QED BY <1>1, <2>1, <2>2, <2>3 DEF Receive
<1>2. ASSUME NEW t \in Threads, handle_arpreq(t) PROVE CountInv'
  BY <1>2, DecideKeeps, ResendKeeps, UnreachableKeeps, DestroyKeeps, OtherKeeps DEF handle_arpreq
<1>3. CASE Main
  BY <1>2, <1>3, OtherKeeps DEF Main, Threads
<1>4. CASE Timer
  BY <1>2, <1>4, OtherKeeps DEF Timer, Threads
<1>5. CASE Time \/ UNCHANGED vars
  BY <1>5, OtherKeeps
<1>. QED BY <1>1, <1>3, <1>4, <1>5 DEF Next

\* Handling a request in both threads at once (sr_arpcache.c, lines 58 and
\* 135) counts one request more than the limit, and never two.
THEOREM RetryBound == Spec => []TriesBounded
<1>1. CountInv => TriesBounded
  <2>. SUFFICES ASSUME CountInv, NEW ip \in IPs PROVE req[ip].times_sent <= Tries + 1
    BY DEF TriesBounded
  <2>1. Counted(ip) /\ Asking("main", ip) \in {0, 1} /\ Asking("timer", ip) \in {0, 1}
    BY DEF CountInv, Asking
  <2>. QED BY <2>1, RouterAssumption DEF Counted
<1>. QED BY CountInit, CountStep, <1>1, PTL DEF Spec

=============================================================================
