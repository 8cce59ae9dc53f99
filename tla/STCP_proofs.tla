----------------------------- MODULE STCP_proofs ----------------------------
(***************************************************************************)
(* Proof that IInv is an inductive invariant of STCP, and the safety       *)
(* properties that follow from it, for every value of the constants; then  *)
(* that STCP implements ByteStream, step by step.                          *)
(***************************************************************************)
EXTENDS STCPInv, SequenceTheorems, TLAPS

-----------------------------------------------------------------------------
(* Data: residues, byte strings, minima.                                   *)

\* A residue below the modulus is the number itself: how a register is
\* compared.
LEMMA ModSmall ==
    ASSUME NEW x \in Nat, NEW m \in Nat, x < m
    PROVE  x % m = x
OBVIOUS

\* n bytes of a stream are a sequence of n numbers.
LEMMA BytesType ==
    ASSUME NEW k \in Nat, NEW n \in Nat
    PROVE  /\ Bytes(k, n) \in Seq(Nat)
           /\ Len(Bytes(k, n)) = n
BY DEF Bytes

\* What was read before and what comes next are one longer prefix.
LEMMA BytesConcat ==
    ASSUME NEW k \in Nat, NEW n \in Nat
    PROVE  Bytes(0, k) \o Bytes(k, n) = Bytes(0, k + n)
BY DEF Bytes

\* A sequence is empty when its length is 0.
LEMMA EmptyLength ==
    ASSUME NEW S, NEW s \in Seq(S)
    PROVE  s = <<>> <=> Len(s) = 0
OBVIOUS

\* A queue something was sent to is not empty.
LEMMA AppendNonEmpty ==
    ASSUME NEW S, NEW s \in Seq(S), NEW e \in S
    PROVE  Append(s, e) # <<>>
<1>1. Append(s, e) \in Seq(S) /\ Len(Append(s, e)) = Len(s) + 1 /\ Len(s) \in Nat
  OBVIOUS
<1>. QED BY <1>1, EmptyLength

\* The arithmetic of a send: the window shrinks by what is sent (line 212).
LEMMA WindowShrinks ==
    ASSUME NEW w \in Nat, NEW t \in Nat, NEW a \in Nat, NEW n \in Nat,
           a <= ISN + 1 + t, n >= 1
    PROVE  /\ (w - (ISN + 1 + t - a)) - n = w - (ISN + 1 + (t + n) - a)
           /\ ISN + 1 + (t + n) > a
BY DEF ISN

\* The smaller of two sizes is a size, and no larger than either.
LEMMA LeastLemma ==
    ASSUME NEW a \in Nat, NEW b \in Nat
    PROVE  Least(a, b) \in Nat /\ Least(a, b) <= a /\ Least(a, b) <= b
BY DEF Least

-----------------------------------------------------------------------------
(* The types of IInv, peer by peer.                                        *)

\* There are two peers, and each is the other of the other.
LEMMA PeersLemma ==
    ASSUME NEW p \in Peers
    PROVE  /\ Other(p) \in Peers /\ Other(p) # p /\ Other(Other(p)) = p
           /\ Peers = {p, Other(p)}
BY PeersAssumption DEF Peers, Other

Nats(p) ==
    /\ send_seq[p] \in Nat /\ send_ack[p] \in Nat /\ recv_ack[p] \in Nat
    /\ window[p] \in Nat /\ window[p] <= Window
    /\ written[p] \in Nat /\ taken[p] \in Nat /\ Got(p) \in Nat

\* TypeOK gives the registers of each peer their types.
LEMMA NatsLemma == ASSUME TypeOK, NEW p \in Peers PROVE Nats(p)
<1>1. window[p] \in Nat /\ window[p] <= Window
  BY SizesAssumption DEF TypeOK
<1>2. Got(p) \in Nat
  BY DEF TypeOK, Got
<1>. QED BY <1>1, <1>2 DEF TypeOK, Nats

\* What the proofs use of a segment.
SegNats(seg) ==
    /\ seg.seq \in Nat /\ seg.ack \in Nat /\ Size(seg) \in Nat /\ SegEnd(seg) \in Nat
    /\ seg.seq <= SegEnd(seg)
    /\ seg.data = <<>> <=> Size(seg) = 0
    /\ IsFin(seg) => SegEnd(seg) = seg.seq + Size(seg) + 1
    /\ ~IsFin(seg) => SegEnd(seg) = seg.seq + Size(seg)

\* A segment's fields are numbers and a byte string.
LEMMA SegNatsLemma == ASSUME NEW seg \in Segment PROVE SegNats(seg)
<1>1. seg.seq \in Nat /\ seg.ack \in Nat /\ seg.data \in Seq(Nat)
  BY DEF Segment
<1>2. Size(seg) \in Nat /\ (seg.data = <<>> <=> Size(seg) = 0)
  BY <1>1 DEF Size
<1>. QED BY <1>1, <1>2 DEF SegEnd, One, SegNats

-----------------------------------------------------------------------------
(* One direction of the connection: what happens to the segments from p    *)
(* on their way to q when a step appends to or consumes from net[q].       *)

\* A segment in flight stays legal while the registers move as they do.
LEMMA SegmentStep ==
    ASSUME NEW p, NEW q, NEW seg \in Segment,
           Nats(p), Nats(q), Nats(p)', Nats(q)',
           SegmentInv(p, q, seg),
           send_seq[p] <= send_seq'[p], taken[p] <= taken'[p],
           recv_ack[p] <= recv_ack'[p],
           recv_ack'[q] <= seg.seq, send_ack'[q] <= seg.ack,
           IsFin(seg) => send_seq'[p] = send_seq[p] /\ FinSent(p)'
    PROVE  SegmentInv(p, q, seg)'
<1>1. SegNats(seg)
  BY SegNatsLemma
<1>2. SegEnd(seg)' = SegEnd(seg) /\ Size(seg)' = Size(seg) /\ IsFin(seg)' = IsFin(seg)
  BY DEF SegEnd, Size, IsFin
<1>3. seg.seq >= recv_ack'[q] /\ SegEnd(seg) <= send_seq'[p]
  BY <1>1 DEF SegmentInv, Nats, SegNats
<1>4. seg.data # <<>> => SegEnd(seg) <= ISN + 1 + taken'[p]
  <2>1. SegEnd(seg) \in Nat /\ taken[p] \in Nat /\ taken'[p] \in Nat
    BY <1>1 DEF Nats, SegNats
  <2>2. seg.data # <<>> => SegEnd(seg) <= ISN + 1 + taken[p]
    BY DEF SegmentInv
  <2>. QED BY <2>1, <2>2 DEF ISN
<1>5. ISN + 1 <= seg.ack /\ send_ack'[q] <= seg.ack /\ seg.ack <= recv_ack'[p]
  <2>1. seg.ack \in Nat /\ recv_ack[p] \in Nat /\ recv_ack'[p] \in Nat
    BY <1>1 DEF Nats, SegNats
  <2>2. ISN + 1 <= seg.ack /\ seg.ack <= recv_ack[p]
    BY DEF SegmentInv
  <2>. QED BY <2>1, <2>2
<1>. QED BY <1>2, <1>3, <1>4, <1>5 DEF SegmentInv

\* The chain goes on with a segment that starts where it ended.
LEMMA ChainAppend ==
    ASSUME NEW p, NEW q, NEW seg \in Segment,
           net[q] \in Seq(Segment), Nats(p), Nats(p)',
           net'[q] = Append(net[q], seg),
           \A i \in DOMAIN net[q] : SegmentInv(p, q, net[q][i]),
           ChainInv(p, q),
           seg.seq = send_seq[p], SegEnd(seg) = send_seq'[p],
           recv_ack'[q] = recv_ack[q],
           recv_ack[p] <= seg.ack, IsPure(seg) => recv_ack[p] < seg.ack
    PROVE  ChainInv(p, q)'
<1> DEFINE n == Len(net[q])
<1>1. /\ n \in Nat /\ Len(net'[q]) = n + 1 /\ net'[q] # <<>>
      /\ \A i \in 1..n : net'[q][i] = net[q][i] /\ net[q][i] \in Segment
      /\ net'[q][n + 1] = seg /\ DOMAIN net[q] = 1..n /\ DOMAIN net'[q] = 1..(n + 1)
      /\ net[q] = <<>> <=> n = 0
  OBVIOUS
<1> HIDE DEF n
<1>2. \A i \in 1..n : /\ SegNats(net[q][i])
                      /\ SegEnd(net[q][i]) <= send_seq[p]
                      /\ net[q][i].ack <= recv_ack[p]
  BY <1>1, SegNatsLemma DEF SegmentInv
<1>3. SegNats(seg)
  BY SegNatsLemma
<1>4. \A x \in Segment : SegEnd(x)' = SegEnd(x) /\ IsPure(x)' = IsPure(x)
  BY DEF SegEnd, Size, IsFin, IsPure
<1>5. net'[q][1].seq = recv_ack'[q]
  <2>1. CASE n = 0
    BY <2>1, <1>1 DEF ChainInv
  <2>2. CASE n # 0
    BY <2>2, <1>1 DEF ChainInv
  <2>. QED BY <2>1, <2>2
<1>6. ASSUME NEW i \in 1..n
      PROVE  net'[q][i + 1].seq = SegEnd(net'[q][i])
  <2>1. CASE i = n
    <3>1. SegEnd(net[q][n]) = send_seq[p]
      BY <2>1, <1>1 DEF ChainInv, n
    <3>. QED BY <3>1, <2>1, <1>1
  <2>2. CASE i # n
    <3>1. i \in 1..n - 1 /\ i + 1 \in 1..n
      BY <2>2, <1>1
    <3>2. net[q][i + 1].seq = SegEnd(net[q][i])
      BY <3>1 DEF ChainInv, n
    <3>. QED BY <3>1, <3>2, <1>1
  <2>. QED BY <2>1, <2>2
<1>7. ASSUME NEW i \in 1..(n + 1), NEW j \in 1..(n + 1), i < j
      PROVE  /\ SegEnd(net'[q][i]) <= net'[q][j].seq
             /\ net'[q][i].ack <= net'[q][j].ack
             /\ IsPure(net'[q][j]) => net'[q][i].ack < net'[q][j].ack
  <2>1. i \in 1..n /\ (j \in 1..n \/ j = n + 1)
    BY <1>1, <1>7
  <2>2. CASE j \in 1..n
    BY <2>1, <2>2, <1>1, <1>7 DEF ChainInv
  <2>3. CASE j = n + 1
    <3>1. /\ net'[q][i] = net[q][i] /\ net'[q][j] = seg
          /\ SegEnd(net[q][i]) <= send_seq[p] /\ net[q][i].ack <= recv_ack[p]
          /\ net[q][i].ack \in Nat
      BY <2>1, <2>3, <1>1, <1>2 DEF SegNats
    <3>2. recv_ack[p] \in Nat /\ seg.ack \in Nat
      BY <1>3 DEF Nats, SegNats
    <3>. QED BY <3>1, <3>2
  <2>. QED BY <2>1, <2>2, <2>3
<1>8. \A i \in 1..(n + 1) : net'[q][i] \in Segment
  BY <1>1
<1>. QED
  <2>1. SegEnd(net[q][Len(net[q])])' = send_seq'[p]
    BY <1>1, <1>4
  <2>2. \A i \in 1..Len(net'[q]) - 1 : net'[q][i + 1].seq = SegEnd(net[q][i])'
    BY <1>1, <1>4, <1>6, <1>8
  <2>3. \A i, j \in DOMAIN net'[q] : i < j =>
         /\ SegEnd(net[q][i])' <= net'[q][j].seq
         /\ net'[q][i].ack <= net'[q][j].ack
         /\ IsPure(net[q][j])' => net'[q][i].ack < net'[q][j].ack
    BY <1>1, <1>4, <1>7, <1>8
  <2>. QED BY <2>1, <2>2, <2>3, <1>1, <1>5 DEF ChainInv

\* Without its first segment the chain is a chain still.
LEMMA ChainTail ==
    ASSUME NEW p, NEW q,
           net[q] \in Seq(Segment), net[q] # <<>>,
           net'[q] = Tail(net[q]),
           ChainInv(p, q),
           recv_ack'[q] = SegEnd(net[q][1]),
           send_seq'[p] = send_seq[p]
    PROVE  ChainInv(p, q)'
<1> DEFINE n == Len(net[q])
<1>1. /\ n \in Nat /\ n >= 1 /\ Len(net'[q]) = n - 1
      /\ \A i \in 1..n : net[q][i] \in Segment
      /\ \A i \in 1..(n - 1) : net'[q][i] = net[q][i + 1] /\ i + 1 \in 1..n
      /\ DOMAIN net[q] = 1..n /\ DOMAIN net'[q] = 1..(n - 1)
      /\ net'[q] = <<>> <=> n = 1
  <2> DEFINE t == Tail(net[q])
  <2>1. n \in Nat /\ n >= 1 /\ DOMAIN net[q] = 1..n
    OBVIOUS
  <2>2. t \in Seq(Segment) /\ Len(t) = n - 1
    OBVIOUS
  <2>3. \A i \in 1..(n - 1) : t[i] = net[q][i + 1]
    OBVIOUS
  <2>4. \A i \in 1..n : net[q][i] \in Segment
    OBVIOUS
  <2>5. net'[q] = t
    OBVIOUS
  <2> HIDE DEF n, t
  <2>6. t = <<>> <=> n = 1
    BY <2>1, <2>2
  <2>7. \A i \in 1..(n - 1) : i + 1 \in 1..n
    BY <2>1
  <2>8. DOMAIN t = 1..(n - 1)
    BY <2>2
  <2>. QED BY <2>1, <2>2, <2>3, <2>4, <2>5, <2>6, <2>7, <2>8
<1> HIDE DEF n
<1>2. \A x \in Segment : SegEnd(x)' = SegEnd(x) /\ IsPure(x)' = IsPure(x)
  BY DEF SegEnd, Size, IsFin, IsPure
<1>3. \A i \in 1..(n - 1) : net[q][i + 1].seq = SegEnd(net[q][i])
  BY DEF ChainInv, n
<1>4. SegEnd(net[q][n]) = send_seq[p]
  BY DEF ChainInv, n
<1>5. \A i, j \in 1..n : i < j =>
         /\ SegEnd(net[q][i]) <= net[q][j].seq
         /\ net[q][i].ack <= net[q][j].ack
         /\ IsPure(net[q][j]) => net[q][i].ack < net[q][j].ack
  BY <1>1 DEF ChainInv
<1>6. \A i \in 1..(n - 1) : net'[q][i] \in Segment
  BY <1>1
<1>7. net'[q] = <<>> => recv_ack'[q] = send_seq'[p]
  BY <1>1, <1>4
<1>8. net'[q] # <<>> => /\ net'[q][1].seq = recv_ack'[q]
                        /\ SegEnd(net[q][Len(net[q])])' = send_seq'[p]
  <2>1. HAVE net'[q] # <<>>
  <2>2. 1 \in 1..(n - 1) /\ n - 1 \in 1..(n - 1) /\ (n - 1) + 1 = n
    BY <2>1, <1>1
  <2>. QED BY <2>2, <1>1, <1>2, <1>3, <1>4, <1>6
<1>9. \A i \in 1..Len(net'[q]) - 1 : net'[q][i + 1].seq = SegEnd(net[q][i])'
  <2>1. TAKE i \in 1..Len(net'[q]) - 1
  <2>2. i \in 1..(n - 1) /\ i + 1 \in 1..(n - 1)
    BY <1>1
  <2>. QED BY <2>2, <1>1, <1>2, <1>3, <1>6
<1>10. \A i, j \in DOMAIN net'[q] : i < j =>
         /\ SegEnd(net[q][i])' <= net'[q][j].seq
         /\ net'[q][i].ack <= net'[q][j].ack
         /\ IsPure(net[q][j])' => net'[q][i].ack < net'[q][j].ack
  <2>1. TAKE i, j \in DOMAIN net'[q]
  <2>2. HAVE i < j
  <2>3. /\ i \in 1..(n - 1) /\ j \in 1..(n - 1)
        /\ i + 1 \in 1..n /\ j + 1 \in 1..n /\ i + 1 < j + 1
    BY <2>2, <1>1
  <2>. QED BY <2>3, <1>1, <1>2, <1>5, <1>6
<1>. QED BY <1>7, <1>8, <1>9, <1>10 DEF ChainInv

\* A step of p that sends seg to q.
LEMMA FlightAppend ==
    ASSUME NEW p, NEW q, NEW seg \in Segment,
           net[q] \in Seq(Segment), Nats(p), Nats(q), Nats(p)', Nats(q)',
           net'[q] = Append(net[q], seg),
           FlightInv(p, q),
           seg.seq = send_seq[p], SegEnd(seg) = send_seq'[p],
           send_seq[p] <= send_seq'[p], taken[p] <= taken'[p],
           recv_ack[p] <= recv_ack'[p],
           recv_ack'[q] = recv_ack[q], send_ack'[q] = send_ack[q],
           FinSent(p) => send_seq'[p] = send_seq[p] /\ FinSent(p)',
           recv_ack[p] <= seg.ack, IsPure(seg) => recv_ack[p] < seg.ack,
           SegmentInv(p, q, seg)'
    PROVE  FlightInv(p, q)'
<1>1. ChainInv(p, q)'
  BY ChainAppend DEF FlightInv
<1>2. ASSUME NEW i \in DOMAIN net'[q]
      PROVE  SegmentInv(p, q, net[q][i])'
  <2>1. CASE i \in DOMAIN net[q]
    <3>1. net'[q][i] = net[q][i] /\ net[q][i] \in Segment
      BY <2>1
    <3>2. SegmentInv(p, q, net[q][i])
      BY <2>1 DEF FlightInv
    <3>3. IsFin(net[q][i]) => FinSent(p)
      BY <3>2 DEF SegmentInv
    <3>4. recv_ack[q] <= net[q][i].seq /\ send_ack[q] <= net[q][i].ack
      <4>1. SegNats(net[q][i])
        BY <3>1, SegNatsLemma
      <4>. QED BY <4>1, <3>2 DEF SegmentInv, Nats, SegNats
    <3>5. SegmentInv(p, q, net[q][i]) => \A x : x = net[q][i] => SegmentInv(p, q, x)'
      BY <3>1, <3>3, <3>4, SegmentStep
    <3>. QED BY <3>1, <3>2, <3>5 DEF SegmentInv
  <2>2. CASE i = Len(net[q]) + 1
    <3>1. net'[q][i] = seg
      BY <2>2
    <3>. QED BY <3>1 DEF SegmentInv
  <2>. QED BY <2>1, <2>2
<1>. QED BY <1>1, <1>2 DEF FlightInv

\* A step of q that reads the first segment from p.
LEMMA FlightTail ==
    ASSUME NEW p, NEW q,
           net[q] \in Seq(Segment), net[q] # <<>>,
           Nats(p), Nats(q), Nats(p)', Nats(q)',
           net'[q] = Tail(net[q]),
           FlightInv(p, q),
           recv_ack'[q] = SegEnd(net[q][1]),
           send_ack'[q] = send_ack[q] \/ send_ack'[q] = net[q][1].ack,
           send_seq'[p] = send_seq[p], taken'[p] = taken[p],
           recv_ack'[p] = recv_ack[p], FinSent(p) => FinSent(p)'
    PROVE  FlightInv(p, q)'
<1>1. ChainInv(p, q)'
  BY ChainTail DEF FlightInv
<1>2. ASSUME NEW i \in DOMAIN net'[q]
      PROVE  SegmentInv(p, q, net[q][i])'
  <2>1. /\ i + 1 \in DOMAIN net[q] /\ net'[q][i] = net[q][i + 1]
        /\ 1 \in DOMAIN net[q] /\ 1 < i + 1
    OBVIOUS
  <2>2. net[q][i + 1] \in Segment /\ net[q][1] \in Segment
    BY <2>1
  <2>3. SegmentInv(p, q, net[q][i + 1])
    BY <2>1 DEF FlightInv
  <2>4. IsFin(net[q][i + 1]) => FinSent(p)
    BY <2>3 DEF SegmentInv
  <2>5. SegEnd(net[q][1]) <= net[q][i + 1].seq /\ net[q][1].ack <= net[q][i + 1].ack
    BY <2>1 DEF FlightInv, ChainInv
  <2>6. send_ack[q] <= net[q][i + 1].ack
    BY <2>3 DEF SegmentInv
  <2>7. recv_ack'[q] <= net[q][i + 1].seq /\ send_ack'[q] <= net[q][i + 1].ack
    BY <2>5, <2>6
  <2>8. send_seq[p] <= send_seq'[p] /\ taken[p] <= taken'[p] /\ recv_ack[p] <= recv_ack'[p]
    <3>1. send_seq[p] \in Nat /\ taken[p] \in Nat /\ recv_ack[p] \in Nat
      BY DEF Nats
    <3>. QED BY <3>1
  <2>9. SegmentInv(p, q, net[q][i + 1]) => \A x : x = net[q][i + 1] => SegmentInv(p, q, x)'
    BY <2>2, <2>4, <2>7, <2>8, SegmentStep
  <2>. QED BY <2>1, <2>3, <2>9 DEF SegmentInv
<1>. QED BY <1>1, <1>2 DEF FlightInv

\* A step that leaves the segments from p to q alone.
LEMMA FlightSame ==
    ASSUME NEW p, NEW q,
           net[q] \in Seq(Segment),
           Nats(p), Nats(q), Nats(p)', Nats(q)',
           net'[q] = net[q],
           FlightInv(p, q),
           recv_ack'[q] = recv_ack[q], send_ack'[q] = send_ack[q],
           send_seq'[p] = send_seq[p], taken'[p] = taken[p],
           recv_ack[p] <= recv_ack'[p], FinSent(p) => FinSent(p)'
    PROVE  FlightInv(p, q)'
<1>1. ChainInv(p, q)'
  <2>1. ChainInv(p, q)
    BY DEF FlightInv
  <2>2. \A x : SegEnd(x)' = SegEnd(x) /\ IsPure(x)' = IsPure(x)
    BY DEF SegEnd, Size, IsFin, IsPure
  <2>. QED BY <2>1, <2>2 DEF ChainInv, SegEnd, Size, IsFin, IsPure
<1>2. ASSUME NEW i \in DOMAIN net'[q]
      PROVE  SegmentInv(p, q, net[q][i])'
  <2>1. net'[q][i] = net[q][i] /\ net[q][i] \in Segment
    OBVIOUS
  <2>2. SegmentInv(p, q, net[q][i])
    BY DEF FlightInv
  <2>3. IsFin(net[q][i]) => FinSent(p)
    BY <2>2 DEF SegmentInv
  <2>4. recv_ack[q] <= net[q][i].seq /\ send_ack[q] <= net[q][i].ack
    <3>1. SegNats(net[q][i])
      BY <2>1, SegNatsLemma
    <3>. QED BY <3>1, <2>2 DEF SegmentInv, Nats, SegNats
  <2>5. send_seq[p] <= send_seq'[p] /\ taken[p] <= taken'[p]
    <3>1. send_seq[p] \in Nat /\ taken[p] \in Nat
      BY DEF Nats
    <3>. QED BY <3>1
  <2>6. SegmentInv(p, q, net[q][i]) => \A x : x = net[q][i] => SegmentInv(p, q, x)'
    BY <2>1, <2>3, <2>4, <2>5, SegmentStep
  <2>. QED BY <2>1, <2>2, <2>6 DEF SegmentInv
<1>. QED BY <1>1, <1>2 DEF FlightInv

-----------------------------------------------------------------------------
(* What a step of the control loop starts from, and what it has to show.   *)

\* The types of the registers after a step.
LEMMA NatsPrime == ASSUME TypeOK', NEW p \in Peers PROVE Nats(p)'
<1>1. (window[p] \in Nat /\ window[p] <= Window)'
  BY SizesAssumption DEF TypeOK
<1>2. Got(p)' \in Nat
  BY DEF TypeOK, Got
<1>. QED BY <1>1, <1>2 DEF TypeOK, Nats

\* A peer in its control loop is linked: the invariant of both directions
\* holds.
LEMMA LoopFacts ==
    ASSUME IInv, NEW p \in Peers, NEW q \in Peers, q = Other(p), unblocked[p]
    PROVE  /\ p # q /\ Other(q) = p /\ Peers = {p, q}
           /\ Linked /\ TypeOK
           /\ LinkInv(p, q) /\ LinkInv(q, p)
           /\ Nats(p) /\ Nats(q)
           /\ net[p] \in Seq(Segment) /\ net[q] \in Seq(Segment)
<1>1. p # q /\ Other(q) = p /\ Peers = {p, q}
  BY PeersLemma
<1>2. Linked /\ TypeOK
  BY DEF IInv, HandshakeInv, Idle
<1>3. LinkInv(p, q) /\ LinkInv(q, p)
  BY <1>1, <1>2 DEF IInv, LinkedInv
<1>4. Nats(p) /\ Nats(q)
  BY <1>2, NatsLemma
<1>. QED BY <1>1, <1>2, <1>3, <1>4 DEF TypeOK

\* A step inside the control loop leaves the peers linked, and the
\* handshake over.
LEMMA LinkedStep ==
    ASSUME NEW p \in Peers, NEW q \in Peers, q = Other(p),
           Linked', TypeOK', LinkInv(p, q)', LinkInv(q, p)'
    PROVE  IInv'
<1>1. p # q /\ Other(q) = p /\ Peers = {p, q}
  BY PeersLemma
<1>2. \A r \in Peers : LinkInv(r, Other(r))'
  BY <1>1
<1>. QED BY <1>2 DEF IInv, HandshakeInv, LinkedInv

\* The first segment on its way to q stays the first while others follow.
LEMMA AwaitedKept ==
    ASSUME NEW q, net[q] \in Seq(Segment), Awaited(q),
           net'[q] = net[q] \/ \E seg \in Segment : net'[q] = Append(net[q], seg)
    PROVE  Awaited(q)'
<1>1. net'[q] # <<>> /\ net'[q][1] = net[q][1]
  <2>1. net[q] # <<>>
    BY DEF Awaited
  <2>2. CASE net'[q] = net[q]
    BY <2>1, <2>2
  <2>3. ASSUME NEW seg \in Segment, net'[q] = Append(net[q], seg)
        PROVE  net'[q] # <<>> /\ net'[q][1] = net[q][1]
    BY <2>1, <2>3
  <2>. QED BY <2>2, <2>3
<1>. QED BY <1>1 DEF Awaited, IsPure, IsFin

-----------------------------------------------------------------------------
(* The steps of the control loop.                                          *)

\* Sending the application's data (lines 198-214) keeps the invariant.
LEMMA SendAppDataStep ==
    ASSUME IInv, NEW p \in Peers, NEW q \in Peers, q = Other(p), SendAppData(p)
    PROVE  IInv'
<1>1. /\ unblocked[p] /\ "APP_DATA" \in event[p]
      /\ event' = [event EXCEPT ![p] = @ \ {"APP_DATA"}]
      /\ UNCHANGED <<connection_state, done, send_ack, recv_ack, written, closing,
                     rcvd, eof, unblocked, running>>
  BY DEF SendAppData, InLoop
<1>2. /\ p # q /\ Other(q) = p /\ Linked /\ TypeOK
      /\ LinkInv(p, q) /\ LinkInv(q, p) /\ Nats(p) /\ Nats(q)
      /\ net[p] \in Seq(Segment) /\ net[q] \in Seq(Segment)
  BY <1>1, LoopFacts
<1>3. /\ send_seq[p] \in Nat /\ recv_ack[p] \in Nat /\ taken[p] \in Nat
      /\ window[p] \in Nat /\ window[p] <= Window /\ written[p] \in Nat
  BY <1>2 DEF Nats
<1>4. written[p] - taken[p] \in Nat
  <2>1. taken[p] <= written[p]
    BY <1>2 DEF LinkInv, RegisterInv
  <2>. QED BY <2>1, <1>3
<1>5. PICK n \in Nat :
         /\ n >= 1 /\ n <= window[p] /\ n <= written[p] - taken[p]
         /\ Send(p, Seg({"ACK"}, send_seq[p], recv_ack[p], Bytes(taken[p], n)))
         /\ taken' = [taken EXCEPT ![p] = @ + n]
         /\ send_seq' = [send_seq EXCEPT ![p] = @ + n]
         /\ window' = [window EXCEPT ![p] = (@ - n) % WinMod]
  <2> DEFINE m == Least(Least(window[p], MSS), written[p] - taken[p])
  <2>1. m \in Nat /\ m <= window[p] /\ m <= written[p] - taken[p]
    <3>1. Least(window[p], MSS) \in Nat /\ Least(window[p], MSS) <= window[p]
      BY <1>3, SizesAssumption, LeastLemma
    <3> DEFINE l == Least(window[p], MSS)
               d == written[p] - taken[p]
    <3>2. l \in Nat /\ d \in Nat /\ l <= window[p]
      BY <3>1, <1>4
    <3> HIDE DEF l, d
    <3>3. Least(l, d) \in Nat /\ Least(l, d) <= l /\ Least(l, d) <= d
      BY <3>2, LeastLemma
    <3>4. Least(l, d) <= window[p]
      BY <3>2, <3>3, <1>3
    <3>. QED BY <3>3, <3>4 DEF l, d
  <2> HIDE DEF m
  <2>2. ASSUME NEW n \in 1..m
        PROVE  n \in Nat /\ n >= 1 /\ n <= window[p] /\ n <= written[p] - taken[p]
    BY <2>1, <1>3, <1>4
  <2>. QED BY <2>2 DEF SendAppData, m
<1> PICK seg : seg = Seg({"ACK"}, send_seq[p], recv_ack[p], Bytes(taken[p], n))
  OBVIOUS
<1>6. /\ n >= 1 /\ n <= window[p] /\ n <= written[p] - taken[p]
      /\ taken' = [taken EXCEPT ![p] = @ + n]
      /\ send_seq' = [send_seq EXCEPT ![p] = @ + n]
      /\ net' = [net EXCEPT ![q] = Append(net[q], seg)]
  BY <1>5 DEF Send
<1>7. window' = [window EXCEPT ![p] = @ - n] /\ window[p] - n \in 0..Window
  <2>1. window[p] - n \in Nat /\ window[p] - n < WinMod /\ window[p] - n <= Window
    <3> DEFINE w == window[p]
    <3>1. w \in Nat /\ w <= Window /\ n \in Nat /\ n <= w
      BY <1>3, <1>6
    <3>2. Window \in Nat /\ WinMod \in Nat /\ Window < WinMod
      BY SizesAssumption
    <3> HIDE DEF w
    <3>3. w - n \in Nat /\ w - n <= w
      BY ONLY <3>1
    <3>4. w - n <= Window /\ w - n < WinMod
      BY ONLY <3>1, <3>2, <3>3
    <3>. QED BY <3>3, <3>4 DEF w
  <2>2. (window[p] - n) % WinMod = window[p] - n
    BY <2>1, ModSmall, SizesAssumption
  <2>3. window[p] - n \in 0..Window
    BY <2>1, SizesAssumption
  <2>. QED BY <2>2, <2>3, <1>5
<1>8. /\ seg \in Segment /\ seg.flags = {"ACK"} /\ seg.seq = send_seq[p]
      /\ seg.ack = recv_ack[p] /\ seg.data = Bytes(taken[p], n)
      /\ Size(seg) = n /\ ~IsFin(seg)
  <2>1. Bytes(taken[p], n) \in Seq(Nat) /\ Len(Bytes(taken[p], n)) = n
    BY <1>3, BytesType
  <2>. QED BY <2>1, <1>3 DEF Seg, Segment, Flags, Size, IsFin
<1>9. SegNats(seg) /\ ~IsPure(seg) /\ seg.data # <<>> /\ SegEnd(seg) = send_seq[p] + n
  <2>1. SegNats(seg)
    BY <1>8, SegNatsLemma
  <2>2. seg.data # <<>>
    BY <2>1, <1>8, <1>6 DEF SegNats
  <2>. QED BY <2>1, <2>2, <1>8 DEF SegNats, IsPure
<1>10. /\ taken'[p] = taken[p] + n /\ taken'[q] = taken[q]
       /\ send_seq'[p] = send_seq[p] + n /\ send_seq'[q] = send_seq[q]
       /\ event'[p] = event[p] \ {"APP_DATA"} /\ event'[q] = event[q]
       /\ window'[p] = window[p] - n /\ window'[q] = window[q]
       /\ net'[q] = Append(net[q], seg) /\ net'[p] = net[p]
  BY <1>1, <1>2, <1>6, <1>7 DEF TypeOK
<1>11. TypeOK'
  <2>1. Append(net[q], seg) \in Seq(Segment)
    BY <1>2, <1>8
  <2>2. taken[p] + n \in Nat /\ send_seq[p] + n \in Nat
    BY <1>3
  <2>. QED BY <2>1, <2>2, <1>1, <1>2, <1>6, <1>7 DEF TypeOK
<1>12. Nats(p)' /\ Nats(q)'
  BY <1>11, NatsPrime
<1>13. ~FinSent(p) /\ ~FinSent(p)' /\ FinSent(q)' = FinSent(q)
       /\ Got(p)' = Got(p) /\ Got(q)' = Got(q)
  <2>1. taken[p] < written[p]
    BY <1>1, <1>2 DEF LinkInv, EventInv
  <2>2. closing[p] # "signalled"
    BY <2>1, <1>2, <1>3 DEF LinkInv, EventInv
  <2>3. ~FinSent(p)
    BY <2>2, <1>2 DEF LinkInv, EventInv
  <2>. QED BY <2>3, <1>1 DEF FinSent, Got
<1>14. RegisterInv(p, q)'
  <2>1. RegisterInv(p, q)
    BY <1>2 DEF LinkInv
  <2>2. send_seq'[p] = ISN + 1 + taken'[p] + One(FinSent(p)')
    <3>1. send_seq[p] = ISN + 1 + taken[p]
      BY <2>1, <1>3, <1>13 DEF RegisterInv, One, ISN
    <3>. QED BY <3>1, <1>3, <1>10, <1>13 DEF One, ISN
  <2>3. recv_ack'[q] = ISN + 1 + Got(q)' + One(eof[q])'
    BY <2>1, <1>1, <1>13 DEF RegisterInv, One
  <2>4. recv_ack'[q] <= send_seq'[p] /\ send_ack'[p] <= recv_ack'[q]
    <3>1. recv_ack[q] <= send_seq[p] /\ send_ack[p] <= recv_ack[q]
      BY <2>1 DEF RegisterInv
    <3>2. recv_ack[q] \in Nat
      BY <1>2 DEF Nats
    <3>. QED BY <3>1, <3>2, <1>1, <1>3, <1>10
  <2>5. Got(q)' <= taken'[p] /\ taken'[p] <= written'[p]
    <3>1. Got(q) <= taken[p] /\ Got(q) \in Nat
      BY <2>1, <1>2 DEF RegisterInv, Nats
    <3>. QED BY <3>1, <1>1, <1>3, <1>6, <1>10, <1>13, SMTT(40)
  <2>6. rcvd'[q] = Bytes(0, Got(q)')
    BY <2>1, <1>1, <1>13 DEF RegisterInv
  <2>7. ~eof'[q]
    BY <2>1, <1>1, <1>13 DEF RegisterInv
  <2>. QED BY <2>2, <2>3, <2>4, <2>5, <2>6, <2>7 DEF RegisterInv, One
<1>15. SegmentInv(p, q, seg)'
  <2>1. SegEnd(seg)' = SegEnd(seg) /\ Size(seg)' = Size(seg) /\ IsFin(seg)' = IsFin(seg)
    BY DEF SegEnd, Size, IsFin
  <2>2. send_seq[p] = ISN + 1 + taken[p]
    BY <1>2, <1>3, <1>13 DEF LinkInv, RegisterInv, One, ISN
  <2>3. seg.data = Bytes(seg.seq - (ISN + 1), Size(seg))
    <3>1. seg.seq - (ISN + 1) = taken[p]
      BY <2>2, <1>3, <1>8 DEF ISN
    <3>. QED BY <3>1, <1>8
  <2>4. seg.seq >= recv_ack'[q] /\ SegEnd(seg) <= send_seq'[p]
    <3>1. recv_ack[q] <= send_seq[p] /\ recv_ack[q] \in Nat
      BY <1>2 DEF LinkInv, RegisterInv, Nats
    <3>. QED BY <3>1, <1>1, <1>3, <1>8, <1>9, <1>10
  <2>5. SegEnd(seg) <= ISN + 1 + taken'[p]
    BY <2>2, <1>3, <1>9, <1>10 DEF ISN
  <2>6. ISN + 1 <= seg.ack /\ send_ack'[q] <= seg.ack /\ seg.ack <= recv_ack'[p]
    <3>1. recv_ack[p] = ISN + 1 + Got(p) + One(eof[p]) /\ send_ack[q] <= recv_ack[p]
      BY <1>2 DEF LinkInv, RegisterInv
    <3>2. Got(p) \in Nat /\ One(eof[p]) \in Nat
      BY <1>2 DEF Nats, One
    <3>. QED BY <3>1, <3>2, <1>1, <1>3, <1>8 DEF ISN
  <2>. QED BY <2>1, <2>3, <2>4, <2>5, <2>6, <1>8 DEF SegmentInv
<1>16. FlightInv(p, q)'
  <2>1. FlightInv(p, q)
    BY <1>2 DEF LinkInv
  <2>2. /\ send_seq[p] <= send_seq'[p] /\ taken[p] <= taken'[p]
        /\ recv_ack[p] <= recv_ack'[p] /\ recv_ack'[q] = recv_ack[q]
        /\ send_ack'[q] = send_ack[q] /\ recv_ack[p] <= seg.ack
        /\ SegEnd(seg) = send_seq'[p]
    BY <1>1, <1>3, <1>8, <1>9, <1>10, SMTT(40)
  <2>. QED BY <2>1, <2>2, <1>2, <1>8, <1>9, <1>10, <1>12, <1>13, <1>15, FlightAppend
<1>17. WindowInv(p)'
  <2>1. send_ack[p] >= ISN + 1 /\ send_ack[p] <= ISN + 1 + taken[p] /\ send_ack[p] \in Nat
    <3>1. send_ack[p] >= ISN + 1 /\ send_ack[p] <= recv_ack[q] /\ recv_ack[q] <= send_seq[p]
          /\ send_ack[p] \in Nat /\ recv_ack[q] \in Nat
      BY <1>1, <1>2 DEF LinkInv, RegisterInv, WindowInv, Nats
    <3>2. send_seq[p] = ISN + 1 + taken[p]
      BY <1>2, <1>3, <1>13 DEF LinkInv, RegisterInv, One, ISN
    <3>. QED BY <3>1, <3>2, <1>3
  <2>2. window[p] = Window - (ISN + 1 + taken[p] - send_ack[p])
    <3>1. window[p] = IF ISN + 1 + taken[p] > send_ack[p]
                        THEN Window - (ISN + 1 + taken[p] - send_ack[p]) ELSE Window
      BY <1>1, <1>2 DEF LinkInv, WindowInv
    <3>. QED BY <3>1, <2>1, <1>3, SizesAssumption DEF ISN
  <2>3. window[p] - n = Window - (ISN + 1 + (taken[p] + n) - send_ack[p])
        /\ ISN + 1 + (taken[p] + n) > send_ack[p]
    <3>1. /\ (Window - (ISN + 1 + taken[p] - send_ack[p])) - n
               = Window - (ISN + 1 + (taken[p] + n) - send_ack[p])
          /\ ISN + 1 + (taken[p] + n) > send_ack[p]
      <4>1. Window \in Nat /\ taken[p] \in Nat /\ n >= 1
        BY <1>3, <1>6, SizesAssumption
      <4>. QED BY ONLY <4>1, <2>1, n \in Nat, WindowShrinks
    <3>. QED BY <3>1, <2>2
  <2>. QED BY <2>1, <2>3, <1>1, <1>10 DEF WindowInv
<1>18. StateInv(p, q)' /\ EventInv(p)'
  <2>1. StateInv(p, q) /\ EventInv(p)
    BY <1>2 DEF LinkInv
  <2>2. connection_state[p] # "FIN_WAIT_2" /\ ~done[p]
    BY <2>1, <1>13 DEF StateInv, FinSent
  <2>3. closing[p] # "signalled"
    <3>1. taken[p] < written[p]
      BY <2>1, <1>1 DEF EventInv
    <3>. QED BY <3>1, <2>1, <1>3 DEF EventInv
  <2>4. StateInv(p, q)'
    BY <2>1, <2>2, <1>1, <1>10 DEF StateInv
  <2>5. EventInv(p)'
    BY <2>1, <2>3, <1>1, <1>10, <1>13 DEF EventInv
  <2>. QED BY <2>4, <2>5
<1>19. LinkInv(q, p)'
  <2>1. LinkInv(q, p)
    BY <1>2
  <2>2. FlightInv(q, p)'
    <3>1. FlightInv(q, p) /\ recv_ack[q] <= recv_ack'[q]
      BY <2>1, <1>1, <1>2 DEF LinkInv, Nats
    <3>. QED BY <3>1, <1>1, <1>2, <1>10, <1>12, <1>13, FlightSame
  <2>3. RegisterInv(q, p)'
    BY <2>1, <1>1, <1>10, <1>13 DEF LinkInv, RegisterInv
  <2>4. WindowInv(q)'
    BY <2>1, <1>1, <1>10 DEF LinkInv, WindowInv, Idle
  <2>5. net'[q] # <<>>
    BY <1>2, <1>8, <1>10, AppendNonEmpty
  <2>6. StateInv(q, p)'
    <3>1. StateInv(q, p)
      BY <2>1 DEF LinkInv
    <3>2. ~done[q]
      BY <3>1, <1>2, <1>13 DEF StateInv, LinkInv, RegisterInv
    <3>3. Awaited(q) => Awaited(q)'
      BY <1>2, <1>8, <1>10, AwaitedKept
    <3>. QED BY <3>1, <3>2, <3>3, <2>5, <1>1, <1>10 DEF StateInv
  <2>7. EventInv(q)'
    BY <2>1, <2>5, <1>1, <1>10, <1>13 DEF LinkInv, EventInv
  <2>. QED BY <2>2, <2>3, <2>4, <2>6, <2>7 DEF LinkInv
<1>20. Linked'
  BY <1>1, <1>2 DEF Linked
<1>. QED
  <2>1. LinkInv(p, q)'
    BY <1>14, <1>16, <1>17, <1>18 DEF LinkInv
  <2>. QED BY <2>1, <1>11, <1>19, <1>20, LinkedStep

\* A step of p that only moves its own event bits, its application's
\* requests or its running flag.
LEMMA LocalStep ==
    ASSUME IInv, NEW p \in Peers, NEW q \in Peers, q = Other(p), unblocked[p],
           TypeOK',
           UNCHANGED <<connection_state, done, send_seq, send_ack, recv_ack, window,
                       net, taken, rcvd, eof, unblocked>>,
           written'[q] = written[q], written[p] <= written'[p],
           event'[q] = event[q], closing'[q] = closing[q], running'[q] = running[q],
           EventInv(p)',
           ~running'[p] => done[p], done[p] => event'[p] = {}
    PROVE  IInv'
<1>1. /\ p # q /\ Other(q) = p /\ Linked /\ TypeOK
      /\ LinkInv(p, q) /\ LinkInv(q, p) /\ Nats(p) /\ Nats(q)
      /\ net[p] \in Seq(Segment) /\ net[q] \in Seq(Segment)
  BY LoopFacts
<1>2. Nats(p)' /\ Nats(q)'
  BY NatsPrime
<1>3. /\ FinSent(p)' = FinSent(p) /\ FinSent(q)' = FinSent(q)
      /\ Got(p)' = Got(p) /\ Got(q)' = Got(q)
  BY DEF FinSent, Got
<1>4. ASSUME NEW r, NEW o, Nats(r), Nats(o), Nats(r)', Nats(o)', net[o] \in Seq(Segment),
             FinSent(r)' = FinSent(r), FlightInv(r, o)
      PROVE  FlightInv(r, o)'
  <2>1. recv_ack[r] <= recv_ack'[r]
    BY <1>4 DEF Nats
  <2>. QED BY <2>1, <1>4, FlightSame
<1>5. FlightInv(p, q)' /\ FlightInv(q, p)'
  BY <1>1, <1>2, <1>3, <1>4 DEF LinkInv
<1>6. RegisterInv(p, q)'
  <2>1. RegisterInv(p, q)
    BY <1>1 DEF LinkInv
  <2>2. taken[p] <= written'[p]
    <3>1. taken[p] <= written[p]
      BY <2>1 DEF RegisterInv
    <3>2. taken[p] \in Nat /\ written[p] \in Nat /\ written'[p] \in Nat
      BY <1>1, <1>2 DEF Nats
    <3>. QED BY <3>1, <3>2
  <2>. QED BY <2>1, <2>2, <1>3 DEF RegisterInv
<1>7. RegisterInv(q, p)'
  BY <1>1, <1>3 DEF LinkInv, RegisterInv
<1>8. WindowInv(p)'
  BY <1>1 DEF LinkInv, WindowInv
<1>9. WindowInv(q)'
  BY <1>1 DEF LinkInv, WindowInv, Idle
<1>10. StateInv(p, q)'
  BY <1>1 DEF LinkInv, StateInv
<1>11. StateInv(q, p)'
  <2>1. Awaited(q) => Awaited(q)'
    BY <1>1, AwaitedKept
  <2>. QED BY <2>1, <1>1 DEF LinkInv, StateInv
<1>12. EventInv(q)'
  BY <1>1, <1>3 DEF LinkInv, EventInv
<1>13. Linked'
  BY <1>1 DEF Linked
<1>14. LinkInv(p, q)'
  BY <1>5, <1>6, <1>8, <1>10 DEF LinkInv
<1>15. LinkInv(q, p)'
  BY <1>5, <1>7, <1>9, <1>11, <1>12 DEF LinkInv
<1>. QED BY <1>13, <1>14, <1>15, LinkedStep

\* So does taking a snapshot of the ready events (line 192), ...
LEMMA WaitForEventStep ==
    ASSUME IInv, NEW p \in Peers, NEW q \in Peers, q = Other(p), WaitForEvent(p)
    PROVE  IInv'
<1>1. /\ unblocked[p] /\ running[p] /\ ~done[p] /\ event[p] = {}
      /\ event' = [event EXCEPT ![p] = ReadyEvents(p)]
      /\ closing' = [closing EXCEPT ![p] =
                       IF "APP_CLOSE_REQUESTED" \in ReadyEvents(p) THEN "signalled" ELSE @]
      /\ UNCHANGED <<connection_state, done, send_seq, send_ack, recv_ack, window,
                     net, written, taken, rcvd, eof, unblocked, running>>
  BY DEF WaitForEvent, InLoop, ctx
<1>2. p # q /\ TypeOK /\ EventInv(p) /\ Nats(p)
  BY <1>1, LoopFacts DEF LinkInv
<1>3. ReadyEvents(p) \in SUBSET Events
  BY DEF ReadyEvents
<1>4. TypeOK'
  BY <1>1, <1>2, <1>3 DEF TypeOK
<1>5. /\ event'[p] = ReadyEvents(p) /\ event'[q] = event[q] /\ closing'[q] = closing[q]
      /\ closing'[p] = IF "APP_CLOSE_REQUESTED" \in ReadyEvents(p)
                         THEN "signalled" ELSE closing[p]
  BY <1>1, <1>2 DEF TypeOK
<1>6. /\ "APP_DATA" \in ReadyEvents(p) => taken[p] < written[p]
      /\ "NETWORK_DATA" \in ReadyEvents(p) => net[p] # <<>>
      /\ "APP_CLOSE_REQUESTED" \in ReadyEvents(p) =>
           closing[p] = "requested" /\ taken[p] = written[p]
  BY DEF ReadyEvents
<1>7. FinSent(p)' = FinSent(p)
  BY <1>1 DEF FinSent
<1>8. EventInv(p)'
  BY <1>1, <1>2, <1>5, <1>6, <1>7 DEF EventInv
<1>9. written[p] <= written'[p]
  BY <1>1, <1>2 DEF Nats
<1>. QED BY <1>1, <1>4, <1>5, <1>8, <1>9, LocalStep

\* ... leaving data alone while the window is shut (line 202), ...
LEMMA SkipAppDataStep ==
    ASSUME IInv, NEW p \in Peers, NEW q \in Peers, q = Other(p), SkipAppData(p)
    PROVE  IInv'
<1>1. /\ unblocked[p] /\ running[p] /\ "APP_DATA" \in event[p]
      /\ event' = [event EXCEPT ![p] = @ \ {"APP_DATA"}]
      /\ UNCHANGED <<connection_state, done, send_seq, send_ack, recv_ack, window,
                     net, written, taken, closing, rcvd, eof, unblocked, running>>
  BY DEF SkipAppData, InLoop, ctx, app
<1>2. p # q /\ TypeOK /\ EventInv(p) /\ StateInv(p, q) /\ Nats(p)
  BY <1>1, LoopFacts DEF LinkInv
<1>3. TypeOK'
  BY <1>1, <1>2 DEF TypeOK
<1>4. event'[p] = event[p] \ {"APP_DATA"} /\ event'[q] = event[q]
  BY <1>1, <1>2 DEF TypeOK
<1>5. FinSent(p)' = FinSent(p)
  BY <1>1 DEF FinSent
<1>6. EventInv(p)'
  BY <1>1, <1>2, <1>4, <1>5 DEF EventInv
<1>7. written[p] <= written'[p] /\ ~done[p]
  BY <1>1, <1>2 DEF Nats, StateInv
<1>. QED BY <1>1, <1>3, <1>4, <1>6, <1>7, LocalStep

\* ... the end of the loop (line 303), ...
LEMMA ReturnStep ==
    ASSUME IInv, NEW p \in Peers, NEW q \in Peers, q = Other(p), Return(p)
    PROVE  IInv'
<1>1. /\ unblocked[p] /\ done[p] /\ event[p] = {}
      /\ running' = [running EXCEPT ![p] = FALSE]
      /\ UNCHANGED <<connection_state, done, send_seq, send_ack, recv_ack, window,
                     net, written, taken, closing, rcvd, eof, unblocked, event>>
  BY DEF Return, InLoop, ctx, app
<1>2. p # q /\ TypeOK /\ EventInv(p) /\ Nats(p)
  BY <1>1, LoopFacts DEF LinkInv
<1>3. TypeOK' /\ running'[q] = running[q]
  BY <1>1, <1>2 DEF TypeOK
<1>4. FinSent(p)' = FinSent(p)
  BY <1>1 DEF FinSent
<1>5. EventInv(p)'
  BY <1>1, <1>2, <1>4 DEF EventInv
<1>6. written[p] <= written'[p]
  BY <1>1, <1>2 DEF Nats
<1>. QED BY <1>1, <1>3, <1>5, <1>6, LocalStep

\* Adding one to a peer's counter leaves every counter a natural number.
LEMMA Incremented ==
    ASSUME NEW f \in [Peers -> Nat], NEW p \in Peers
    PROVE  [f EXCEPT ![p] = @ + 1] \in [Peers -> Nat]
OBVIOUS

\* ... and what the applications do meanwhile.
LEMMA ApplicationStep ==
    ASSUME IInv, NEW p \in Peers, NEW q \in Peers, q = Other(p), Application(p)
    PROVE  IInv'
<1>1. /\ unblocked[p] /\ closing[p] = "open"
      /\ \/ /\ written' = [written EXCEPT ![p] = @ + 1] /\ closing' = closing
         \/ /\ closing' = [closing EXCEPT ![p] = "requested"] /\ written' = written
      /\ UNCHANGED <<connection_state, done, send_seq, send_ack, recv_ack, window,
                     net, taken, rcvd, eof, unblocked, event, running>>
  BY DEF Application, AppWrite, AppClose, ctx
<1>2. p # q /\ TypeOK /\ EventInv(p) /\ StateInv(p, q) /\ Nats(p)
  BY <1>1, LoopFacts DEF LinkInv
<1>3. TypeOK'
  <2>1. CASE written' = [written EXCEPT ![p] = @ + 1] /\ closing' = closing
    <3>1. written \in [Peers -> Nat]
      BY <1>2 DEF TypeOK
    <3>2. written' \in [Peers -> Nat]
      BY <3>1, <2>1, Incremented
    <3>. QED BY <3>2, <2>1, <1>1, <1>2 DEF TypeOK
  <2>2. CASE closing' = [closing EXCEPT ![p] = "requested"] /\ written' = written
    BY <2>2, <1>1, <1>2 DEF TypeOK
  <2>. QED BY <2>1, <2>2, <1>1
<1>4. /\ written'[q] = written[q] /\ closing'[q] = closing[q]
      /\ closing'[p] # "signalled"
      /\ written'[p] = written[p] \/ written'[p] = written[p] + 1
  BY <1>1, <1>2 DEF TypeOK
<1>5. written[p] \in Nat /\ taken[p] \in Nat
  BY <1>2 DEF Nats
<1>6. written[p] <= written'[p]
  BY <1>4, <1>5
<1>7. FinSent(p)' = FinSent(p) /\ ~FinSent(p) /\ "APP_CLOSE_REQUESTED" \notin event[p]
  BY <1>1, <1>2 DEF FinSent, EventInv
<1>8. "APP_DATA" \in event[p] => taken[p] < written'[p]
  <2>1. "APP_DATA" \in event[p] => taken[p] < written[p]
    BY <1>2 DEF EventInv
  <2>. QED BY <2>1, <1>4, <1>5
<1>9. EventInv(p)'
  BY <1>1, <1>2, <1>4, <1>7, <1>8 DEF EventInv
<1>10. (~running[p] => done[p]) /\ (done[p] => event[p] = {})
  BY <1>2 DEF StateInv
<1>. QED BY <1>1, <1>3, <1>4, <1>6, <1>9, <1>10, LocalStep

\* No bytes are the empty sequence.
LEMMA BytesEmpty == ASSUME NEW k \in Nat PROVE Bytes(k, 0) = <<>>
BY DEF Bytes

\* Sending the FIN (lines 288-301) keeps the invariant: nothing is left
\* unsent.
LEMMA CloseRequestedStep ==
    ASSUME IInv, NEW p \in Peers, NEW q \in Peers, q = Other(p), CloseRequested(p)
    PROVE  IInv'
<1>1. /\ unblocked[p] /\ event[p] = {"APP_CLOSE_REQUESTED"}
      /\ send_seq' = [send_seq EXCEPT ![p] = @ + 1]
      /\ connection_state' =
           [connection_state EXCEPT ![p] = StateAfterClose(connection_state[p])]
      /\ event' = [event EXCEPT ![p] = {}]
      /\ UNCHANGED <<done, send_ack, recv_ack, window, written, taken, closing,
                     rcvd, eof, unblocked, running>>
  BY DEF CloseRequested, InLoop, app
<1>2. /\ p # q /\ Other(q) = p /\ Linked /\ TypeOK
      /\ LinkInv(p, q) /\ LinkInv(q, p) /\ Nats(p) /\ Nats(q)
      /\ net[p] \in Seq(Segment) /\ net[q] \in Seq(Segment)
  BY <1>1, LoopFacts
<1>3. send_seq[p] \in Nat /\ recv_ack[p] \in Nat /\ taken[p] \in Nat
  BY <1>2 DEF Nats
<1>4. closing[p] = "signalled" /\ taken[p] = written[p] /\ ~FinSent(p)
  BY <1>1, <1>2 DEF LinkInv, EventInv
<1>5. connection_state[p] \in {"ESTABLISHED", "CLOSE_WAIT"}
  BY <1>1, <1>2, <1>4 DEF LinkInv, StateInv, FinSent, TypeOK, States
<1>6. /\ StateAfterClose(connection_state[p]) \in {"FIN_WAIT_1", "LAST_ACK"}
      /\ StateAfterClose(connection_state[p]) = "LAST_ACK" <=> connection_state[p] = "CLOSE_WAIT"
  BY <1>5 DEF StateAfterClose
<1> PICK seg : seg = Seg({"FIN", "ACK"}, send_seq[p], recv_ack[p], <<>>)
  OBVIOUS
<1>7. net' = [net EXCEPT ![q] = Append(net[q], seg)]
  BY DEF CloseRequested, Send
<1>8. /\ seg \in Segment /\ seg.flags = {"FIN", "ACK"} /\ seg.seq = send_seq[p]
      /\ seg.ack = recv_ack[p] /\ seg.data = <<>> /\ Size(seg) = 0
      /\ IsFin(seg) /\ ~IsPure(seg)
  BY <1>3 DEF Seg, Segment, Flags, Size, IsFin, IsPure
<1>9. SegEnd(seg) = send_seq[p] + 1
  BY <1>3, <1>8 DEF SegEnd, One
<1>10. /\ send_seq'[p] = send_seq[p] + 1 /\ send_seq'[q] = send_seq[q]
       /\ event'[p] = {} /\ event'[q] = event[q]
       /\ connection_state'[p] = StateAfterClose(connection_state[p])
       /\ connection_state'[q] = connection_state[q]
       /\ net'[q] = Append(net[q], seg) /\ net'[p] = net[p]
  BY <1>1, <1>2, <1>7 DEF TypeOK
<1>11. TypeOK'
  <2>1. Append(net[q], seg) \in Seq(Segment)
    BY <1>2, <1>8
  <2>2. send_seq' \in [Peers -> Nat] /\ event' \in [Peers -> SUBSET Events]
    BY <1>1, <1>2, SMTT(40) DEF TypeOK
  <2>3. net' \in [Peers -> Seq(Segment)]
    BY <2>1, <1>2, <1>7 DEF TypeOK
  <2>4. connection_state' \in [Peers -> States]
    BY <1>1, <1>2, <1>6 DEF TypeOK, States
  <2>. QED BY <2>2, <2>3, <2>4, <1>1, <1>2 DEF TypeOK
<1>12. Nats(p)' /\ Nats(q)'
  BY <1>11, NatsPrime
<1>13. /\ FinSent(p)' /\ FinSent(q)' = FinSent(q)
       /\ Got(p)' = Got(p) /\ Got(q)' = Got(q)
  BY <1>1, <1>6, <1>10 DEF FinSent, Got
<1>14. ~eof[q] /\ ~done[q]
  BY <1>2, <1>4 DEF LinkInv, RegisterInv, StateInv
<1>15. send_seq[p] = ISN + 1 + taken[p]
  BY <1>2, <1>3, <1>4 DEF LinkInv, RegisterInv, One, ISN
<1>16. RegisterInv(p, q)'
  <2>1. RegisterInv(p, q)
    BY <1>2 DEF LinkInv
  <2>2. send_seq'[p] = ISN + 1 + taken'[p] + One(FinSent(p)')
    BY <1>1, <1>3, <1>10, <1>13, <1>15 DEF One, ISN
  <2>3. recv_ack'[q] = ISN + 1 + Got(q)' + One(eof[q])'
    BY <2>1, <1>1, <1>13 DEF RegisterInv, One
  <2>4. recv_ack'[q] <= send_seq'[p] /\ send_ack'[p] <= recv_ack'[q]
    <3>1. recv_ack[q] <= send_seq[p] /\ send_ack[p] <= recv_ack[q]
      BY <2>1 DEF RegisterInv
    <3>2. recv_ack[q] \in Nat
      BY <1>2 DEF Nats
    <3>. QED BY <3>1, <3>2, <1>1, <1>3, <1>10
  <2>. QED BY <2>1, <2>2, <2>3, <2>4, <1>1, <1>13, <1>14 DEF RegisterInv, One
<1>17. SegmentInv(p, q, seg)'
  <2>1. SegEnd(seg)' = SegEnd(seg) /\ Size(seg)' = Size(seg) /\ IsFin(seg)' = IsFin(seg)
    BY DEF SegEnd, Size, IsFin
  <2>2. seg.data = Bytes(seg.seq - (ISN + 1), Size(seg))
    <3>1. seg.seq - (ISN + 1) = taken[p]
      BY <1>3, <1>8, <1>15 DEF ISN
    <3>. QED BY <3>1, <1>3, <1>8, BytesEmpty
  <2>3. seg.seq >= recv_ack'[q] /\ SegEnd(seg) <= send_seq'[p]
    <3>1. recv_ack[q] <= send_seq[p] /\ recv_ack[q] \in Nat
      BY <1>2 DEF LinkInv, RegisterInv, Nats
    <3>. QED BY <3>1, <1>1, <1>3, <1>8, <1>9, <1>10
  <2>4. ISN + 1 <= seg.ack /\ send_ack'[q] <= seg.ack /\ seg.ack <= recv_ack'[p]
    <3>1. recv_ack[p] = ISN + 1 + Got(p) + One(eof[p]) /\ send_ack[q] <= recv_ack[p]
      BY <1>2 DEF LinkInv, RegisterInv
    <3>2. Got(p) \in Nat /\ One(eof[p]) \in Nat
      BY <1>2 DEF Nats, One
    <3>. QED BY <3>1, <3>2, <1>1, <1>3, <1>8 DEF ISN
  <2>5. seg.seq = send_seq'[p] - 1
    BY <1>3, <1>8, <1>10
  <2>. QED BY <2>1, <2>2, <2>3, <2>4, <2>5, <1>8, <1>13 DEF SegmentInv
<1>18. FlightInv(p, q)'
  <2>1. FlightInv(p, q)
    BY <1>2 DEF LinkInv
  <2>2. /\ send_seq[p] <= send_seq'[p] /\ taken[p] <= taken'[p]
        /\ recv_ack[p] <= recv_ack'[p] /\ recv_ack'[q] = recv_ack[q]
        /\ send_ack'[q] = send_ack[q] /\ recv_ack[p] <= seg.ack
        /\ SegEnd(seg) = send_seq'[p]
    BY <1>1, <1>3, <1>8, <1>9, <1>10
  <2>. QED BY <2>1, <2>2, <1>2, <1>4, <1>8, <1>10, <1>12, <1>17, FlightAppend
<1>19. WindowInv(p)'
  BY <1>1, <1>2 DEF LinkInv, WindowInv
<1>20. StateInv(p, q)'
  BY <1>1, <1>2, <1>5, <1>6, <1>10 DEF LinkInv, StateInv
<1>21. EventInv(p)'
  BY <1>1, <1>4, <1>10, <1>13 DEF EventInv
<1>22. LinkInv(q, p)'
  <2>1. LinkInv(q, p)
    BY <1>2
  <2>2. FlightInv(q, p)'
    <3>1. FlightInv(q, p) /\ recv_ack[q] <= recv_ack'[q]
      BY <2>1, <1>1, <1>2 DEF LinkInv, Nats
    <3>. QED BY <3>1, <1>1, <1>2, <1>10, <1>12, <1>13, FlightSame
  <2>3. RegisterInv(q, p)'
    BY <2>1, <1>1, <1>10, <1>13 DEF LinkInv, RegisterInv
  <2>4. WindowInv(q)'
    BY <2>1, <1>1, <1>10 DEF LinkInv, WindowInv, Idle
  <2>5. net'[q] # <<>>
    BY <1>2, <1>8, <1>10, AppendNonEmpty
  <2>6. StateInv(q, p)'
    <3>1. Awaited(q) => Awaited(q)'
      BY <1>2, <1>8, <1>10, AwaitedKept
    <3>. QED BY <3>1, <2>1, <2>5, <1>1, <1>10, <1>14 DEF LinkInv, StateInv
  <2>7. EventInv(q)'
    BY <2>1, <2>5, <1>1, <1>10, <1>13 DEF LinkInv, EventInv
  <2>. QED BY <2>2, <2>3, <2>4, <2>6, <2>7 DEF LinkInv
<1>23. Linked'
  <2>1. connection_state[Active] \notin {"LISTEN", "SYNSENT"}
    BY <1>2 DEF Linked
  <2>2. Active = p \/ Active = q
    BY PeersLemma DEF Peers
  <2>. QED BY <2>1, <2>2, <1>6, <1>10 DEF Linked
<1>. QED
  <2>1. LinkInv(p, q)'
    BY <1>16, <1>18, <1>19, <1>20, <1>21 DEF LinkInv
  <2>. QED BY <2>1, <1>11, <1>22, <1>23, LinkedStep

-----------------------------------------------------------------------------
(* A segment arrives: NetworkData.                                         *)

\* The window after an acknowledgement moved from sa to a, when t bytes and
\* f FINs have been sent.
LEMMA WindowGrows ==
    ASSUME NEW t \in Nat, NEW f \in {0, 1}, NEW sa \in Nat, NEW a \in Nat,
           NEW w \in Nat,
           w = IF ISN + 1 + t > sa THEN Window - (ISN + 1 + t - sa) ELSE Window,
           sa <= a, a <= ISN + 1 + t + f
    PROVE  Least(Window, (w + ((a - sa) % SeqMod)) % WinMod) =
             IF ISN + 1 + t > a THEN Window - (ISN + 1 + t - a) ELSE Window
<1> DEFINE d == a - sa
<1>1. Window \in Nat /\ SeqMod \in Nat /\ WinMod \in Nat
      /\ Window + 1 < SeqMod /\ Window + 1 < WinMod
  BY SizesAssumption
<1>2. d \in Nat /\ d <= Window + 1 /\ w + d <= Window + 1
  BY <1>1 DEF ISN
<1>3. d % SeqMod = d
  <2> HIDE DEF d
  <2>1. d < SeqMod
    BY <1>1, <1>2
  <2>. QED BY <2>1, <1>1, <1>2, ModSmall
<1>4. (w + d) % WinMod = w + d
  <2> HIDE DEF d
  <2>1. w + d \in Nat /\ w + d < WinMod
    BY <1>1, <1>2
  <2>. QED BY <2>1, <1>1, ModSmall
<1>5. Least(Window, w + d) =
        IF ISN + 1 + t > a THEN Window - (ISN + 1 + t - a) ELSE Window
  <2>1. CASE ISN + 1 + t > a
    <3>1. w + d = Window - (ISN + 1 + t - a) /\ w + d < Window
      BY <2>1, <1>1 DEF ISN
    <3>. QED BY <3>1, <2>1, <1>1, <1>2 DEF Least
  <2>2. CASE ~(ISN + 1 + t > a)
    <3>1. w + d >= Window
      BY <2>2, <1>1 DEF ISN
    <3>. QED BY <3>1, <2>2, <1>1, <1>2 DEF Least
  <2>. QED BY <2>1, <2>2
<1>. QED BY <1>3, <1>4, <1>5

\* Two registers that differ by less than the modulus are equal when their
\* residues are.
LEMMA ModZero ==
    ASSUME NEW x \in Nat, NEW m \in Nat, x < m
    PROVE  x % m = 0 <=> x = 0
BY ModSmall

\* What a peer in the loop knows of the segment it is about to read.
LEMMA HeadFacts ==
    ASSUME IInv, NEW p \in Peers, NEW q \in Peers, q = Other(p), unblocked[p],
           net[p] # <<>>, NEW seg, seg = Head(net[p])
    PROVE  /\ seg \in Segment /\ SegNats(seg) /\ SegmentInv(q, p, seg)
           /\ seg = net[p][1] /\ seg.seq = recv_ack[p]
           /\ ISN + 1 <= send_ack[p] /\ send_ack[p] <= seg.ack
           /\ seg.ack <= recv_ack[q] /\ recv_ack[q] <= send_seq[p]
<1>1. /\ LinkInv(p, q) /\ LinkInv(q, p) /\ Nats(p) /\ Nats(q)
      /\ net[p] \in Seq(Segment)
  BY LoopFacts
<1>2. seg = net[p][1] /\ seg \in Segment /\ 1 \in DOMAIN net[p]
  BY <1>1
<1>3. SegNats(seg)
  BY <1>2, SegNatsLemma
<1>4. SegmentInv(q, p, seg) /\ seg.seq = recv_ack[p]
  BY <1>1, <1>2 DEF LinkInv, FlightInv, ChainInv
<1>5. ISN + 1 <= send_ack[p]
  BY <1>1 DEF LinkInv, WindowInv
<1>6. recv_ack[q] <= send_seq[p]
  BY <1>1 DEF LinkInv, RegisterInv
<1>7. send_ack[p] <= seg.ack /\ seg.ack <= recv_ack[q]
  BY <1>4 DEF SegmentInv
<1>. QED BY <1>2, <1>3, <1>4, <1>5, <1>6, <1>7

\* The comparison of 32-bit registers is exact, and an acknowledgement of
\* everything, once the FIN is sent, acknowledges the FIN.
LEMMA AckFacts ==
    ASSUME IInv, NEW p \in Peers, NEW q \in Peers, q = Other(p), unblocked[p],
           net[p] # <<>>, NEW seg, seg = Head(net[p])
    PROVE  /\ AcksAll(p, seg) <=> seg.ack = send_seq[p]
           /\ AcksAll(p, seg) /\ FinSent(p) => eof[q]
<1>1. /\ LinkInv(p, q) /\ Nats(p) /\ Nats(q)
  BY LoopFacts
<1>2. /\ SegNats(seg) /\ ISN + 1 <= send_ack[p] /\ send_ack[p] <= seg.ack
      /\ seg.ack <= recv_ack[q] /\ recv_ack[q] <= send_seq[p]
  BY HeadFacts
<1>3. /\ send_seq[p] = ISN + 1 + taken[p] + One(FinSent(p))
      /\ recv_ack[q] = ISN + 1 + Got(q) + One(eof[q])
      /\ Got(q) <= taken[p]
  BY <1>1 DEF LinkInv, RegisterInv
<1>4. window[p] = IF ISN + 1 + taken[p] > send_ack[p]
                    THEN Window - (ISN + 1 + taken[p] - send_ack[p]) ELSE Window
  BY <1>1 DEF LinkInv, WindowInv
<1>5. /\ send_seq[p] \in Nat /\ send_ack[p] \in Nat /\ recv_ack[q] \in Nat
      /\ taken[p] \in Nat /\ Got(q) \in Nat /\ window[p] \in Nat /\ seg.ack \in Nat
      /\ One(FinSent(p)) \in {0, 1} /\ One(eof[q]) \in {0, 1}
  BY <1>1, <1>2 DEF Nats, SegNats, One
<1>6. Window \in Nat /\ SeqMod \in Nat /\ Window + 1 < SeqMod
  BY SizesAssumption
<1>7. send_seq[p] - send_ack[p] <= Window + 1
  BY ONLY <1>3, <1>4, <1>5, <1>6 DEF ISN
<1>8. send_seq[p] - seg.ack \in Nat /\ send_seq[p] - seg.ack < SeqMod
  BY ONLY <1>2, <1>5, <1>6, <1>7
<1>9. AcksAll(p, seg) <=> send_seq[p] - seg.ack = 0
  BY <1>6, <1>8, ModZero DEF AcksAll
<1>10. AcksAll(p, seg) <=> seg.ack = send_seq[p]
  BY <1>5, <1>9
<1>11. AcksAll(p, seg) /\ FinSent(p) => eof[q]
  <2>1. HAVE AcksAll(p, seg) /\ FinSent(p)
  <2>2. recv_ack[q] = send_seq[p] /\ One(FinSent(p)) = 1
    BY <2>1, <1>2, <1>5, <1>10 DEF One
  <2>3. One(eof[q]) # 0
    BY ONLY <2>2, <1>3, <1>5 DEF ISN
  <2>. QED BY <2>3 DEF One
<1>. QED BY <1>10, <1>11

\* Behind a segment that ends the other stream and acknowledges all of ours
\* there is nothing: a further segment would have nothing new to say.
LEMMA LastSegment ==
    ASSUME IInv, NEW p \in Peers, NEW q \in Peers, q = Other(p), unblocked[p],
           net[p] # <<>>, NEW seg, seg = Head(net[p]),
           AcksAll(p, seg), SegEnd(seg) = send_seq[q]
    PROVE  Tail(net[p]) = <<>>
<1> DEFINE n == Len(net[p])
<1>1. /\ LinkInv(p, q) /\ LinkInv(q, p) /\ Nats(p) /\ Nats(q)
      /\ net[p] \in Seq(Segment)
  BY LoopFacts
<1>2. /\ SegNats(seg) /\ seg = net[p][1] /\ seg.ack = send_seq[p]
      /\ recv_ack[q] <= send_seq[p]
  BY HeadFacts, AckFacts
<1>3. n \in Nat /\ n >= 1 /\ DOMAIN net[p] = 1..n
  BY <1>1
<1>4. CASE n = 1
  <2>1. Tail(net[p]) \in Seq(Segment) /\ Len(Tail(net[p])) = 0
    BY <1>1, <1>4
  <2>. QED BY <2>1, EmptyLength
<1> HIDE DEF n
<1>5. CASE n # 1
  <2> PICK b : b = net[p][2]
    OBVIOUS
  <2>1. 1 \in 1..n /\ 2 \in 1..n /\ 1 < 2
    BY <1>3, <1>5
  <2>2. b \in Segment /\ SegmentInv(q, p, b)
    BY <2>1, <1>1, <1>3 DEF LinkInv, FlightInv
  <2>3. SegNats(b)
    BY <2>2, SegNatsLemma
  <2>4. SegEnd(seg) <= b.seq /\ (IsPure(b) => seg.ack < b.ack)
    BY <2>1, <1>1, <1>2, <1>3 DEF LinkInv, FlightInv, ChainInv, n
  <2>5. SegEnd(b) <= send_seq[q] /\ b.ack <= recv_ack[q]
    BY <2>2 DEF SegmentInv
  <2>6. send_seq[q] \in Nat /\ send_seq[p] \in Nat /\ recv_ack[q] \in Nat
    BY <1>1 DEF Nats
  <2>7. IsPure(b)
    BY <2>3, <2>4, <2>5, <2>6 DEF IsPure, SegNats
  <2>8. seg.ack < b.ack /\ b.ack <= seg.ack /\ b.ack \in Nat /\ seg.ack \in Nat
    BY <2>3, <2>4, <2>5, <2>6, <2>7, <1>2, SMTT(40) DEF SegNats
  <2>. QED BY <2>8
<1>. QED BY <1>4, <1>5

\* Receiving the FIN (lines 257-285) keeps the invariant, in every state.
LEMMA OnFinStep ==
    ASSUME IInv, NEW p \in Peers, NEW q \in Peers, q = Other(p), unblocked[p],
           "APP_DATA" \notin event[p], "NETWORK_DATA" \in event[p],
           NEW seg, seg = Head(net[p]), IsFin(seg), OnFin(p, seg),
           UNCHANGED <<written, taken, closing, unblocked, running>>
    PROVE  IInv'
<1>1. /\ p # q /\ Other(q) = p /\ Linked /\ TypeOK
      /\ LinkInv(p, q) /\ LinkInv(q, p) /\ Nats(p) /\ Nats(q)
      /\ net[p] \in Seq(Segment) /\ net[q] \in Seq(Segment)
  BY LoopFacts
<1>2. net[p] # <<>>
  BY <1>1 DEF LinkInv, EventInv
<1>3. /\ seg \in Segment /\ SegNats(seg) /\ SegmentInv(q, p, seg)
      /\ seg = net[p][1] /\ seg.seq = recv_ack[p]
      /\ ISN + 1 <= send_ack[p] /\ send_ack[p] <= seg.ack
      /\ seg.ack <= recv_ack[q] /\ recv_ack[q] <= send_seq[p]
  BY <1>2, HeadFacts
<1>4. /\ seg.flags = {"FIN", "ACK"} /\ seg.data = <<>> /\ Size(seg) = 0
      /\ FinSent(q) /\ seg.seq = send_seq[q] - 1
  BY <1>3 DEF SegmentInv, SegNats, IsFin
<1>5. /\ send_seq[p] \in Nat /\ recv_ack[p] \in Nat /\ send_seq[q] \in Nat
      /\ recv_ack[q] \in Nat /\ Got(p) \in Nat
  BY <1>1 DEF Nats
<1>6. SegEnd(seg) = send_seq[q] /\ recv_ack[p] + 1 = send_seq[q]
  BY <1>3, <1>4, <1>5 DEF SegNats
<1>7. ~eof[p]
  <2>1. eof[p] => recv_ack[p] = send_seq[q]
    BY <1>1 DEF LinkInv, RegisterInv
  <2>. QED BY <2>1, <1>5, <1>6
<1>8. /\ connection_state[p] \in {"ESTABLISHED", "FIN_WAIT_1", "FIN_WAIT_2"}
      /\ ~done[p]
  BY <1>1, <1>7 DEF LinkInv, StateInv, TypeOK, States
<1>9. PICK state : state = StateAfterFin(connection_state[p], AcksAll(p, seg))
  OBVIOUS
<1>10. /\ connection_state[p] = "ESTABLISHED" => state = "CLOSE_WAIT"
       /\ connection_state[p] = "FIN_WAIT_1" /\ AcksAll(p, seg) => state = "CLOSED"
       /\ connection_state[p] = "FIN_WAIT_1" /\ ~AcksAll(p, seg) => state = "CLOSING"
       /\ connection_state[p] = "FIN_WAIT_2" => state = "CLOSED"
  BY <1>8, <1>9 DEF StateAfterFin
<1> PICK rep : rep = Seg({"ACK"}, send_seq[p], seg.seq + 1, <<>>)
  OBVIOUS
<1>11. /\ eof' = [eof EXCEPT ![p] = TRUE]
       /\ connection_state' = [connection_state EXCEPT ![p] = state]
       /\ done' = [done EXCEPT ![p] = state = "CLOSED"]
       /\ net' = [net EXCEPT ![p] = Tail(net[p]), ![q] = Append(net[q], rep)]
       /\ recv_ack' = [recv_ack EXCEPT ![p] = recv_ack[p] + 1]
       /\ event' = [event EXCEPT ![p] = event[p] \ {"NETWORK_DATA"}]
       /\ UNCHANGED <<send_seq, send_ack, window, rcvd>>
  <2>1. StateAfterFin(connection_state[p], AcksAll(p, seg) /\ "ACK" \in seg.flags) = state
    BY <1>4, <1>9 DEF StateAfterFin
  <2>2. /\ eof' = [eof EXCEPT ![p] = TRUE]
        /\ connection_state' = [connection_state EXCEPT ![p] = state]
        /\ done' = [done EXCEPT ![p] =
             done[p] \/ (state = "CLOSED" /\ connection_state[p] # "CLOSED")]
        /\ Reply(p, rep)
        /\ recv_ack' = [recv_ack EXCEPT ![p] = recv_ack[p] + 1]
        /\ event' = [event EXCEPT ![p] = event[p] \ {"NETWORK_DATA"}]
        /\ UNCHANGED <<send_seq, send_ack, window, rcvd>>
    BY <2>1 DEF OnFin
  <2>3. (done[p] \/ (state = "CLOSED" /\ connection_state[p] # "CLOSED")) = (state = "CLOSED")
    BY <1>8
  <2>4. net' = [net EXCEPT ![p] = Tail(net[p]), ![q] = Append(net[q], rep)]
    BY <2>2, <1>1 DEF Reply
  <2>. QED BY <2>2, <2>3, <2>4
<1>12. /\ rep \in Segment /\ rep.flags = {"ACK"} /\ rep.seq = send_seq[p]
       /\ rep.ack = recv_ack[p] + 1 /\ rep.data = <<>> /\ Size(rep) = 0
       /\ ~IsFin(rep)
  BY <1>3, <1>5 DEF Seg, Segment, Flags, Size, IsFin
<1>13. SegEnd(rep) = send_seq[p]
  BY <1>5, <1>12 DEF SegEnd, One
<1>14. /\ eof'[p] /\ eof'[q] = eof[q]
       /\ connection_state'[p] = state /\ connection_state'[q] = connection_state[q]
       /\ done'[p] = (state = "CLOSED") /\ done'[q] = done[q]
       /\ net'[p] = Tail(net[p]) /\ net'[q] = Append(net[q], rep)
       /\ recv_ack'[p] = recv_ack[p] + 1 /\ recv_ack'[q] = recv_ack[q]
       /\ event'[p] = event[p] \ {"NETWORK_DATA"} /\ event'[q] = event[q]
  BY <1>1, <1>11 DEF TypeOK
<1>15. TypeOK'
  <2>1. Append(net[q], rep) \in Seq(Segment) /\ Tail(net[p]) \in Seq(Segment)
    BY <1>1, <1>2, <1>12
  <2>2. net' \in [Peers -> Seq(Segment)]
    BY <2>1, <1>1, <1>11 DEF TypeOK
  <2>3. recv_ack' \in [Peers -> Nat] /\ event' \in [Peers -> SUBSET Events]
    <3>1. recv_ack[p] + 1 \in Nat /\ event[p] \ {"NETWORK_DATA"} \in SUBSET Events
      BY <1>1, <1>5, SMTT(40) DEF TypeOK
    <3>. QED BY <3>1, <1>1, <1>11 DEF TypeOK
  <2>4. connection_state' \in [Peers -> States]
    <3>1. state \in States
      BY <1>8, <1>10 DEF States
    <3>. QED BY <3>1, <1>1, <1>11 DEF TypeOK
  <2>5. eof' \in [Peers -> BOOLEAN] /\ done' \in [Peers -> BOOLEAN]
    BY <1>1, <1>11 DEF TypeOK
  <2>. QED BY <2>2, <2>3, <2>4, <2>5, <1>1, <1>11 DEF TypeOK
<1>16. Nats(p)' /\ Nats(q)'
  BY <1>15, NatsPrime
<1>17. /\ FinSent(p)' = FinSent(p) /\ FinSent(q)' = FinSent(q)
       /\ Got(p)' = Got(p) /\ Got(q)' = Got(q)
  BY <1>8, <1>10, <1>11, <1>14 DEF FinSent, Got
<1>18. RegisterInv(q, p)'
  <2>1. RegisterInv(q, p)
    BY <1>1 DEF LinkInv
  <2>2. recv_ack'[p] = ISN + 1 + Got(p)' + One(eof[p])'
    <3>1. recv_ack[p] = ISN + 1 + Got(p) + 0
      BY <2>1, <1>7 DEF RegisterInv, One
    <3>. QED BY <3>1, <1>5, <1>14, <1>17 DEF One, ISN
  <2>3. recv_ack'[p] <= send_seq'[q] /\ send_ack'[q] <= recv_ack'[p]
    <3>1. send_ack[q] <= recv_ack[p] /\ send_ack[q] \in Nat
      BY <2>1, <1>1 DEF RegisterInv, Nats
    <3>. QED BY <3>1, <1>5, <1>6, <1>11, <1>14
  <2>. QED BY <2>1, <2>2, <2>3, <1>4, <1>6, <1>11, <1>14, <1>17 DEF RegisterInv, One
<1>19. RegisterInv(p, q)'
  BY <1>1, <1>11, <1>14, <1>17 DEF LinkInv, RegisterInv
<1>20. SegmentInv(p, q, rep)'
  <2>1. SegEnd(rep)' = SegEnd(rep) /\ Size(rep)' = Size(rep) /\ IsFin(rep)' = IsFin(rep)
    BY DEF SegEnd, Size, IsFin
  <2>2. rep.data = Bytes(rep.seq - (ISN + 1), Size(rep))
    <3>1. send_seq[p] = ISN + 1 + taken[p] + One(FinSent(p)) /\ taken[p] \in Nat
      BY <1>1 DEF LinkInv, RegisterInv, Nats
    <3>2. rep.seq - (ISN + 1) \in Nat
      BY <3>1, <1>12, SMTT(40) DEF One, ISN
    <3>. QED BY <3>2, <1>12, BytesEmpty
  <2>3. rep.seq >= recv_ack'[q] /\ SegEnd(rep) <= send_seq'[p]
    BY <1>3, <1>5, <1>11, <1>12, <1>13, <1>14
  <2>4. ISN + 1 <= rep.ack /\ send_ack'[q] <= rep.ack /\ rep.ack <= recv_ack'[p]
    <3>1. recv_ack[p] = ISN + 1 + Got(p) + One(eof[p]) /\ send_ack[q] <= recv_ack[p]
      BY <1>1 DEF LinkInv, RegisterInv
    <3>2. send_ack[q] \in Nat /\ One(eof[p]) \in Nat
      BY <1>1 DEF Nats, One
    <3>. QED BY <3>1, <3>2, <1>5, <1>11, <1>12, <1>14, SMTT(40) DEF ISN
  <2>. QED BY <2>1, <2>2, <2>3, <2>4, <1>12 DEF SegmentInv
<1>21. FlightInv(p, q)'
  <2>1. FlightInv(p, q)
    BY <1>1 DEF LinkInv
  <2>2. /\ send_seq[p] <= send_seq'[p] /\ taken[p] <= taken'[p]
        /\ recv_ack[p] <= recv_ack'[p] /\ recv_ack'[q] = recv_ack[q]
        /\ send_ack'[q] = send_ack[q] /\ recv_ack[p] < rep.ack /\ recv_ack[p] <= rep.ack
        /\ SegEnd(rep) = send_seq'[p] /\ send_seq'[p] = send_seq[p]
    <3>1. taken[p] \in Nat
      BY <1>1 DEF Nats
    <3>2. recv_ack[p] <= recv_ack'[p] /\ recv_ack[p] < rep.ack /\ recv_ack[p] <= rep.ack
      BY <1>5, <1>12, <1>14
    <3>. QED BY <3>1, <3>2, <1>5, <1>11, <1>13, <1>14
  <2>. QED BY <2>1, <2>2, <1>1, <1>12, <1>14, <1>16, <1>17, <1>20, FlightAppend
<1>22. FlightInv(q, p)'
  <2>1. FlightInv(q, p)
    BY <1>1 DEF LinkInv
  <2>2. recv_ack'[p] = SegEnd(net[p][1])
    BY <1>3, <1>6, <1>14
  <2>. QED BY <2>1, <2>2, <1>1, <1>2, <1>11, <1>14, <1>16, <1>17, FlightTail
<1>23. WindowInv(p)'
  BY <1>1, <1>11 DEF LinkInv, WindowInv
<1>24. WindowInv(q)'
  BY <1>1, <1>11, <1>14 DEF LinkInv, WindowInv, Idle
<1>25. EventInv(p)'
  BY <1>1, <1>11, <1>14, <1>17 DEF LinkInv, EventInv
<1>26. net'[q] # <<>>
  BY <1>1, <1>12, <1>14, AppendNonEmpty
<1>27. EventInv(q)'
  BY <1>1, <1>11, <1>14, <1>17, <1>26 DEF LinkInv, EventInv
<1>28. StateInv(q, p)'
  <2>1. StateInv(q, p)
    BY <1>1 DEF LinkInv
  <2>2. ~done[q] /\ connection_state[q] # "FIN_WAIT_2"
    BY <2>1, <1>7 DEF StateInv
  <2>3. Awaited(q) => Awaited(q)'
    BY <1>1, <1>12, <1>14, AwaitedKept
  <2>. QED BY <2>1, <2>2, <2>3, <1>11, <1>14, <1>26 DEF StateInv
<1>29. state = "CLOSED" => eof[q] /\ event'[p] = {} /\ net'[p] = <<>>
  <2>1. HAVE state = "CLOSED"
  <2>2. connection_state[p] \in {"FIN_WAIT_1", "FIN_WAIT_2"} /\ FinSent(p)
    BY <2>1, <1>8, <1>10 DEF FinSent
  <2>3. AcksAll(p, seg)
    <3>1. CASE connection_state[p] = "FIN_WAIT_1"
      BY <3>1, <2>1, <1>10
    <3>2. CASE connection_state[p] = "FIN_WAIT_2"
      <4>1. send_ack[p] = send_seq[p]
        BY <3>2, <1>1 DEF LinkInv, StateInv
      <4>2. seg.ack = send_seq[p]
        BY <4>1, <1>3, <1>5 DEF SegNats
      <4>. QED BY <4>2, <1>2, AckFacts
    <3>. QED BY <3>1, <3>2, <2>2
  <2>4. eof[q]
    BY <2>2, <2>3, <1>2, AckFacts
  <2>5. net'[p] = <<>>
    BY <2>3, <1>2, <1>6, <1>14, LastSegment
  <2>6. event'[p] = {}
    <3>1. "APP_CLOSE_REQUESTED" \notin event[p]
      BY <2>2, <1>1 DEF LinkInv, EventInv
    <3>2. event[p] \subseteq Events
      BY <1>1 DEF TypeOK
    <3>. QED BY <3>1, <3>2, <1>14 DEF Events
  <2>. QED BY <2>4, <2>5, <2>6
<1>30. StateInv(p, q)'
  <2>1. StateInv(p, q)
    BY <1>1 DEF LinkInv
  <2>. QED BY <2>1, <1>8, <1>10, <1>11, <1>14, <1>29 DEF StateInv
<1>31. Linked'
  <2>1. connection_state[Active] \notin {"LISTEN", "SYNSENT"}
    BY <1>1 DEF Linked
  <2>2. Active = p \/ Active = q
    BY PeersLemma DEF Peers
  <2>. QED BY <2>1, <2>2, <1>8, <1>10, <1>14 DEF Linked
<1>32. LinkInv(p, q)'
  BY <1>19, <1>21, <1>23, <1>25, <1>30 DEF LinkInv
<1>33. LinkInv(q, p)'
  BY <1>18, <1>22, <1>24, <1>27, <1>28 DEF LinkInv
<1>. QED BY <1>15, <1>31, <1>32, <1>33, LinkedStep

\* Receiving an ACK, with data or without (lines 222-255), keeps the
\* invariant.
LEMMA OnAckStep ==
    ASSUME IInv, NEW p \in Peers, NEW q \in Peers, q = Other(p), unblocked[p],
           "APP_DATA" \notin event[p], "NETWORK_DATA" \in event[p],
           NEW seg, seg = Head(net[p]), ~IsFin(seg), OnAck(p, seg),
           UNCHANGED <<written, taken, closing, unblocked, running>>
    PROVE  IInv'
<1>1. /\ p # q /\ Other(q) = p /\ Linked /\ TypeOK
      /\ LinkInv(p, q) /\ LinkInv(q, p) /\ Nats(p) /\ Nats(q)
      /\ net[p] \in Seq(Segment) /\ net[q] \in Seq(Segment)
  BY LoopFacts
<1>2. net[p] # <<>>
  BY <1>1 DEF LinkInv, EventInv
<1>3. /\ seg \in Segment /\ SegNats(seg) /\ SegmentInv(q, p, seg)
      /\ seg = net[p][1] /\ seg.seq = recv_ack[p]
      /\ ISN + 1 <= send_ack[p] /\ send_ack[p] <= seg.ack
      /\ seg.ack <= recv_ack[q] /\ recv_ack[q] <= send_seq[p]
  BY <1>2, HeadFacts
<1> PICK n : n = Size(seg)
  OBVIOUS
<1>4. /\ send_seq[p] \in Nat /\ recv_ack[p] \in Nat /\ send_seq[q] \in Nat
      /\ recv_ack[q] \in Nat /\ Got(p) \in Nat /\ n \in Nat /\ seg.ack \in Nat
      /\ taken[q] \in Nat /\ taken[p] \in Nat
  BY <1>1, <1>3 DEF Nats, SegNats
<1>5. SegEnd(seg) = recv_ack[p] + n /\ recv_ack[p] + n <= send_seq[q]
      /\ (seg.data = <<>> <=> n = 0) /\ seg.data = Bytes(recv_ack[p] - (ISN + 1), n)
      /\ (n # 0 => recv_ack[p] + n <= ISN + 1 + taken[q])
  BY <1>3 DEF SegmentInv, SegNats
<1>6. recv_ack[p] = ISN + 1 + Got(p) + One(eof[p])
  BY <1>1 DEF LinkInv, RegisterInv
<1>7. eof[p] => n = 0
  <2>1. eof[p] => recv_ack[p] = send_seq[q]
    BY <1>1 DEF LinkInv, RegisterInv
  <2>. QED BY <2>1, <1>4, <1>5
<1>8. ~done[p]
  BY <1>1 DEF LinkInv, StateInv
<1> PICK state : state = StateAfterAck(connection_state[p], AcksAll(p, seg))
  OBVIOUS
<1>9. /\ AcksAll(p, seg) /\ connection_state[p] \in {"LAST_ACK", "CLOSING"} =>
           state = "CLOSED"
      /\ AcksAll(p, seg) /\ connection_state[p] = "FIN_WAIT_1" => state = "FIN_WAIT_2"
      /\ ~AcksAll(p, seg) => state = connection_state[p]
      /\ connection_state[p] \notin {"LAST_ACK", "CLOSING", "FIN_WAIT_1"} =>
           state = connection_state[p]
  BY DEF StateAfterAck
<1>10. connection_state[p] # "CLOSED"
  BY <1>1, <1>8 DEF LinkInv, StateInv
<1>11. state = "CLOSED" <=>
         connection_state[p] \in {"LAST_ACK", "CLOSING"} /\ AcksAll(p, seg)
  BY <1>9, <1>10
<1> PICK w : w = GrownWindow(p, seg)
  OBVIOUS
<1> PICK ev : ev = IF connection_state[p] = "LAST_ACK" /\ AcksAll(p, seg)
                     THEN {} ELSE event[p] \ {"NETWORK_DATA"}
  OBVIOUS
<1> PICK rep : rep = Seg({"ACK"}, send_seq[p], seg.seq + Len(seg.data), <<>>)
  OBVIOUS
<1>12. /\ rcvd' = [rcvd EXCEPT ![p] = rcvd[p] \o seg.data]
       /\ recv_ack' = [recv_ack EXCEPT ![p] = recv_ack[p] + n]
       /\ window' = [window EXCEPT ![p] = w]
       /\ send_ack' = [send_ack EXCEPT ![p] = seg.ack]
       /\ connection_state' = [connection_state EXCEPT ![p] = state]
       /\ done' = [done EXCEPT ![p] = state = "CLOSED"]
       /\ event' = [event EXCEPT ![p] = ev]
       /\ UNCHANGED <<send_seq, eof>>
  <2>1. done' = [done EXCEPT ![p] =
          done[p] \/ (connection_state[p] \in {"LAST_ACK", "CLOSING"} /\ AcksAll(p, seg))]
    BY DEF OnAck
  <2>2. (done[p] \/ (connection_state[p] \in {"LAST_ACK", "CLOSING"} /\ AcksAll(p, seg)))
          = (state = "CLOSED")
    BY <1>8, <1>11
  <2>. QED BY <2>1, <2>2 DEF OnAck, Size
<1>12a. send_seq' = send_seq /\ eof' = eof
  BY <1>12
<1>13. /\ n = 0 => net' = [net EXCEPT ![p] = Tail(net[p])]
       /\ n # 0 => net' = [net EXCEPT ![p] = Tail(net[p]), ![q] = Append(net[q], rep)]
  BY <1>1, <1>5 DEF OnAck, Consume, Reply
<1>14. /\ rep \in Segment /\ rep.flags = {"ACK"} /\ rep.seq = send_seq[p]
       /\ rep.ack = recv_ack[p] + n /\ rep.data = <<>> /\ Size(rep) = 0
       /\ ~IsFin(rep)
  BY <1>3, <1>4, SMTT(40) DEF Seg, Segment, Flags, Size, IsFin
<1>15. SegEnd(rep) = send_seq[p]
  BY <1>4, <1>14 DEF SegEnd, One
<1>16. w \in 0..Window /\
       w = IF ISN + 1 + taken[p] > seg.ack
             THEN Window - (ISN + 1 + taken[p] - seg.ack) ELSE Window
  <2> PICK f : f = One(FinSent(p))
    OBVIOUS
  <2>1. /\ window[p] \in Nat /\ send_ack[p] \in Nat /\ f \in {0, 1} /\ Window \in Nat
        /\ send_seq[p] = ISN + 1 + taken[p] + f
        /\ window[p] = IF ISN + 1 + taken[p] > send_ack[p]
                         THEN Window - (ISN + 1 + taken[p] - send_ack[p]) ELSE Window
    BY <1>1, SizesAssumption DEF LinkInv, RegisterInv, WindowInv, Nats, One
  <2>2. seg.ack <= ISN + 1 + taken[p] + f
    <3>1. seg.ack <= send_seq[p]
      BY <1>3, <1>4
    <3>. QED BY <3>1, <2>1
  <2>3. w = IF ISN + 1 + taken[p] > seg.ack
             THEN Window - (ISN + 1 + taken[p] - seg.ack) ELSE Window
    <3>1. send_ack[p] <= seg.ack
      BY <1>3
    <3>2. Least(Window, (window[p] + ((seg.ack - send_ack[p]) % SeqMod)) % WinMod) =
            IF ISN + 1 + taken[p] > seg.ack
              THEN Window - (ISN + 1 + taken[p] - seg.ack) ELSE Window
      BY ONLY <3>1, <2>1, <2>2, <1>4, WindowGrows
    <3>. QED BY <3>2 DEF GrownWindow
  <2>4. w \in 0..Window
    <3>1. send_ack[p] <= seg.ack
      BY <1>3
    <3>. QED BY ONLY <3>1, <2>1, <2>3, <1>4 DEF ISN
  <2>. QED BY <2>3, <2>4
<1>17. /\ connection_state'[p] = state /\ connection_state'[q] = connection_state[q]
       /\ done'[p] = (state = "CLOSED") /\ done'[q] = done[q]
       /\ event'[p] = ev /\ event'[q] = event[q]
  BY <1>1, <1>12 DEF TypeOK
<1>18. /\ recv_ack'[p] = recv_ack[p] + n /\ recv_ack'[q] = recv_ack[q]
       /\ send_ack'[p] = seg.ack /\ send_ack'[q] = send_ack[q]
       /\ window'[p] = w /\ window'[q] = window[q]
       /\ rcvd'[p] = rcvd[p] \o seg.data /\ rcvd'[q] = rcvd[q]
  BY <1>1, <1>12 DEF TypeOK
<1>19. /\ net'[p] = Tail(net[p])
       /\ n = 0 => net'[q] = net[q]
       /\ n # 0 => net'[q] = Append(net[q], rep)
  BY <1>1, <1>13 DEF TypeOK
<1>20. TypeOK'
  <2>1. Append(net[q], rep) \in Seq(Segment) /\ Tail(net[p]) \in Seq(Segment)
    BY <1>1, <1>2, <1>14
  <2>2. net' \in [Peers -> Seq(Segment)]
    <3>1. net \in [Peers -> Seq(Segment)]
      BY <1>1 DEF TypeOK
    <3>2. CASE n = 0
      BY <3>1, <3>2, <2>1, <1>13
    <3>3. CASE n # 0
      BY <3>1, <3>3, <2>1, <1>13
    <3>. QED BY <3>2, <3>3
  <2>3. recv_ack' \in [Peers -> Nat] /\ send_ack' \in [Peers -> Nat]
        /\ window' \in [Peers -> 0..Window]
    <3>1. recv_ack[p] + n \in Nat
      BY <1>4
    <3>. QED BY <3>1, <1>1, <1>4, <1>12, <1>16 DEF TypeOK
  <2>4. event' \in [Peers -> SUBSET Events]
    <3>1. ev \in SUBSET Events
      BY <1>1 DEF TypeOK
    <3>. QED BY <3>1, <1>1, <1>12 DEF TypeOK
  <2>5. connection_state' \in [Peers -> States] /\ done' \in [Peers -> BOOLEAN]
    <3>1. state \in States
      BY <1>1, <1>9 DEF States, TypeOK
    <3>. QED BY <3>1, <1>1, <1>12 DEF TypeOK
  <2>6. rcvd' \in [Peers -> Seq(Nat)]
    <3>1. rcvd[p] \o seg.data \in Seq(Nat)
      BY <1>1, <1>3, SMTT(40) DEF TypeOK, Segment
    <3>. QED BY <3>1, <1>1, <1>12 DEF TypeOK
  <2>. QED BY <2>2, <2>3, <2>4, <2>5, <2>6, <1>1, <1>12 DEF TypeOK
<1>21. Nats(p)' /\ Nats(q)'
  BY <1>20, NatsPrime
<1>22. Got(p)' = Got(p) + n /\ Got(q)' = Got(q)
  <2>1. Len(rcvd[p] \o seg.data) = Len(rcvd[p]) + Len(seg.data)
    BY <1>1, <1>3 DEF TypeOK, Segment
  <2>. QED BY <2>1, <1>18 DEF Got, Size
<1>23. FinSent(p)' = FinSent(p) /\ FinSent(q)' = FinSent(q)
  BY <1>9, <1>17 DEF FinSent
<1>24. RegisterInv(q, p)'
  <2>1. RegisterInv(q, p)
    BY <1>1 DEF LinkInv
  <2>2. One(eof[p]) \in Nat
    BY DEF One
  <2>3. recv_ack'[p] = ISN + 1 + Got(p)' + One(eof[p])'
    <3>1. recv_ack'[p] = recv_ack[p] + n /\ Got(p)' = Got(p) + n
      BY <1>18, <1>22
    <3>2. One(eof[p])' = One(eof[p])
      BY <1>12a
    <3>. QED BY ONLY <3>1, <3>2, <2>2, <1>4, <1>6 DEF ISN
  <2>4. recv_ack'[p] <= send_seq'[q]
    BY <1>5, <1>12, <1>18
  <2>5. send_ack'[q] <= recv_ack'[p]
    <3>1. send_ack[q] <= recv_ack[p] /\ send_ack[q] \in Nat
      BY <2>1, <1>1 DEF RegisterInv, Nats
    <3>. QED BY <3>1, <1>4, <1>18
  <2>6. Got(p)' <= taken'[q] /\ taken'[q] <= written'[q]
    <3>1. Got(p) <= taken[q] /\ taken[q] <= written[q]
      BY <2>1 DEF RegisterInv
    <3>2. CASE n = 0
      BY <3>1, <3>2, <1>4, <1>22
    <3>3. CASE n # 0
      <4>1. ISN + 1 + Got(p) + One(eof[p]) + n <= ISN + 1 + taken[q]
        BY <3>3, <1>5, <1>6
      <4>2. Got(p) + n <= taken[q]
        BY ONLY <4>1, <2>2, <1>4 DEF ISN
      <4>. QED BY <4>2, <3>1, <1>22
    <3>. QED BY <3>2, <3>3
  <2>7. rcvd'[p] = Bytes(0, Got(p) + n)
    <3>1. rcvd[p] = Bytes(0, Got(p))
      BY <2>1 DEF RegisterInv
    <3>2. seg.data = Bytes(Got(p), n)
      <4>1. CASE n = 0
        BY <4>1, <1>4, <1>5, BytesEmpty
      <4>2. CASE n # 0
        <5>1. recv_ack[p] - (ISN + 1) = Got(p)
          BY <4>2, <1>4, <1>6, <1>7 DEF ISN, One
        <5>. QED BY <5>1, <1>5
      <4>. QED BY <4>1, <4>2
    <3>3. Bytes(0, Got(p)) \o Bytes(Got(p), n) = Bytes(0, Got(p) + n)
      BY <1>4, BytesConcat
    <3>. QED BY <3>1, <3>2, <3>3, <1>18
  <2>8. eof[p] => FinSent(q) /\ recv_ack'[p] = send_seq[q]
    <3>1. HAVE eof[p]
    <3>2. FinSent(q) /\ recv_ack[p] = send_seq[q]
      BY <3>1, <2>1 DEF RegisterInv
    <3>3. recv_ack'[p] = recv_ack[p]
      BY <3>1, <1>4, <1>7, <1>18
    <3>. QED BY <3>2, <3>3
  <2>. QED BY <2>1, <2>3, <2>4, <2>5, <2>6, <2>7, <2>8, <1>12, <1>18, <1>22, <1>23
              DEF RegisterInv
<1>25. RegisterInv(p, q)'
  <2>1. RegisterInv(p, q)
    BY <1>1 DEF LinkInv
  <2>. QED BY <2>1, <1>3, <1>12, <1>18, <1>22, <1>23 DEF RegisterInv
<1>26. recv_ack[p] <= recv_ack'[p] /\ send_seq[p] <= send_seq'[p] /\ taken[p] <= taken'[p]
  <2>1. recv_ack'[p] = recv_ack[p] + n /\ send_seq'[p] = send_seq[p] /\ taken'[p] = taken[p]
    BY <1>12a, <1>18
  <2>. QED BY ONLY <2>1, <1>4
<1>27. FlightInv(p, q)'
  <2>1. FlightInv(p, q)
    BY <1>1 DEF LinkInv
  <2>2. CASE n = 0
    BY <2>1, <2>2, <1>1, <1>12, <1>18, <1>19, <1>21, <1>23, <1>26, FlightSame
  <2>3. CASE n # 0
    <3>1. recv_ack[p] < rep.ack /\ recv_ack[p] <= rep.ack
      BY <2>3, <1>4, <1>14
    <3>2. SegmentInv(p, q, rep)'
      <4>1. SegEnd(rep)' = SegEnd(rep) /\ Size(rep)' = Size(rep) /\ IsFin(rep)' = IsFin(rep)
        BY DEF SegEnd, Size, IsFin
      <4>2. rep.data = Bytes(rep.seq - (ISN + 1), Size(rep))
        <5>1. send_seq[p] = ISN + 1 + taken[p] + One(FinSent(p))
          BY <1>1 DEF LinkInv, RegisterInv
        <5>2. rep.seq - (ISN + 1) \in Nat
          BY <5>1, <1>4, <1>14, SMTT(40) DEF One, ISN
        <5>3. Bytes(rep.seq - (ISN + 1), 0) = <<>>
          BY <5>2, BytesEmpty
        <5>4. rep.data = <<>> /\ Size(rep) = 0
          BY <1>14
        <5>. QED BY ONLY <5>3, <5>4
      <4>3. rep.seq >= recv_ack'[q] /\ SegEnd(rep) <= send_seq'[p]
        <5>1. send_seq'[p] = send_seq[p] /\ send_seq[p] \in Nat
          BY <1>4, <1>12
        <5>2. rep.seq >= recv_ack'[q]
          BY <1>3, <1>4, <1>14, <1>18
        <5>. QED BY <5>1, <5>2, <1>15
      <4>4. ISN + 1 <= rep.ack /\ send_ack'[q] <= rep.ack /\ rep.ack <= recv_ack'[p]
        <5>1. send_ack[q] <= recv_ack[p]
          BY <1>1 DEF LinkInv, RegisterInv
        <5>2. send_ack[q] \in Nat /\ One(eof[p]) \in Nat
          BY <1>1 DEF Nats, One
        <5>. QED BY <5>1, <5>2, <1>4, <1>6, <1>14, <1>18, SMTT(40) DEF ISN
      <4>. QED BY <4>1, <4>2, <4>3, <4>4, <1>14 DEF SegmentInv
    <3>3. SegEnd(rep) = send_seq'[p] /\ send_seq'[p] = send_seq[p]
      BY <1>12, <1>15
    <3>. QED BY <2>1, <2>3, <3>1, <3>2, <3>3, <1>1, <1>14, <1>18, <1>19, <1>21, <1>23,
                <1>26, FlightAppend
  <2>. QED BY <2>2, <2>3
<1>28. FlightInv(q, p)'
  <2>1. FlightInv(q, p)
    BY <1>1 DEF LinkInv
  <2>2. recv_ack'[p] = SegEnd(net[p][1]) /\ send_ack'[p] = net[p][1].ack
    BY <1>3, <1>5, <1>18
  <2>3. net[p] \in Seq(Segment) /\ net[p] # <<>> /\ Nats(p) /\ Nats(q) /\ Nats(p)' /\ Nats(q)'
    BY <1>1, <1>2, <1>21
  <2>4. net'[p] = Tail(net[p]) /\ (FinSent(q) => FinSent(q)')
    BY <1>19, <1>23
  <2>5. send_seq'[q] = send_seq[q] /\ taken'[q] = taken[q] /\ recv_ack'[q] = recv_ack[q]
    BY <1>12, <1>18
  <2>. QED BY <2>1, <2>2, <2>3, <2>4, <2>5, FlightTail
<1>29. WindowInv(p)'
  <2>1. ISN + 1 <= seg.ack
    BY <1>3 DEF SegmentInv
  <2>. QED BY <2>1, <1>16, <1>18 DEF WindowInv
<1>30. WindowInv(q)'
  <2>1. WindowInv(q)
    BY <1>1 DEF LinkInv
  <2>2. /\ send_ack'[q] = send_ack[q] /\ window'[q] = window[q] /\ rcvd'[q] = rcvd[q]
        /\ done'[q] = done[q] /\ event'[q] = event[q] /\ eof'[q] = eof[q]
    BY <1>12a, <1>17, <1>18
  <2>. QED BY <2>1, <2>2 DEF WindowInv, Idle
<1>31. EventInv(p)'
  <2>1. EventInv(p)
    BY <1>1 DEF LinkInv
  <2>2. /\ "NETWORK_DATA" \notin ev /\ "APP_DATA" \notin ev
        /\ connection_state[p] # "LAST_ACK" =>
             ("APP_CLOSE_REQUESTED" \in ev <=> "APP_CLOSE_REQUESTED" \in event[p])
        /\ "APP_CLOSE_REQUESTED" \in ev => "APP_CLOSE_REQUESTED" \in event[p]
    OBVIOUS
  <2>3. connection_state[p] = "LAST_ACK" => FinSent(p)
    BY DEF FinSent
  <2>. QED BY <2>1, <2>2, <2>3, <1>17, <1>23 DEF EventInv
<1>32. net[q] # <<>> => net'[q] # <<>>
  BY <1>1, <1>14, <1>19, AppendNonEmpty
<1>33. EventInv(q)'
  BY <1>1, <1>12, <1>17, <1>23, <1>32 DEF LinkInv, EventInv
<1>34. StateInv(q, p)'
  <2>1. StateInv(q, p)
    BY <1>1 DEF LinkInv
  <2>2. done[q] => net'[q] = net[q]
    BY <2>1, <1>7, <1>19 DEF StateInv
  <2>3. send_ack'[q] = send_ack[q] /\ send_seq'[q] = send_seq[q]
    BY <1>12, <1>18
  <2>4. Awaited(q) => Awaited(q)'
    BY <1>1, <1>14, <1>19, AwaitedKept
  <2>. QED BY <2>1, <2>2, <2>3, <2>4, <1>12, <1>17, <1>32 DEF StateInv
<1>35. state = "CLOSED" => eof[q] /\ event'[p] = {} /\ net'[p] = <<>>
  <2>1. HAVE state = "CLOSED"
  <2>2. connection_state[p] \in {"LAST_ACK", "CLOSING"} /\ AcksAll(p, seg) /\ FinSent(p)
    BY <2>1, <1>11 DEF FinSent
  <2>3. eof[q]
    BY <2>2, <1>2, AckFacts
  <2>4. net'[p] = <<>>
    <3>1. eof[p]
      BY <2>2, <1>1 DEF LinkInv, StateInv
    <3>2. SegEnd(seg) = send_seq[q]
      <4>1. recv_ack[p] = send_seq[q]
        BY <3>1, <1>1 DEF LinkInv, RegisterInv
      <4>. QED BY <4>1, <3>1, <1>4, <1>5, <1>7
    <3>. QED BY <3>2, <2>2, <1>2, <1>19, LastSegment
  <2>5. event'[p] = {}
    <3>1. "APP_CLOSE_REQUESTED" \notin event[p]
      BY <2>2, <1>1 DEF LinkInv, EventInv
    <3>2. event[p] \subseteq Events
      BY <1>1 DEF TypeOK
    <3>. QED BY <3>1, <3>2, <1>17 DEF Events
  <2>. QED BY <2>3, <2>4, <2>5
<1>36. state = "FIN_WAIT_2" => eof[q] /\ send_ack'[p] = send_seq'[p]
  <2>1. HAVE state = "FIN_WAIT_2"
  <2>2. CASE connection_state[p] = "FIN_WAIT_2"
    <3>1. eof[q] /\ send_ack[p] = send_seq[p]
      BY <2>2, <1>1 DEF LinkInv, StateInv
    <3>2. seg.ack = send_seq[p]
      BY <3>1, <1>3, <1>4
    <3>. QED BY <3>1, <3>2, <1>12a, <1>18
  <2>3. CASE connection_state[p] # "FIN_WAIT_2"
    <3>1. connection_state[p] = "FIN_WAIT_1" /\ AcksAll(p, seg) /\ FinSent(p)
      BY <2>1, <2>3, <1>9 DEF FinSent
    <3>. QED BY <3>1, <1>2, <1>12, <1>18, AckFacts
  <2>. QED BY <2>2, <2>3
<1>37. StateInv(p, q)'
  <2>1. StateInv(p, q)
    BY <1>1 DEF LinkInv
  <2>. QED BY <2>1, <1>8, <1>9, <1>11, <1>12, <1>17, <1>35, <1>36 DEF StateInv
<1>38. Linked'
  <2>1. connection_state[Active] \notin {"LISTEN", "SYNSENT"}
    BY <1>1 DEF Linked
  <2>2. Active = p \/ Active = q
    BY PeersLemma DEF Peers
  <2>. QED BY <2>1, <2>2, <1>9, <1>17 DEF Linked
<1>39. LinkInv(p, q)'
  BY <1>25, <1>27, <1>29, <1>31, <1>37 DEF LinkInv
<1>40. LinkInv(q, p)'
  BY <1>24, <1>28, <1>30, <1>33, <1>34 DEF LinkInv
<1>. QED BY <1>20, <1>38, <1>39, <1>40, LinkedStep

\* Reading a segment (lines 215-286) keeps the invariant: in the loop, each
\* is an ACK or a FIN.
LEMMA NetworkDataStep ==
    ASSUME IInv, NEW p \in Peers, NEW q \in Peers, q = Other(p), NetworkData(p)
    PROVE  IInv'
<1>1. /\ unblocked[p] /\ "APP_DATA" \notin event[p] /\ "NETWORK_DATA" \in event[p]
      /\ UNCHANGED <<written, taken, closing, unblocked, running>>
  BY DEF NetworkData, InLoop
<1> PICK seg : seg = Head(net[p])
  OBVIOUS
<1>2. net[p] # <<>>
  BY <1>1, LoopFacts DEF LinkInv, EventInv
<1>3. seg.flags = {"ACK"} \/ seg.flags = {"FIN", "ACK"}
  BY <1>1, <1>2, HeadFacts DEF SegmentInv
<1>4. CASE seg.flags = {"ACK"}
  <2>1. OnAck(p, seg) /\ ~IsFin(seg)
    BY <1>4 DEF NetworkData, IsFin
  <2>. QED BY <2>1, <1>1, OnAckStep
<1>5. CASE seg.flags = {"FIN", "ACK"}
  <2>1. OnFin(p, seg) /\ IsFin(seg)
    BY <1>5 DEF NetworkData, IsFin
  <2>. QED BY <2>1, <1>1, OnFinStep
<1>. QED BY <1>3, <1>4, <1>5

\* Every step of a control loop or of an application keeps the invariant.
LEMMA ControlLoopStep ==
    ASSUME IInv, NEW p \in Peers, ControlLoop(p) \/ Application(p)
    PROVE  IInv'
<1> PICK q \in Peers : q = Other(p)
  BY PeersLemma
<1>1. CASE WaitForEvent(p)
  BY <1>1, WaitForEventStep
<1>2. CASE SkipAppData(p)
  BY <1>2, SkipAppDataStep
<1>3. CASE SendAppData(p)
  BY <1>3, SendAppDataStep
<1>4. CASE NetworkData(p)
  BY <1>4, NetworkDataStep
<1>5. CASE CloseRequested(p)
  BY <1>5, CloseRequestedStep
<1>6. CASE Return(p)
  BY <1>6, ReturnStep
<1>7. CASE Application(p)
  BY <1>7, ApplicationStep
<1>. QED BY <1>1, <1>2, <1>3, <1>4, <1>5, <1>6, <1>7 DEF ControlLoop

-----------------------------------------------------------------------------
(* The handshake.                                                          *)

\* Until the peers are linked, neither runs its loop.
LEMMA HandshakeFacts ==
    ASSUME IInv, ~Linked
    PROVE  /\ Active \in Peers /\ Passive \in Peers /\ Active # Passive
           /\ Other(Active) = Passive /\ Other(Passive) = Active
           /\ TypeOK /\ HandshakeInv /\ Idle(Active) /\ Idle(Passive)
           /\ net[Active] \in Seq(Segment) /\ net[Passive] \in Seq(Segment)
<1>1. Active \in Peers /\ Passive \in Peers /\ Active # Passive
  BY PeersAssumption DEF Peers
<1>2. Other(Active) = Passive /\ Other(Passive) = Active
  BY <1>1 DEF Other
<1>3. TypeOK /\ HandshakeInv
  BY DEF IInv
<1>4. Idle(Active) /\ Idle(Passive)
  BY <1>1, <1>3 DEF HandshakeInv
<1>. QED BY <1>1, <1>2, <1>3, <1>4 DEF TypeOK

\* The passive peer listens only while nothing is linked.
LEMMA ListenFacts ==
    ASSUME IInv, connection_state[Passive] = "LISTEN"
    PROVE  ~Linked
<1>1. Passive \in Peers
  BY DEF Peers
<1>. QED BY <1>1 DEF IInv, LinkedInv, LinkInv, StateInv

\* Sending the SYN (lines 84-90) keeps the invariant.
LEMMA ConnectStep == ASSUME IInv, Connect PROVE IInv'
<1>1. ~Linked /\ connection_state[Active] = "LISTEN"
  BY DEF Connect, Linked
<1>2. /\ Active \in Peers /\ Passive \in Peers /\ Active # Passive
      /\ TypeOK /\ HandshakeInv
      /\ net[Passive] \in Seq(Segment) /\ Other(Active) = Passive
  BY <1>1, HandshakeFacts
<1> PICK syn : syn = Seg({"SYN"}, ISN, 0, <<>>)
  OBVIOUS
<1>3. syn \in Segment /\ syn.seq = ISN /\ syn.flags = {"SYN"}
  BY DEF Seg, Segment, Flags, ISN
<1>4. /\ net' = [net EXCEPT ![Passive] = Append(net[Passive], syn)]
      /\ connection_state' = [connection_state EXCEPT ![Active] = "SYNSENT"]
      /\ UNCHANGED <<done, send_seq, send_ack, recv_ack, window, event, running,
                     written, taken, closing, rcvd, eof, unblocked>>
  BY <1>1, <1>2 DEF Connect, Send, app, HandshakeInv
<1>5. /\ net'[Passive] = Append(net[Passive], syn) /\ net'[Active] = net[Active]
      /\ connection_state'[Active] = "SYNSENT"
      /\ connection_state'[Passive] = connection_state[Passive]
  BY <1>2, <1>4 DEF TypeOK
<1>6. TypeOK'
  <2>1. Append(net[Passive], syn) \in Seq(Segment)
    BY <1>2, <1>3
  <2>2. net' \in [Peers -> Seq(Segment)]
    BY <2>1, <1>2, <1>4 DEF TypeOK
  <2>3. connection_state' \in [Peers -> States]
    BY <1>2, <1>4 DEF TypeOK, States
  <2>. QED BY <2>2, <2>3, <1>2, <1>4 DEF TypeOK
<1>7. ~Linked'
  BY <1>5 DEF Linked
<1> DEFINE n == Len(net[Passive])
<1>8. /\ n \in Nat /\ DOMAIN net[Passive] = 1..n
      /\ Len(net'[Passive]) = n + 1 /\ DOMAIN net'[Passive] = 1..(n + 1)
      /\ \A i \in 1..n : net'[Passive][i] = net[Passive][i]
      /\ net'[Passive][n + 1] = syn
  BY <1>2, <1>3, <1>5
<1> HIDE DEF n
<1>9. \A i \in 1..(n + 1) : i \in 1..n \/ i = n + 1
  BY <1>8
<1>10. HandshakeInv'
  <2>1. \A p \in Peers : Idle(p)'
    BY <1>1, <1>2, <1>4 DEF HandshakeInv, Idle
  <2>2. \A i \in DOMAIN net'[Passive] : net'[Passive][i].seq = ISN
    BY <1>1, <1>2, <1>3, <1>8, <1>9 DEF HandshakeInv
  <2>3. \A i \in DOMAIN net'[Passive] :
          net'[Passive][i].flags = {"SYN"} => i = Len(net'[Passive])
    BY <1>1, <1>2, <1>3, <1>8, <1>9 DEF HandshakeInv
  <2>4. ~(connection_state[Passive] = "SYNRCVD" /\ running[Passive])
    BY <1>1, <1>2 DEF HandshakeInv
  <2>5. \A i \in DOMAIN net'[Passive] : "FIN" \in net'[Passive][i].flags => i = 1
    BY <1>1, <1>2, <1>3, <1>8, <1>9 DEF HandshakeInv
  <2>. QED BY <2>1, <2>2, <2>3, <2>4, <2>5, <1>1, <1>2, <1>4, <1>5 DEF HandshakeInv
<1>. QED BY <1>6, <1>7, <1>10 DEF IInv, LinkedInv

\* Answering the SYN (lines 117-140) keeps the invariant.
LEMMA RecvSynStep == ASSUME IInv, RecvSyn PROVE IInv'
<1>1. ~Linked /\ connection_state[Passive] = "LISTEN"
  BY ListenFacts DEF RecvSyn
<1>2. /\ Active \in Peers /\ Passive \in Peers /\ Active # Passive
      /\ TypeOK /\ HandshakeInv
      /\ net[Passive] \in Seq(Segment) /\ Other(Passive) = Active
  BY <1>1, HandshakeFacts
<1>3. net[Passive] # <<>> /\ 1 \in DOMAIN net[Passive]
      /\ net[Passive][1].flags = {"SYN"} /\ Head(net[Passive]) = net[Passive][1]
  BY <1>2 DEF RecvSyn
<1>4. /\ net[Passive][1].seq = ISN /\ 1 = Len(net[Passive])
      /\ connection_state[Active] = "SYNSENT"
      /\ net[Active] = <<>> /\ send_seq[Passive] = ISN /\ running[Passive]
  BY <1>1, <1>2, <1>3 DEF HandshakeInv, Linked
<1>5. Tail(net[Passive]) = <<>>
  <2>1. Tail(net[Passive]) \in Seq(Segment) /\ Len(Tail(net[Passive])) = 0
    BY <1>2, <1>4
  <2>. QED BY <2>1, EmptyLength
<1>6. SYNACK \in Segment /\ Append(<<>>, SYNACK) = <<SYNACK>>
  BY DEF SYNACK, Seg, Segment, Flags, ISN
<1>7. /\ net' = [net EXCEPT ![Passive] = <<>>, ![Active] = <<SYNACK>>]
      /\ recv_ack' = [recv_ack EXCEPT ![Passive] = ISN + 1]
      /\ send_seq' = [send_seq EXCEPT ![Passive] = ISN + 1]
      /\ connection_state' = [connection_state EXCEPT ![Passive] = "SYNRCVD"]
      /\ UNCHANGED <<done, send_ack, window, event, running,
                     written, taken, closing, rcvd, eof, unblocked>>
  BY <1>2, <1>3, <1>4, <1>5, <1>6 DEF RecvSyn, Reply, app, SYNACK
<1>8. /\ net'[Passive] = <<>> /\ net'[Active] = <<SYNACK>>
      /\ recv_ack'[Passive] = ISN + 1 /\ send_seq'[Passive] = ISN + 1
      /\ send_seq'[Active] = send_seq[Active]
      /\ connection_state'[Passive] = "SYNRCVD"
      /\ connection_state'[Active] = "SYNSENT"
  BY <1>2, <1>4, <1>7 DEF TypeOK
<1>9. TypeOK'
  <2>1. <<SYNACK>> \in Seq(Segment) /\ <<>> \in Seq(Segment) /\ ISN + 1 \in Nat
    BY <1>6 DEF ISN
  <2>2. net' \in [Peers -> Seq(Segment)]
    BY <2>1, <1>2, <1>7 DEF TypeOK
  <2>3. connection_state' \in [Peers -> States]
    BY <1>2, <1>7 DEF TypeOK, States
  <2>4. recv_ack' \in [Peers -> Nat] /\ send_seq' \in [Peers -> Nat]
    BY <2>1, <1>2, <1>7 DEF TypeOK
  <2>. QED BY <2>2, <2>3, <2>4, <1>2, <1>7 DEF TypeOK
<1>10. ~Linked'
  BY <1>8 DEF Linked
<1>11. HandshakeInv'
  <2>1. \A p \in Peers : Idle(p)'
    BY <1>1, <1>2, <1>7 DEF HandshakeInv, Idle
  <2>2. running'[Passive] /\ running'[Active] /\ send_seq'[Active] = ISN
    BY <1>1, <1>2, <1>4, <1>7, <1>8 DEF HandshakeInv
  <2>3. DOMAIN net'[Passive] = {}
    BY <1>8
  <2>4. SYNACK' = SYNACK
    BY DEF SYNACK, Seg, ISN
  <2>. QED BY <2>1, <2>2, <2>3, <2>4, <1>7, <1>8 DEF HandshakeInv
<1>. QED BY <1>9, <1>10, <1>11 DEF IInv, LinkedInv

\* Refusing another first segment (lines 124-129) keeps the invariant.
LEMMA RefuseStep == ASSUME IInv, Refuse PROVE IInv'
<1>1. ~Linked /\ connection_state[Passive] = "LISTEN"
  BY ListenFacts DEF Refuse
<1>2. /\ Active \in Peers /\ Passive \in Peers /\ Active # Passive
      /\ TypeOK /\ HandshakeInv /\ net[Passive] \in Seq(Segment)
  BY <1>1, HandshakeFacts
<1>3. /\ net[Passive] # <<>>
      /\ net' = [net EXCEPT ![Passive] = Tail(net[Passive])]
      /\ connection_state' = [connection_state EXCEPT ![Passive] = "SYNRCVD"]
      /\ running' = [running EXCEPT ![Passive] = FALSE]
      /\ UNCHANGED <<done, send_seq, send_ack, recv_ack, window, event,
                     written, taken, closing, rcvd, eof, unblocked>>
  BY DEF Refuse, Consume, app
<1>4. /\ net'[Passive] = Tail(net[Passive]) /\ net'[Active] = net[Active]
      /\ connection_state'[Passive] = "SYNRCVD"
      /\ connection_state'[Active] = connection_state[Active]
      /\ ~running'[Passive] /\ running'[Active] = running[Active]
  BY <1>2, <1>3 DEF TypeOK
<1>5. TypeOK'
  <2>1. Tail(net[Passive]) \in Seq(Segment)
    BY <1>2, <1>3
  <2>2. net' \in [Peers -> Seq(Segment)]
    BY <2>1, <1>2, <1>3 DEF TypeOK
  <2>3. connection_state' \in [Peers -> States] /\ running' \in [Peers -> BOOLEAN]
    BY <1>2, <1>3 DEF TypeOK, States
  <2>. QED BY <2>2, <2>3, <1>2, <1>3 DEF TypeOK
<1>6. ~Linked'
  BY <1>1, <1>4 DEF Linked
<1> DEFINE n == Len(net[Passive])
<1>7. /\ n \in Nat /\ n >= 1 /\ DOMAIN net[Passive] = 1..n
      /\ Len(net'[Passive]) = n - 1 /\ DOMAIN net'[Passive] = 1..(n - 1)
      /\ \A i \in 1..(n - 1) : net'[Passive][i] = net[Passive][i + 1]
  <2> PICK s : s = net[Passive]
    OBVIOUS
  <2>1. s \in Seq(Segment) /\ s # <<>> /\ net'[Passive] = Tail(s) /\ n = Len(s)
    BY <1>2, <1>3, <1>4
  <2>2. Len(s) \in Nat /\ Len(s) >= 1 /\ DOMAIN s = 1..Len(s)
    BY <2>1
  <2>3. Len(Tail(s)) = Len(s) - 1 /\ DOMAIN Tail(s) = 1..(Len(s) - 1)
    BY <2>1
  <2>4. \A i \in 1..(Len(s) - 1) : Tail(s)[i] = s[i + 1]
    BY <2>1
  <2> HIDE DEF n
  <2>. QED BY <2>1, <2>2, <2>3, <2>4
<1> HIDE DEF n
<1>8. \A i \in 1..(n - 1) : i + 1 \in 1..n /\ (i + 1 = n => i = n - 1)
  BY <1>7
<1>9. HandshakeInv'
  <2>1. \A p \in Peers : Idle(p)'
    BY <1>1, <1>2, <1>3 DEF HandshakeInv, Idle
  <2>2. \A i \in DOMAIN net'[Passive] : net'[Passive][i].seq = ISN
    <3>1. \A i \in 1..n : net[Passive][i].seq = ISN
      BY <1>1, <1>2, <1>7 DEF HandshakeInv
    <3>2. \A i \in 1..(n - 1) : net'[Passive][i].seq = ISN
      BY <3>1, <1>7, <1>8
    <3>. QED BY <3>2, <1>7
  <2>3. \A i \in DOMAIN net'[Passive] :
          net'[Passive][i].flags = {"SYN"} => i = Len(net'[Passive])
    <3>1. \A i \in 1..n : net[Passive][i].flags = {"SYN"} => i = n
      BY <1>1, <1>2, <1>7 DEF HandshakeInv, n
    <3>. QED BY <3>1, <1>7, <1>8
  <2>4. connection_state[Active] = "LISTEN" =>
          \A i \in DOMAIN net'[Passive] : net'[Passive][i].flags # {"SYN"}
    <3>1. connection_state[Active] = "LISTEN" =>
            \A i \in DOMAIN net[Passive] : net[Passive][i].flags # {"SYN"}
      BY <1>1, <1>2 DEF HandshakeInv
    <3>. QED BY <3>1, <1>7, <1>8
  <2>5. net[Active] = <<>> /\ running[Active] /\ send_seq[Active] = ISN
    BY <1>1, <1>2 DEF HandshakeInv
  <2>6. \A i \in DOMAIN net'[Passive] : "FIN" \notin net'[Passive][i].flags
    <3>1. \A i \in 1..n : "FIN" \in net[Passive][i].flags => i = 1
      BY <1>1, <1>2, <1>7 DEF HandshakeInv
    <3>2. \A i \in 1..(n - 1) : i + 1 # 1
      BY <1>7
    <3>. QED BY <3>1, <3>2, <1>7, <1>8
  <2>. QED BY <2>1, <2>2, <2>3, <2>4, <2>5, <2>6, <1>3, <1>4 DEF HandshakeInv
<1>. QED BY <1>5, <1>6, <1>9 DEF IInv, LinkedInv

\* The active peer is linked by the SYN+ACK, and by nothing else.
LEMMA RecvSynAckStep == ASSUME IInv, RecvSynAck PROVE IInv'
<1>1. ~Linked /\ connection_state[Active] = "SYNSENT" /\ net[Active] # <<>>
  BY DEF RecvSynAck, Linked
<1>2. /\ Active \in Peers /\ Passive \in Peers /\ Active # Passive
      /\ TypeOK /\ HandshakeInv /\ Idle(Active) /\ Idle(Passive)
      /\ Other(Active) = Passive /\ Other(Passive) = Active
  BY <1>1, HandshakeFacts
<1>3. /\ connection_state[Passive] = "SYNRCVD" /\ running[Passive] /\ running[Active]
      /\ net[Passive] = <<>> /\ net[Active] = <<SYNACK>>
      /\ send_seq[Passive] = ISN + 1 /\ recv_ack[Passive] = ISN + 1
      /\ send_seq[Active] = ISN
  BY <1>1, <1>2 DEF HandshakeInv
<1> PICK ack : ack = Seg({"ACK"}, ISN + 1, ISN + 1, <<>>)
  OBVIOUS
<1>4. /\ ack \in Segment /\ ack.flags = {"ACK"} /\ ack.seq = ISN + 1
      /\ ack.ack = ISN + 1 /\ ack.data = <<>> /\ Size(ack) = 0 /\ ~IsFin(ack)
      /\ IsPure(ack) /\ SegEnd(ack) = ISN + 1
  BY DEF Seg, Segment, Flags, ISN, Size, IsFin, IsPure, SegEnd, One
<1>5. Head(<<SYNACK>>) = SYNACK /\ Tail(<<SYNACK>>) = <<>>
      /\ SYNACK.ack = ISN + 1 /\ SYNACK.seq = ISN /\ Append(<<>>, ack) = <<ack>>
  BY DEF SYNACK, Seg
<1>6. /\ net' = [net EXCEPT ![Active] = <<>>, ![Passive] = <<ack>>]
      /\ send_seq' = [send_seq EXCEPT ![Active] = ISN + 1]
      /\ send_ack' = [send_ack EXCEPT ![Active] = ISN + 1]
      /\ recv_ack' = [recv_ack EXCEPT ![Active] = ISN + 1]
      /\ connection_state' = [connection_state EXCEPT ![Active] = "ESTABLISHED"]
      /\ unblocked' = [unblocked EXCEPT ![Active] = TRUE]
      /\ UNCHANGED <<done, window, written, taken, closing, rcvd, eof, event, running>>
  BY <1>2, <1>3, <1>5 DEF RecvSynAck, Reply
<1>7. /\ net'[Active] = <<>> /\ net'[Passive] = <<ack>>
      /\ send_seq'[Active] = ISN + 1 /\ send_seq'[Passive] = ISN + 1
      /\ send_ack'[Active] = ISN + 1 /\ send_ack'[Passive] = 0
      /\ recv_ack'[Active] = ISN + 1 /\ recv_ack'[Passive] = ISN + 1
  BY <1>2, <1>3, <1>6 DEF TypeOK, Idle
<1>8. /\ connection_state'[Active] = "ESTABLISHED" /\ connection_state'[Passive] = "SYNRCVD"
      /\ unblocked'[Active] /\ ~unblocked'[Passive]
  BY <1>2, <1>3, <1>6 DEF TypeOK, Idle
<1>9. TypeOK'
  <2>1. <<ack>> \in Seq(Segment) /\ <<>> \in Seq(Segment) /\ ISN + 1 \in Nat
    BY <1>4 DEF ISN
  <2>2. net' \in [Peers -> Seq(Segment)]
    BY <2>1, <1>2, <1>6 DEF TypeOK
  <2>3. connection_state' \in [Peers -> States] /\ unblocked' \in [Peers -> BOOLEAN]
    BY <1>2, <1>6 DEF TypeOK, States
  <2>4. /\ send_seq' \in [Peers -> Nat] /\ send_ack' \in [Peers -> Nat]
        /\ recv_ack' \in [Peers -> Nat]
    BY <2>1, <1>2, <1>6 DEF TypeOK
  <2>. QED BY <2>2, <2>3, <2>4, <1>2, <1>6 DEF TypeOK
<1>10. Linked'
  BY <1>8 DEF Linked
<1>11. \A p \in Peers :
         /\ ~done'[p] /\ event'[p] = {} /\ written'[p] = 0 /\ taken'[p] = 0
         /\ closing'[p] = "open" /\ rcvd'[p] = <<>> /\ ~eof'[p] /\ window'[p] = Window
         /\ running'[p] /\ ~FinSent(p)' /\ Got(p)' = 0
  BY <1>2, <1>3, <1>6, <1>8, PeersLemma DEF Idle, FinSent, Got, Peers
<1>12. ASSUME NEW p \in Peers PROVE EventInv(p)'
  BY <1>11 DEF EventInv
<1>13. Bytes(0, 0) = <<>>
  BY BytesEmpty
<1>14. /\ RegisterInv(Active, Passive)' /\ RegisterInv(Passive, Active)'
  BY <1>2, <1>7, <1>11, <1>13 DEF RegisterInv, One, ISN
<1>15. WindowInv(Active)' /\ WindowInv(Passive)'
  BY <1>2, <1>7, <1>8, <1>11 DEF WindowInv, Idle, ISN
<1>16. FlightInv(Passive, Active)'
  <2>1. DOMAIN net'[Active] = {} /\ Len(net'[Active]) = 0
    BY <1>7
  <2>. QED BY <2>1, <1>7 DEF FlightInv, ChainInv
<1>17. FlightInv(Active, Passive)'
  <2>1. DOMAIN net'[Passive] = {1} /\ Len(net'[Passive]) = 1 /\ net'[Passive][1] = ack
    BY <1>7
  <2>2. SegEnd(ack)' = SegEnd(ack) /\ Size(ack)' = Size(ack) /\ IsFin(ack)' = IsFin(ack)
    BY DEF SegEnd, Size, IsFin
  <2>3. ISN + 1 - (ISN + 1) = 0 /\ 0 <= ISN + 1 /\ ISN + 1 <= ISN + 1
    BY DEF ISN
  <2>4. SegmentInv(Active, Passive, ack)'
    <3>1. ack.data = Bytes(ack.seq - (ISN + 1), Size(ack))
      <4>1. ack.seq - (ISN + 1) = 0
        BY <1>4 DEF ISN
      <4>. QED BY <4>1, <1>4, <1>13
    <3>2. ack.seq >= recv_ack'[Passive] /\ SegEnd(ack) <= send_seq'[Active]
      BY <2>3, <1>4, <1>7 DEF ISN
    <3>3. /\ ISN + 1 <= ack.ack /\ send_ack'[Passive] <= ack.ack
          /\ ack.ack <= recv_ack'[Active]
      BY <2>3, <1>4, <1>7
    <3>. QED BY <3>1, <3>2, <3>3, <2>2, <1>4 DEF SegmentInv
  <2>5. ChainInv(Active, Passive)'
    <3>1. \A i, j \in DOMAIN net'[Passive] : ~(i < j)
      BY <2>1
    <3>2. 1..Len(net'[Passive]) - 1 = {}
      BY <2>1
    <3>. QED BY <2>1, <2>2, <3>1, <3>2, <1>4, <1>7 DEF ChainInv
  <2>. QED BY <2>1, <2>4, <2>5 DEF FlightInv, SegmentInv
<1>18. StateInv(Active, Passive)'
  BY <1>2, <1>8, <1>11 DEF StateInv
<1>19. StateInv(Passive, Active)'
  <2>1. Awaited(Passive)'
    BY <1>4, <1>7 DEF Awaited, IsPure, IsFin
  <2>. QED BY <2>1, <1>2, <1>8, <1>11 DEF StateInv
<1>20. LinkInv(Active, Passive)' /\ LinkInv(Passive, Active)'
  BY <1>2, <1>12, <1>14, <1>15, <1>16, <1>17, <1>18, <1>19 DEF LinkInv
<1>. QED BY <1>2, <1>9, <1>10, <1>20, LinkedStep

\* What the passive peer takes for the acknowledgement of its SYN is it.
LEMMA RecvHandshakeAckStep == ASSUME IInv, RecvHandshakeAck PROVE IInv'
<1> PICK p : p = Passive
  OBVIOUS
<1> PICK q : q = Active
  OBVIOUS
<1>1. connection_state[p] = "SYNRCVD" /\ running[p] /\ net[p] # <<>>
  BY DEF RecvHandshakeAck
<1>2. p \in Peers /\ q \in Peers /\ q # p /\ q = Other(p) /\ p = Other(q)
  BY PeersAssumption DEF Peers, Other
<1>3. Linked /\ TypeOK
  BY <1>1 DEF IInv, HandshakeInv
<1>4. /\ LinkInv(p, q) /\ LinkInv(q, p)
      /\ net[p] \in Seq(Segment) /\ net[q] \in Seq(Segment)
  BY <1>2, <1>3 DEF IInv, LinkedInv, TypeOK
<1>5. Nats(p) /\ Nats(q)
  BY <1>2, <1>3, NatsLemma
<1>6. ~unblocked[p] /\ Idle(p) /\ IsPure(net[p][1])
  BY <1>1, <1>4 DEF LinkInv, StateInv, WindowInv, Awaited
<1> PICK seg : seg = net[p][1]
  OBVIOUS
<1>7. seg = Head(net[p]) /\ seg \in Segment /\ 1 \in DOMAIN net[p]
  BY <1>1, <1>4
<1>8. SegNats(seg) /\ SegmentInv(q, p, seg) /\ seg.seq = recv_ack[p] /\ IsPure(seg)
  BY <1>1, <1>4, <1>6, <1>7, SegNatsLemma DEF LinkInv, FlightInv, ChainInv
<1>9. ~FinSent(p)
  BY <1>1 DEF FinSent
<1>10. send_seq[p] = ISN + 1 /\ seg.ack = ISN + 1
  <2>1. send_seq[p] = ISN + 1 + taken[p] + One(FinSent(p)) /\ recv_ack[q] <= send_seq[p]
    BY <1>4 DEF LinkInv, RegisterInv
  <2>2. send_seq[p] = ISN + 1
    BY <2>1, <1>6, <1>9 DEF One, Idle, ISN
  <2>3. ISN + 1 <= seg.ack /\ seg.ack <= recv_ack[q]
    BY <1>8 DEF SegmentInv
  <2>4. seg.ack \in Nat /\ recv_ack[q] \in Nat /\ ISN + 1 \in Nat
    BY <1>5, <1>8 DEF Nats, SegNats, ISN
  <2>5. recv_ack[q] <= ISN + 1
    BY <2>1, <2>2
  <2>. QED BY <2>2, <2>3, <2>4, <2>5
<1>11. SegEnd(seg) = recv_ack[p]
  BY <1>8 DEF SegNats, IsPure
<1>12. /\ net' = [net EXCEPT ![p] = Tail(net[p])]
       /\ send_ack' = [send_ack EXCEPT ![p] = ISN + 1]
       /\ connection_state' = [connection_state EXCEPT ![p] = "ESTABLISHED"]
       /\ unblocked' = [unblocked EXCEPT ![p] = TRUE]
       /\ UNCHANGED <<done, send_seq, recv_ack, window, written, taken, closing,
                      rcvd, eof, event, running>>
  BY <1>7, <1>10 DEF RecvHandshakeAck, Consume
<1>13. /\ net'[p] = Tail(net[p]) /\ net'[q] = net[q]
       /\ send_ack'[p] = ISN + 1 /\ send_ack'[q] = send_ack[q]
       /\ connection_state'[p] = "ESTABLISHED" /\ connection_state'[q] = connection_state[q]
       /\ unblocked'[p] /\ unblocked'[q] = unblocked[q]
  BY <1>2, <1>3, <1>12 DEF TypeOK
<1>14. TypeOK'
  <2>1. Tail(net[p]) \in Seq(Segment) /\ ISN + 1 \in Nat
    BY <1>1, <1>4 DEF ISN
  <2>2. net' \in [Peers -> Seq(Segment)]
    BY <2>1, <1>2, <1>3, <1>12 DEF TypeOK
  <2>3. connection_state' \in [Peers -> States] /\ unblocked' \in [Peers -> BOOLEAN]
    BY <1>2, <1>3, <1>12 DEF TypeOK, States
  <2>4. send_ack' \in [Peers -> Nat]
    BY <2>1, <1>2, <1>3, <1>12 DEF TypeOK
  <2>. QED BY <2>2, <2>3, <2>4, <1>3, <1>12 DEF TypeOK
<1>15. Nats(p)' /\ Nats(q)'
  BY <1>2, <1>14, NatsPrime
<1>16. /\ ~FinSent(p)' /\ FinSent(q)' = FinSent(q)
       /\ Got(p)' = Got(p) /\ Got(q)' = Got(q)
  BY <1>12, <1>13 DEF FinSent, Got
<1>17. RegisterInv(q, p)'
  BY <1>4, <1>12, <1>13, <1>16 DEF LinkInv, RegisterInv
<1>18. RegisterInv(p, q)'
  <2>1. RegisterInv(p, q) /\ recv_ack[q] \in Nat
    BY <1>4, <1>5 DEF LinkInv, Nats
  <2>2. ISN + 1 <= recv_ack[q]
    <3>1. seg.ack <= recv_ack[q]
      BY <1>8 DEF SegmentInv
    <3>. QED BY <3>1, <1>10
  <2>3. One(FinSent(p))' = One(FinSent(p))
    BY <1>9, <1>16 DEF One
  <2>. QED BY <2>1, <2>2, <2>3, <1>9, <1>12, <1>13, <1>16 DEF RegisterInv
<1>19. FlightInv(p, q)'
  <2>1. FlightInv(p, q) /\ recv_ack[p] <= recv_ack'[p]
    BY <1>4, <1>5, <1>12 DEF LinkInv, Nats
  <2>. QED BY <2>1, <1>4, <1>5, <1>9, <1>12, <1>13, <1>15, FlightSame
<1>20. FlightInv(q, p)'
  <2>1. FlightInv(q, p) /\ recv_ack'[p] = SegEnd(net[p][1]) /\ send_ack'[p] = net[p][1].ack
    BY <1>4, <1>10, <1>11, <1>12, <1>13 DEF LinkInv
  <2>. QED BY <2>1, <1>1, <1>4, <1>5, <1>12, <1>13, <1>15, <1>16, FlightTail
<1>21. WindowInv(p)'
  BY <1>6, <1>12, <1>13 DEF WindowInv, Idle, ISN
<1>22. WindowInv(q)'
  BY <1>4, <1>12, <1>13 DEF LinkInv, WindowInv, Idle
<1>23. EventInv(p)'
  BY <1>6, <1>12, <1>16 DEF EventInv, Idle
<1>24. EventInv(q)'
  BY <1>4, <1>12, <1>13, <1>16 DEF LinkInv, EventInv
<1>25. StateInv(p, q)'
  BY <1>1, <1>6, <1>12, <1>13 DEF StateInv, Idle
<1>26. StateInv(q, p)'
  <2>1. Awaited(q) => Awaited(q)'
    BY <1>4, <1>13, AwaitedKept
  <2>. QED BY <2>1, <1>4, <1>12, <1>13 DEF LinkInv, StateInv
<1>27. Linked'
  BY <1>2, <1>3, <1>13 DEF Linked
<1>28. LinkInv(p, q)' /\ LinkInv(q, p)'
  BY <1>17, <1>18, <1>19, <1>20, <1>21, <1>22, <1>23, <1>24, <1>25, <1>26 DEF LinkInv
<1>. QED BY <1>2, <1>14, <1>27, <1>28, LinkedStep

-----------------------------------------------------------------------------
(* The invariant, and what follows from it.                                *)

\* The invariant holds before the handshake, whatever reaches the listener
\* first.
LEMMA InitIInv == ASSUME Init PROVE IInv
<1>1. ISN \in Nat /\ Window \in 0..Window /\ <<>> \in Seq(Segment) /\ <<>> \in Seq(Nat)
  BY SizesAssumption DEF ISN
<1>2. Active \in Peers /\ Passive \in Peers /\ Active # Passive
  BY PeersAssumption DEF Peers
<1>3. /\ net[Active] = <<>> /\ net \in [Peers -> Seq(Segment)]
      /\ \/ net[Passive] = <<>>
         \/ \E flags \in Stray : net[Passive] = <<Seg(flags, ISN, 0, <<>>)>>
  <2>1. CASE net = [p \in Peers |-> <<>>]
    BY <2>1, <1>1, <1>2
  <2>2. CASE \E flags \in Stray :
               net = [p \in Peers |->
                        IF p = Passive THEN <<Seg(flags, ISN, 0, <<>>)>> ELSE <<>>]
    <3>1. \A flags \in Stray : Seg(flags, ISN, 0, <<>>) \in Segment
      BY <1>1, StrayAssumption DEF Seg, Segment, Flags
    <3>2. \A flags \in Stray : <<Seg(flags, ISN, 0, <<>>)>> \in Seq(Segment)
      BY <3>1
    <3>. QED BY <2>2, <3>2, <1>1, <1>2
  <2>. QED BY <2>1, <2>2 DEF Init
<1>4. TypeOK
  <2>1. /\ connection_state \in [Peers -> States]
        /\ closing \in [Peers -> {"open", "requested", "signalled"}]
    BY DEF Init, States
  <2>2. send_seq \in [Peers -> Nat] /\ window \in [Peers -> 0..Window]
    BY <1>1 DEF Init
  <2>. QED BY <2>1, <2>2, <1>1, <1>3 DEF Init, TypeOK
<1>5. ~Linked
  BY <1>2 DEF Init, Linked
<1>6. \A p \in Peers : Idle(p)
  BY DEF Init, Idle
<1>7. \A i \in DOMAIN net[Passive] :
         /\ net[Passive][i].seq = ISN /\ net[Passive][i].flags # {"SYN"} /\ i = 1
  <2>1. \A flags \in Stray : /\ Seg(flags, ISN, 0, <<>>).seq = ISN
                             /\ Seg(flags, ISN, 0, <<>>).flags # {"SYN"}
    BY StrayAssumption DEF Seg
  <2>2. ASSUME NEW i \in DOMAIN net[Passive], NEW s, net[Passive] = <<s>>
        PROVE  net[Passive][i] = s /\ i = 1
    BY <2>2
  <2>. QED BY <2>1, <2>2, <1>3
<1>8. HandshakeInv
  BY <1>2, <1>3, <1>6, <1>7 DEF Init, HandshakeInv
<1>. QED BY <1>4, <1>5, <1>8 DEF IInv, LinkedInv

\* The invariant depends on nothing but the variables.
LEMMA StutterStep == ASSUME IInv, UNCHANGED vars PROVE IInv'
<1>1. UNCHANGED <<connection_state, done, send_seq, send_ack, recv_ack, window, event,
                  running, unblocked, net, written, taken, closing, rcvd, eof>>
  BY DEF vars, ctx, app
<1>2. TypeOK'
  BY <1>1 DEF IInv, TypeOK
<1>3. /\ Linked' = Linked
      /\ \A p \in Peers : Idle(p)' = Idle(p) /\ FinSent(p)' = FinSent(p) /\ Got(p)' = Got(p)
  BY <1>1 DEF Linked, Idle, FinSent, Got
<1>4. HandshakeInv'
  <2>1. HandshakeInv /\ SYNACK' = SYNACK
    BY DEF IInv, SYNACK, Seg
  <2>. QED BY <2>1, <1>1, <1>3 DEF HandshakeInv
<1>5. LinkedInv'
  <2>1. ASSUME NEW p \in Peers, NEW q \in Peers, LinkInv(p, q) PROVE LinkInv(p, q)'
    <3>1. \A x : SegEnd(x)' = SegEnd(x) /\ IsPure(x)' = IsPure(x)
                /\ Size(x)' = Size(x) /\ IsFin(x)' = IsFin(x)
      BY DEF SegEnd, Size, IsFin, IsPure
    <3>2. \A x : SegmentInv(p, q, x) => SegmentInv(p, q, x)'
      BY <3>1, <1>1, <1>3 DEF SegmentInv, SegEnd, Size, IsFin, FinSent
    <3>3. FlightInv(p, q)'
      <4>1. ChainInv(p, q)'
        BY <2>1, <3>1, <1>1 DEF LinkInv, FlightInv, ChainInv, SegEnd, Size, IsFin, IsPure
      <4>2. \A i \in DOMAIN net'[q] : SegmentInv(p, q, net[q][i])'
        <5>1. TAKE i \in DOMAIN net'[q]
        <5>2. SegmentInv(p, q, net[q][i])
          BY <2>1, <5>1, <1>1 DEF LinkInv, FlightInv
        <5>. QED BY <5>2, <1>1 DEF SegmentInv, SegEnd, Size, IsFin, FinSent
      <4>. QED BY <4>1, <4>2 DEF FlightInv
    <3>4. RegisterInv(p, q)'
      BY <2>1, <1>1, <1>3 DEF LinkInv, RegisterInv
    <3>5. WindowInv(p)'
      BY <2>1, <1>1, <1>3 DEF LinkInv, WindowInv
    <3>6. StateInv(p, q)'
      BY <2>1, <1>1 DEF LinkInv, StateInv, Awaited, IsPure, IsFin
    <3>7. EventInv(p)'
      BY <2>1, <1>1, <1>3 DEF LinkInv, EventInv
    <3>. QED BY <3>3, <3>4, <3>5, <3>6, <3>7 DEF LinkInv
  <2>. QED BY <2>1, <1>3, PeersLemma DEF IInv, LinkedInv
<1>. QED BY <1>2, <1>4, <1>5 DEF IInv

\* Every step keeps the invariant.
LEMMA NextIInv == ASSUME IInv, [Next]_vars PROVE IInv'
<1>1. CASE Handshake
  BY <1>1, ConnectStep, RecvSynAckStep, RecvSynStep, RefuseStep, RecvHandshakeAckStep
     DEF Handshake
<1>2. ASSUME NEW p \in Peers, ControlLoop(p) \/ Application(p) PROVE IInv'
  BY <1>2, ControlLoopStep
<1>3. CASE Finished \/ UNCHANGED vars
  BY <1>3, StutterStep DEF Finished
<1>. QED BY <1>1, <1>2, <1>3 DEF Next

\* The registers, windows, events and segments of a connection are tied
\* together by IInv in every reachable state, whatever the sizes, the window
\* and the lengths of the streams.
THEOREM Invariant == Spec => []IInv
<1>1. Init => IInv
  BY InitIInv
<1>2. IInv /\ [Next]_vars => IInv'
  BY NextIInv
<1>. QED BY <1>1, <1>2, PTL DEF Spec

\* Every register and queue of the two endpoints keeps its type; the window
\* stays between 0 and WINDOW although it is computed modulo 2^16.
THEOREM TypeCorrect == Spec => []TypeOK
<1>1. IInv => TypeOK
  BY DEF IInv
<1>. QED BY <1>1, Invariant, PTL

\* What both directions of a connection satisfy, linked or not.
LEMMA Direction ==
    ASSUME IInv, NEW p \in Peers, NEW q \in Peers, q = Other(p)
    PROVE  /\ rcvd[q] = Bytes(0, Got(q)) /\ Got(q) <= taken[p] /\ taken[p] <= written[p]
           /\ Nats(p) /\ Nats(q)
<1>1. TypeOK /\ Nats(p) /\ Nats(q)
  BY NatsLemma DEF IInv
<1>2. CASE Linked
  BY <1>1, <1>2 DEF IInv, LinkedInv, LinkInv, RegisterInv
<1>3. CASE ~Linked
  <2>1. Idle(p) /\ Idle(q)
    BY <1>3 DEF IInv, HandshakeInv
  <2>2. Got(q) = 0 /\ rcvd[q] = <<>> /\ taken[p] = 0 /\ written[p] = 0
    BY <2>1 DEF Idle, Got
  <2>. QED BY <2>2, <1>1, BytesEmpty
<1>. QED BY <1>2, <1>3

\* What the streams say, from the invariant alone.
LEMMA IntegrityFromIInv == ASSUME IInv PROVE StreamIntegrity
<1>1. SUFFICES ASSUME NEW p \in Peers
               PROVE  /\ Len(rcvd[Other(p)]) <= written[p]
                      /\ rcvd[Other(p)] = Bytes(0, Len(rcvd[Other(p)]))
  BY DEF StreamIntegrity
<1> PICK q \in Peers : q = Other(p)
  BY PeersLemma
<1>2. /\ rcvd[q] = Bytes(0, Got(q)) /\ Got(q) <= taken[p] /\ taken[p] <= written[p]
      /\ Nats(p) /\ Nats(q)
  BY Direction
<1>3. Got(q) <= written[p]
  BY <1>2 DEF Nats
<1>. QED BY <1>2, <1>3 DEF Got

\* Whatever the two threads and the two applications do, what one application
\* has read is a prefix of what the other has written.
THEOREM Integrity == Spec => []StreamIntegrity
<1>1. IInv => StreamIntegrity
  BY IntegrityFromIInv
<1>. QED BY <1>1, Invariant, PTL

\* A sender never has more than WINDOW bytes out that have not been handed
\* to the receiving application, for every window and segment size.
THEOREM FlowControlled == Spec => []FlowControl
<1>1. IInv => FlowControl
  <2>1. SUFFICES ASSUME IInv, NEW p \in Peers
                 PROVE  taken[p] - Len(rcvd[Other(p)]) <= Window
    BY DEF FlowControl
  <2> PICK q \in Peers : q = Other(p)
    BY PeersLemma
  <2>2. /\ Got(q) <= taken[p] /\ Nats(p) /\ Nats(q)
    BY <2>1, Direction
  <2>3. CASE ~unblocked[p]
    <3>1. taken[p] = 0
      BY <2>1, <2>3 DEF IInv, HandshakeInv, LinkedInv, LinkInv, WindowInv, Idle
    <3>2. taken[p] - Got(q) <= Window
      BY <3>1, <2>2, SizesAssumption DEF Nats
    <3>. QED BY <3>2 DEF Got
  <2>4. CASE unblocked[p]
    <3>1. LinkInv(p, q)
      BY <2>1, <2>4, LoopFacts
    <3>2. /\ send_ack[p] <= recv_ack[q]
          /\ recv_ack[q] = ISN + 1 + Got(q) + One(eof[q])
          /\ eof[q] => recv_ack[q] = send_seq[p] /\ FinSent(p)
          /\ send_seq[p] = ISN + 1 + taken[p] + One(FinSent(p))
      BY <3>1 DEF LinkInv, RegisterInv
    <3>3. window[p] = IF ISN + 1 + taken[p] > send_ack[p]
                        THEN Window - (ISN + 1 + taken[p] - send_ack[p]) ELSE Window
      BY <3>1, <2>4 DEF LinkInv, WindowInv
    <3>4. /\ send_ack[p] \in Nat /\ taken[p] \in Nat /\ Got(q) \in Nat
          /\ window[p] \in Nat /\ Window \in Nat /\ recv_ack[q] \in Nat
      BY <2>2, SizesAssumption DEF Nats
    <3>5. CASE eof[q]
      <4>1. ISN + 1 + Got(q) + 1 = ISN + 1 + taken[p] + 1
        BY <3>2, <3>5 DEF One
      <4>2. taken[p] - Got(q) <= Window
        BY ONLY <4>1, <3>4 DEF ISN
      <4>. QED BY <4>2 DEF Got
    <3>6. CASE ~eof[q]
      <4>1. recv_ack[q] = ISN + 1 + Got(q) + 0
        BY <3>2, <3>6 DEF One
      <4>2. send_ack[p] <= recv_ack[q]
        BY <3>2
      <4>3. taken[p] - Got(q) <= Window
        BY ONLY <4>1, <4>2, <3>3, <3>4 DEF ISN
      <4>. QED BY <4>3 DEF Got
    <3>. QED BY <3>5, <3>6
  <2>. QED BY <2>3, <2>4
<1>. QED BY <1>1, Invariant, PTL

\* ctx->window is WINDOW minus the bytes in flight in every reachable state:
\* neither the 16-bit addition nor the FIN's sequence number makes it drift.
THEOREM WindowAccounted == Spec => []WindowAccounting
<1>1. IInv => WindowAccounting
  <2>1. SUFFICES ASSUME IInv, NEW p \in Peers, unblocked[p]
                 PROVE  window[p] = LET out == ISN + 1 + taken[p] - send_ack[p]
                                    IN  IF out > 0 THEN Window - out ELSE Window
    BY DEF WindowAccounting
  <2>2. LinkInv(p, Other(p)) /\ Nats(p)
    BY <2>1, LoopFacts, PeersLemma
  <2>3. window[p] = IF ISN + 1 + taken[p] > send_ack[p]
                      THEN Window - (ISN + 1 + taken[p] - send_ack[p]) ELSE Window
    BY <2>1, <2>2 DEF LinkInv, WindowInv
  <2>4. send_ack[p] \in Nat /\ taken[p] \in Nat
    BY <2>2 DEF Nats
  <2>5. ISN + 1 + taken[p] > send_ack[p] <=> ISN + 1 + taken[p] - send_ack[p] > 0
    BY <2>4 DEF ISN
  <2>. QED BY <2>3, <2>5
<1>. QED BY <1>1, Invariant, PTL

\* What eof says, from the invariant alone.
LEMMA EofFromIInv == ASSUME IInv PROVE EofAfterAllData
<1>1. SUFFICES ASSUME NEW p \in Peers, eof[p]
               PROVE  /\ closing[Other(p)] = "signalled"
                      /\ Len(rcvd[p]) = written[Other(p)]
  BY DEF EofAfterAllData
<1> PICK q \in Peers : q = Other(p) /\ p = Other(q)
  BY PeersLemma
<1>2. LinkInv(q, p) /\ Nats(p) /\ Nats(q)
  BY <1>1, NatsLemma DEF IInv, HandshakeInv, Idle, LinkedInv
<1>3. /\ recv_ack[p] = send_seq[q] /\ FinSent(q)
      /\ recv_ack[p] = ISN + 1 + Got(p) + One(eof[p])
      /\ send_seq[q] = ISN + 1 + taken[q] + One(FinSent(q))
  BY <1>1, <1>2 DEF LinkInv, RegisterInv
<1>4. ISN + 1 + Got(p) + 1 = ISN + 1 + taken[q] + 1
  BY <1>1, <1>3 DEF One
<1>5. Got(p) \in Nat /\ taken[q] \in Nat
  BY <1>2 DEF Nats
<1>6. Got(p) = taken[q]
  BY ONLY <1>4, <1>5 DEF ISN
<1>7. closing[q] = "signalled" /\ taken[q] = written[q]
  BY <1>2, <1>3 DEF LinkInv, EventInv
<1>. QED BY <1>6, <1>7 DEF Got

\* An application learns of the end of the stream after every byte of it.
THEOREM EofOrdered == Spec => []EofAfterAllData
<1>1. IInv => EofAfterAllData
  BY EofFromIInv
<1>. QED BY <1>1, Invariant, PTL

\* A control loop that has ended leaves nothing undone: both applications
\* have all the data and the end of the stream, and no segment is unread.
THEOREM Graceful == Spec => []GracefulEnd
<1>1. IInv => GracefulEnd
  <2>1. SUFFICES ASSUME IInv, NEW p \in Peers, done[p]
                 PROVE  /\ \A q \in Peers : eof[q] /\ Len(rcvd[Other(q)]) = written[q]
                        /\ net[p] = <<>>
    BY DEF GracefulEnd
  <2> PICK q \in Peers : q = Other(p) /\ p = Other(q)
    BY PeersLemma
  <2>2. LinkInv(p, q)
    BY <2>1 DEF IInv, HandshakeInv, Idle, LinkedInv
  <2>3. eof[p] /\ eof[q] /\ net[p] = <<>>
    BY <2>1, <2>2 DEF LinkInv, StateInv
  <2>4. Peers = {p, q}
    BY PeersLemma
  <2>5. EofAfterAllData
    BY <2>1, EofFromIInv
  <2>. QED BY <2>3, <2>4, <2>5 DEF EofAfterAllData
<1>. QED BY <1>1, Invariant, PTL

\* Neither end ever expects, or takes for acknowledged, what the other has not
\* sent or received: the handshake puts the registers in step for good.
THEOREM Synchronised == Spec => []InSync
<1>1. IInv => InSync
  <2>1. SUFFICES ASSUME IInv, NEW p \in Peers, unblocked[p]
                 PROVE  /\ recv_ack[p] <= send_seq[Other(p)]
                        /\ send_ack[p] <= recv_ack[Other(p)]
    BY DEF InSync
  <2> PICK q \in Peers : q = Other(p) /\ p = Other(q)
    BY PeersLemma
  <2>2. LinkInv(p, q) /\ LinkInv(q, p)
    BY <2>1, LoopFacts
  <2>. QED BY <2>2 DEF LinkInv, RegisterInv
<1>. QED BY <1>1, Invariant, PTL

\* A FIN on its way is the only one, and the last of its stream.
LEMMA FinFacts ==
    ASSUME IInv, NEW p \in Peers, NEW q \in Peers, q = Other(p),
           NEW i \in DOMAIN net[q], IsFin(net[q][i])
    PROVE  /\ ~eof[q] /\ taken[p] = written[p]
           /\ \A j \in DOMAIN net[q] : IsFin(net[q][j]) => i = j
<1>1. TypeOK /\ Nats(p) /\ Nats(q) /\ net[q] \in Seq(Segment)
  BY NatsLemma DEF IInv, TypeOK
<1>2. CASE ~Linked
  <2>1. HandshakeInv /\ Idle(p) /\ Idle(q)
    BY <1>2 DEF IInv, HandshakeInv
  <2>2. ~eof[q] /\ taken[p] = written[p]
    BY <2>1 DEF Idle
  <2>3. CASE q = Passive
    BY <1>2, <2>1, <2>2, <2>3 DEF HandshakeInv, IsFin
  <2>4. CASE q = Active
    <3>1. net[q] = <<SYNACK>>
      BY <1>2, <2>1, <2>4 DEF HandshakeInv
    <3>2. ~IsFin(SYNACK)
      BY DEF SYNACK, Seg, IsFin
    <3>. QED BY <3>1, <3>2
  <2>. QED BY <2>3, <2>4 DEF Peers
<1>3. CASE Linked
  <2>1. LinkInv(p, q)
    BY <1>3 DEF IInv, LinkedInv
  <2>2. ASSUME NEW j \in DOMAIN net[q], IsFin(net[q][j])
        PROVE  /\ FinSent(p) /\ net[q][j].seq = send_seq[p] - 1
               /\ recv_ack[q] <= net[q][j].seq /\ Size(net[q][j]) = 0
               /\ SegEnd(net[q][j]) = send_seq[p]
               /\ net[q][j].seq \in Nat /\ send_seq[p] \in Nat /\ recv_ack[q] \in Nat
    <3>1. SegmentInv(p, q, net[q][j]) /\ net[q][j] \in Segment
      BY <2>1, <2>2, <1>1 DEF LinkInv, FlightInv
    <3>2. /\ FinSent(p) /\ net[q][j].seq = send_seq[p] - 1
          /\ recv_ack[q] <= net[q][j].seq /\ net[q][j].data = <<>>
      BY <3>1, <2>2 DEF SegmentInv
    <3>3. net[q][j].seq \in Nat /\ send_seq[p] \in Nat /\ recv_ack[q] \in Nat
      BY <3>1, <1>1 DEF Segment, Nats
    <3>4. Size(net[q][j]) = 0
      BY <3>2 DEF Size
    <3>5. SegEnd(net[q][j]) = net[q][j].seq + 0 + 1
      BY <3>4, <2>2 DEF SegEnd, One
    <3>. QED BY <3>2, <3>3, <3>4, <3>5
  <2>3. ~eof[q]
    <3>1. recv_ack[q] # send_seq[p]
      BY <2>2
    <3>. QED BY <3>1, <2>1 DEF LinkInv, RegisterInv
  <2>4. taken[p] = written[p]
    BY <2>1, <2>2 DEF LinkInv, EventInv
  <2>5. ASSUME NEW j \in DOMAIN net[q], NEW k \in DOMAIN net[q],
               IsFin(net[q][j]), IsFin(net[q][k])
        PROVE  ~(j < k)
    <3>1. j < k => SegEnd(net[q][j]) <= net[q][k].seq
      BY <2>1 DEF LinkInv, FlightInv, ChainInv
    <3>. QED BY <3>1, <2>2, <2>5
  <2>6. ASSUME NEW j \in DOMAIN net[q], IsFin(net[q][j])
        PROVE  i = j
    <3>1. i \in Nat /\ j \in Nat
      BY <1>1, <2>6
    <3>. QED BY <3>1, <2>5, <2>6
  <2>. QED BY <2>3, <2>4, <2>6
<1>. QED BY <1>2, <1>3

\* No FIN overtakes the data behind a shut window, and none is sent twice.
THEOREM FinOnce == Spec => []OneFin
<1>1. IInv => OneFin
  <2>1. SUFFICES ASSUME IInv, NEW p \in Peers
                 PROVE  LET fins == {i \in DOMAIN net[Other(p)] :
                                       "FIN" \in net[Other(p)][i].flags}
                        IN  /\ \A i, j \in fins : i = j
                            /\ fins # {} => ~eof[Other(p)] /\ taken[p] = written[p]
    BY DEF OneFin
  <2> PICK q \in Peers : q = Other(p)
    BY PeersLemma
  <2>2. \A i \in DOMAIN net[q] : "FIN" \in net[q][i].flags =>
          /\ ~eof[q] /\ taken[p] = written[p]
          /\ \A j \in DOMAIN net[q] : "FIN" \in net[q][j].flags => i = j
    BY <2>1, FinFacts DEF IsFin
  <2>. QED BY <2>2
<1>. QED BY <1>1, Invariant, PTL

(***************************************************************************)
(* A step of either transport layer or application is, to the two          *)
(* applications, a step of the two byte streams or no step at all.  What a *)
(* step of the streams needs to be allowed (nothing delivered that was not *)
(* written, no end before the last byte, no return before both ends) is    *)
(* what IInv says of STCP's state.                                         *)
(***************************************************************************)

\* The two variables of ByteStream that are no variables of STCP.
closed   == [p \in Peers |-> closing[p] # "open"]
returned == [p \in Peers |-> done[p] /\ ~running[p]]

\* The other end of a stream is the other peer.
LEMMA PeerLemma ==
    ASSUME NEW p \in Peers
    PROVE  Stream!Peer(p) = Other(p)
<1>1. /\ Other(p) \in Peers /\ Other(p) # p
      /\ \A q \in Peers : q # p => q = Other(p)
  BY PeersLemma
<1>. QED BY <1>1 DEF Stream!Peer

\* A close that is signalled to the loop was a close before.
LEMMA ClosedSame ==
    ASSUME \A p \in Peers : closing'[p] # "open" <=> closing[p] # "open"
    PROVE  closed' = closed
BY DEF closed

\* A transport layer returns only where it leaves the loop.
LEMMA ReturnedSame ==
    ASSUME \A p \in Peers : (done'[p] /\ ~running'[p]) <=> (done[p] /\ ~running[p])
    PROVE  returned' = returned
BY DEF returned

\* The applications see nothing of a step of the transport layers that gives
\* them nothing and takes nothing from them.
LEMMA Unseen ==
    ASSUME UNCHANGED <<unblocked, written, rcvd, eof>>, closed' = closed, returned' = returned
    PROVE  UNCHANGED Stream!vars
BY DEF Stream!vars, closed, returned

\* The applications have nothing, and have asked for nothing, at first.
LEMMA StreamInit == ASSUME Init PROVE Stream!Init
<1>1. closed = [p \in Peers |-> FALSE]
  BY DEF Init, closed
<1>2. returned = [p \in Peers |-> FALSE]
  BY DEF Init, returned
<1>. QED BY <1>1, <1>2 DEF Init, Stream!Init, closed, returned

\* An application is unblocked.
LEMMA OpenSees ==
    ASSUME NEW p \in Peers, ~unblocked[p], unblocked' = [unblocked EXCEPT ![p] = TRUE],
           UNCHANGED <<written, rcvd, eof, closing, done, running>>
    PROVE  Stream!Next
<1>1. closed' = closed /\ returned' = returned
  BY DEF closed, returned
<1>2. Stream!Open(p)
  BY <1>1 DEF Stream!Open, closed, returned
<1>. QED BY <1>2 DEF Stream!Next

\* The handshake: the applications see that they are unblocked.
LEMMA HandshakeSees ==
    ASSUME IInv, Handshake
    PROVE  [Stream!Next]_Stream!vars
<1>1. TypeOK /\ Active \in Peers /\ Passive \in Peers
  BY DEF IInv, Peers
<1>2. CASE Connect \/ RecvSyn
  <2>1. UNCHANGED <<unblocked, written, rcvd, eof, closing, done, running>>
    BY <1>2 DEF Connect, RecvSyn, app
  <2>2. closed' = closed /\ returned' = returned
    BY <2>1 DEF closed, returned
  <2>. QED BY <2>1, <2>2, Unseen
<1>3. CASE RecvSynAck
  <2>1. ~Linked
    BY <1>3 DEF RecvSynAck, Linked
  <2>2. ~unblocked[Active]
    BY <1>1, <2>1 DEF IInv, HandshakeInv, Idle
  <2>3. /\ unblocked' = [unblocked EXCEPT ![Active] = TRUE]
        /\ UNCHANGED <<written, rcvd, eof, closing, done, running>>
    BY <1>3 DEF RecvSynAck
  <2>. QED BY <1>1, <2>2, <2>3, OpenSees
<1>4. CASE Refuse
  <2>1. ~Linked
    BY <1>4, ListenFacts DEF Refuse
  <2>2. \A p \in Peers : ~done[p]
    BY <2>1 DEF IInv, HandshakeInv, Idle
  <2>3. UNCHANGED <<unblocked, written, rcvd, eof, closing, done>>
    BY <1>4 DEF Refuse, app
  <2>4. closed' = closed /\ returned' = returned
    BY <2>2, <2>3 DEF closed, returned
  <2>. QED BY <2>3, <2>4, Unseen
<1>5. CASE RecvHandshakeAck
  <2>1. connection_state[Passive] = "SYNRCVD"
    BY <1>5 DEF RecvHandshakeAck
  <2>2. ~unblocked[Passive]
    BY <1>1, <2>1 DEF IInv, HandshakeInv, Idle, LinkedInv, LinkInv, StateInv
  <2>3. /\ unblocked' = [unblocked EXCEPT ![Passive] = TRUE]
        /\ UNCHANGED <<written, rcvd, eof, closing, done, running>>
    BY <1>5 DEF RecvHandshakeAck
  <2>. QED BY <1>1, <2>2, <2>3, OpenSees
<1>. QED BY <1>2, <1>3, <1>4, <1>5 DEF Handshake

\* What the loop does with data to send and with a close request is not seen.
LEMMA LoopUnseen ==
    ASSUME NEW p \in Peers, TypeOK,
           WaitForEvent(p) \/ SkipAppData(p) \/ SendAppData(p) \/ CloseRequested(p)
    PROVE  UNCHANGED Stream!vars
<1>1. UNCHANGED <<unblocked, written, rcvd, eof, done, running>>
  BY DEF WaitForEvent, SkipAppData, SendAppData, CloseRequested, ctx, app
<1>2. closed' = closed
  <2>1. CASE WaitForEvent(p)
    <3>1. /\ closing' = [closing EXCEPT ![p] =
               IF "APP_CLOSE_REQUESTED" \in ReadyEvents(p) THEN "signalled" ELSE @]
          /\ "APP_CLOSE_REQUESTED" \in ReadyEvents(p) => closing[p] = "requested"
      BY <2>1 DEF WaitForEvent, ReadyEvents
    <3>2. \A q \in Peers : closing'[q] # "open" <=> closing[q] # "open"
      BY <3>1 DEF TypeOK
    <3>. QED BY <3>2, ClosedSame
  <2>2. CASE SkipAppData(p) \/ SendAppData(p) \/ CloseRequested(p)
    BY <2>2 DEF SkipAppData, SendAppData, CloseRequested, app, closed
  <2>. QED BY <2>1, <2>2
<1>3. returned' = returned
  BY <1>1 DEF returned
<1>. QED BY <1>1, <1>2, <1>3, Unseen

\* The bytes of the first segment are the next ones of the stream, which has
\* not ended.
LEMMA NextBytes ==
    ASSUME IInv, NEW p \in Peers, NEW q \in Peers, q = Other(p), unblocked[p],
           net[p] # <<>>, NEW seg, seg = Head(net[p]), seg.data # <<>>
    PROVE  /\ ~eof[p] /\ Size(seg) \in Nat \ {0}
           /\ seg.data = [i \in 1..Size(seg) |-> Len(rcvd[p]) + i]
<1>1. /\ LinkInv(q, p) /\ Nats(p) /\ Nats(q)
  BY LoopFacts
<1>2. /\ SegNats(seg) /\ SegmentInv(q, p, seg) /\ seg.seq = recv_ack[p]
  BY HeadFacts
<1>3. /\ Size(seg) \in Nat \ {0} /\ SegEnd(seg) \in Nat /\ seg.seq \in Nat
      /\ ~IsFin(seg) /\ SegEnd(seg) = seg.seq + Size(seg) /\ SegEnd(seg) <= send_seq[q]
  BY <1>2 DEF SegNats, SegmentInv
<1>4. ~eof[p]
  <2>1. eof[p] => recv_ack[p] = send_seq[q]
    BY <1>1 DEF LinkInv, RegisterInv
  <2>2. recv_ack[p] # send_seq[q]
    BY <1>1, <1>2, <1>3 DEF Nats
  <2>. QED BY <2>1, <2>2
<1>5. recv_ack[p] = ISN + 1 + Got(p) + 0
  BY <1>1, <1>4 DEF LinkInv, RegisterInv, One
<1>6. seg.data = Bytes(seg.seq - (ISN + 1), Size(seg))
  BY <1>2 DEF SegmentInv
<1>7. seg.seq - (ISN + 1) = Got(p)
  <2>1. Got(p) \in Nat /\ seg.seq = ISN + 1 + Got(p) + 0
    BY <1>1, <1>2, <1>5 DEF Nats
  <2>. QED BY ONLY <2>1 DEF ISN
<1>. QED BY <1>3, <1>4, <1>6, <1>7 DEF Bytes, Got

\* What was delivered was written, and all of it before its end was told.
LEMMA SeenLemma == IInv => StreamIntegrity /\ EofAfterAllData
BY IntegrityFromIInv, EofFromIInv

\* An acknowledgement is not seen; the data in its segment is delivered.
LEMMA OnAckSees ==
    ASSUME IInv, IInv', NEW p \in Peers, NEW q \in Peers, q = Other(p), InLoop(p),
           net[p] # <<>>, NEW seg, seg = Head(net[p]), OnAck(p, seg),
           UNCHANGED <<written, taken, closing, unblocked, running>>
    PROVE  [Stream!Next]_Stream!vars
<1>1. TypeOK /\ unblocked[p] /\ running[p]
  BY DEF IInv, InLoop
<1>2. /\ rcvd' = [rcvd EXCEPT ![p] = @ \o seg.data] /\ UNCHANGED eof
      /\ \A r \in Peers \ {p} : done'[r] = done[r]
  BY <1>1 DEF OnAck, TypeOK
<1>3. closed' = closed /\ returned' = returned
  BY <1>1, <1>2 DEF closed, returned
<1>4. rcvd[p] \in Seq(Nat)
  BY <1>1 DEF TypeOK
<1>5. CASE seg.data = <<>>
  <2>1. rcvd[p] \o seg.data = rcvd[p]
    BY <1>4, <1>5, ConcatEmptySeq
  <2>2. rcvd' = rcvd
    BY <1>1, <1>2, <2>1 DEF TypeOK
  <2>. QED BY <1>2, <1>3, <2>2, Unseen
<1>6. CASE seg.data # <<>>
  <2> DEFINE n == Size(seg)
             k == Len(rcvd[p])
  <2>1. ~eof[p] /\ n \in Nat \ {0} /\ seg.data = [i \in 1..n |-> k + i]
    BY <1>1, <1>6, NextBytes
  <2>2. k + n <= written[q] /\ k \in Nat /\ written[q] \in Nat
    <3>1. Len(rcvd'[p]) <= written[q]
      <4>1. StreamIntegrity' /\ p = Other(q)
        <5>1. IInv' => StreamIntegrity'
          BY SeenLemma, PTL
        <5>. QED BY <5>1, PeersLemma
      <4>. QED BY <4>1 DEF StreamIntegrity
    <3>2. rcvd'[p] = rcvd[p] \o seg.data
      BY <1>1, <1>2 DEF TypeOK
    <3>3. Len(rcvd'[p]) = k + n
      BY <1>4, <2>1, <3>2
    <3>. QED BY <1>1, <1>4, <3>1, <3>3 DEF TypeOK
  <2>3. n \in 1..(written[q] - k)
    BY <2>1, <2>2
  <2>. HIDE DEF n, k
  <2>4. rcvd' = [rcvd EXCEPT ![p] = @ \o [i \in 1..n |-> Len(@) + i]]
    BY <1>2, <2>1 DEF k
  <2>5. Stream!Deliver(p)
    BY <1>1, <1>2, <1>3, <2>1, <2>3, <2>4, PeerLemma DEF Stream!Deliver, closed, returned, k
  <2>. QED BY <2>5 DEF Stream!Next
<1>. QED BY <1>5, <1>6

\* A FIN is the end of the stream to the application.
LEMMA OnFinSees ==
    ASSUME IInv, IInv', NEW p \in Peers, NEW q \in Peers, q = Other(p), InLoop(p),
           net[p] # <<>>, NEW seg, seg = Head(net[p]), IsFin(seg), OnFin(p, seg),
           UNCHANGED <<written, taken, closing, unblocked, running>>
    PROVE  [Stream!Next]_Stream!vars
<1>1. TypeOK /\ unblocked[p] /\ running[p]
  BY DEF IInv, InLoop
<1>2. /\ eof' = [eof EXCEPT ![p] = TRUE] /\ UNCHANGED rcvd
      /\ \A r \in Peers \ {p} : done'[r] = done[r]
  BY <1>1 DEF OnFin, TypeOK
<1>3. closed' = closed /\ returned' = returned
  <2>1. closed' = closed
    BY DEF closed
  <2>2. ASSUME NEW r \in Peers
        PROVE  (done'[r] /\ ~running'[r]) = (done[r] /\ ~running[r])
    BY <1>1, <1>2
  <2>3. returned' = returned
    BY <2>2, Zenon DEF returned
  <2>. QED BY <2>1, <2>3
<1>4. ~eof[p]
  <2>1. 1 \in DOMAIN net[p] /\ seg = net[p][1]
    <3>1. net[p] \in Seq(Segment)
      BY <1>1 DEF TypeOK
    <3>2. seg = net[p][1]
      BY <1>1, HeadFacts
    <3>. QED BY <3>1, <3>2
  <2>2. p = Other(q)
    BY PeersLemma
  <2>. QED BY <2>1, <2>2, FinFacts
<1>5. closing[q] # "open" /\ Len(rcvd[p]) = written[q]
  <2>1. EofAfterAllData'
    <3>1. IInv' => EofAfterAllData'
      BY SeenLemma, PTL
    <3>. QED BY <3>1
  <2>2. eof'[p]
    BY <1>1, <1>2 DEF TypeOK
  <2>. QED BY <1>2, <2>1, <2>2 DEF EofAfterAllData
<1>6. Stream!Eof(p)
  BY <1>1, <1>2, <1>3, <1>4, <1>5, PeerLemma DEF Stream!Eof, closed, returned
<1>. QED BY <1>6 DEF Stream!Next

\* The loop reads a segment.
LEMMA NetworkDataSees ==
    ASSUME IInv, IInv', NEW p \in Peers, NetworkData(p)
    PROVE  [Stream!Next]_Stream!vars
<1> PICK q \in Peers : q = Other(p)
  BY PeersLemma
<1> DEFINE seg == Head(net[p])
<1>1. /\ InLoop(p) /\ UNCHANGED <<written, taken, closing, unblocked, running>>
      /\ "NETWORK_DATA" \in event[p]
      /\ OnAck(p, seg) \/ (IsFin(seg) /\ OnFin(p, seg)) \/ OnOther(p)
  BY DEF NetworkData, IsFin
<1>2. net[p] # <<>>
  <2>1. LinkInv(p, q)
    BY <1>1, LoopFacts DEF InLoop
  <2>. QED BY <1>1, <2>1 DEF LinkInv, EventInv
<1>3. CASE OnAck(p, seg)
  BY <1>1, <1>2, <1>3, OnAckSees
<1>4. CASE IsFin(seg) /\ OnFin(p, seg)
  BY <1>1, <1>2, <1>4, OnFinSees
<1>5. CASE OnOther(p)
  <2>1. UNCHANGED <<unblocked, written, rcvd, eof, closing, done, running>>
    BY <1>1, <1>5 DEF OnOther, ctx
  <2>2. closed' = closed /\ returned' = returned
    BY <2>1 DEF closed, returned
  <2>. QED BY <2>1, <2>2, Unseen
<1>. QED BY <1>1, <1>3, <1>4, <1>5

\* The loop ends: both applications have been told of the end.
LEMMA ReturnSees ==
    ASSUME IInv, NEW p \in Peers, Return(p)
    PROVE  Stream!Next
<1> PICK q \in Peers : q = Other(p)
  BY PeersLemma
<1>1. TypeOK /\ unblocked[p] /\ running[p] /\ done[p]
  BY DEF IInv, InLoop, Return
<1>2. /\ running' = [running EXCEPT ![p] = FALSE]
      /\ UNCHANGED <<unblocked, written, rcvd, eof, closing, done>>
  BY DEF Return, ctx, app
<1>3. eof[p] /\ eof[q]
  <2>1. LinkInv(p, q)
    BY <1>1, LoopFacts
  <2>. QED BY <1>1, <2>1 DEF LinkInv, StateInv
<1>4. closed' = closed
  BY <1>2 DEF closed
<1>5. ~returned[p] /\ returned' = [returned EXCEPT ![p] = TRUE]
  BY <1>1, <1>2 DEF TypeOK, returned
<1>6. Stream!Return(p)
  BY <1>2, <1>3, <1>4, <1>5, PeerLemma DEF Stream!Return, closed, returned
<1>. QED BY <1>6 DEF Stream!Next

\* What the applications do themselves.
LEMMA ApplicationSees ==
    ASSUME IInv, NEW p \in Peers, Application(p)
    PROVE  Stream!Next
<1>1. TypeOK /\ unblocked[p] /\ closing[p] = "open"
  BY DEF IInv, Application, AppWrite, AppClose
<1>2. UNCHANGED <<unblocked, rcvd, eof, done, running>>
  BY DEF Application, AppWrite, AppClose, ctx
<1>3. returned' = returned
  BY <1>2 DEF returned
<1>4. ~closed[p]
  BY <1>1 DEF closed
<1>5. CASE AppWrite(p)
  <2>1. /\ written[p] < MaxWrite /\ written' = [written EXCEPT ![p] = @ + 1]
        /\ closing' = closing
    BY <1>5 DEF AppWrite
  <2>2. closed' = closed
    BY <2>1 DEF closed
  <2>3. Stream!Write(p)
    BY <1>1, <1>2, <1>3, <1>4, <2>1, <2>2 DEF Stream!Write, closed, returned
  <2>. QED BY <2>3 DEF Stream!Next
<1>6. CASE AppClose(p)
  <2>1. closing' = [closing EXCEPT ![p] = "requested"] /\ written' = written
    BY <1>6 DEF AppClose
  <2>2. closed' = [closed EXCEPT ![p] = TRUE]
    BY <1>1, <2>1 DEF TypeOK, closed
  <2>3. Stream!Close(p)
    BY <1>1, <1>2, <1>3, <1>4, <2>1, <2>2 DEF Stream!Close, closed, returned
  <2>. QED BY <2>3 DEF Stream!Next
<1>. QED BY <1>5, <1>6 DEF Application

\* Every step of the two peers.
LEMMA StreamStep ==
    ASSUME IInv, IInv', [Next]_vars
    PROVE  [Stream!Next]_Stream!vars
<1>1. CASE Handshake
  BY <1>1, HandshakeSees
<1>2. ASSUME NEW p \in Peers, ControlLoop(p) \/ Application(p)
      PROVE  [Stream!Next]_Stream!vars
  <2>1. TypeOK
    BY DEF IInv
  <2>. QED BY <1>2, <2>1, LoopUnseen, NetworkDataSees, ReturnSees, ApplicationSees DEF ControlLoop
<1>3. CASE Finished \/ UNCHANGED vars
  <2>1. UNCHANGED <<unblocked, written, rcvd, eof, closing, done, running>>
    BY <1>3 DEF Finished, vars, ctx, app
  <2>2. closed' = closed /\ returned' = returned
    BY <2>1 DEF closed, returned
  <2>. QED BY <2>1, <2>2, Unseen
<1>. QED BY <1>1, <1>2, <1>3 DEF Next

\* What the two applications see of two STCP transport layers, for every
\* window, segment size and length of the streams, is two byte streams: in
\* order and complete before their end is told, and no transport layer returns
\* before both ends were.
THEOREM StreamsDelivered == Spec => DeliversByteStreams
<1>1. Init => Stream!Init
  BY StreamInit
<1>2. IInv /\ IInv' /\ [Next]_vars => [Stream!Next]_Stream!vars
  BY StreamStep
<1>. QED BY <1>1, <1>2, Invariant, PTL DEF Spec, DeliversByteStreams, Stream!Safe

=============================================================================
