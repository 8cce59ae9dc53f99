------------------------------ MODULE STCPInv -------------------------------
(***************************************************************************)
(* The inductive invariant behind STCP's safety properties.  Before the    *)
(* active peer has received the SYN+ACK (~Linked) nothing but handshake    *)
(* segments exists; from then on each direction is described by the chain  *)
(* of segments between the sender's send_seq and the receiver's recv_ack.  *)
(***************************************************************************)
EXTENDS STCP

SYNACK == Seg({"SYN", "ACK"}, ISN, ISN + 1, <<>>)

Linked == connection_state[Active] \notin {"LISTEN", "SYNSENT"}

Idle(p) ==
    /\ ~unblocked[p] /\ ~done[p] /\ event[p] = {}
    /\ written[p] = 0 /\ taken[p] = 0 /\ closing[p] = "open"
    /\ rcvd[p] = <<>> /\ ~eof[p]
    /\ window[p] = Window /\ send_ack[p] = 0

HandshakeInv == ~Linked =>
    /\ \A p \in Peers : Idle(p)
    /\ running[Active] /\ send_seq[Active] = ISN
    /\ connection_state[Passive] \in {"LISTEN", "SYNRCVD"}
    /\ \A i \in DOMAIN net[Passive] : net[Passive][i].seq = ISN
    /\ connection_state[Active] = "LISTEN" =>
         \A i \in DOMAIN net[Passive] : net[Passive][i].flags # {"SYN"}
    /\ \A i \in DOMAIN net[Passive] :
         net[Passive][i].flags = {"SYN"} => i = Len(net[Passive])
    /\ \A i \in DOMAIN net[Passive] : "FIN" \in net[Passive][i].flags => i = 1
    /\ connection_state[Passive] = "LISTEN" =>
         running[Passive] /\ net[Active] = <<>> /\ send_seq[Passive] = ISN
    /\ ~running[Passive] => net[Active] = <<>>
    /\ connection_state[Passive] = "SYNRCVD" /\ running[Passive] =>
         /\ connection_state[Active] = "SYNSENT"
         /\ net[Passive] = <<>> /\ net[Active] = <<SYNACK>>
         /\ send_seq[Passive] = ISN + 1 /\ recv_ack[Passive] = ISN + 1

FinSent(p) == connection_state[p] \in
    {"FIN_WAIT_1", "FIN_WAIT_2", "LAST_ACK", "CLOSING", "CLOSED"}

One(b) == IF b THEN 1 ELSE 0

Got(p) == Len(rcvd[p])
Size(seg) == Len(seg.data)

IsFin(seg)  == "FIN" \in seg.flags
IsPure(seg) == seg.data = <<>> /\ ~IsFin(seg)
SegEnd(seg) == seg.seq + Size(seg) + One(IsFin(seg))

\* The segments from p on their way to the other peer, one by one ...
SegmentInv(p, q, seg) ==
    /\ seg.flags = {"ACK"} \/ seg.flags = {"FIN", "ACK"}
    /\ seg.data = Bytes(seg.seq - (ISN + 1), Size(seg))
    /\ seg.seq >= recv_ack[q] /\ SegEnd(seg) <= send_seq[p]
    /\ seg.data # <<>> => SegEnd(seg) <= ISN + 1 + taken[p]
    /\ IsFin(seg) => seg.data = <<>> /\ seg.seq = send_seq[p] - 1 /\ FinSent(p)
    /\ ISN + 1 <= seg.ack /\ send_ack[q] <= seg.ack /\ seg.ack <= recv_ack[p]

\* ... and as a chain: sequence numbers are contiguous, acknowledgements
\* never go back, and a segment that carries nothing else advances them.
ChainInv(p, q) ==
    /\ net[q] = <<>> => recv_ack[q] = send_seq[p]
    /\ net[q] # <<>> => /\ net[q][1].seq = recv_ack[q]
                        /\ SegEnd(net[q][Len(net[q])]) = send_seq[p]
    /\ \A i \in 1..Len(net[q]) - 1 : net[q][i + 1].seq = SegEnd(net[q][i])
    /\ \A i, j \in DOMAIN net[q] : i < j =>
         /\ SegEnd(net[q][i]) <= net[q][j].seq
         /\ net[q][i].ack <= net[q][j].ack
         /\ IsPure(net[q][j]) => net[q][i].ack < net[q][j].ack

FlightInv(p, q) ==
    /\ \A i \in DOMAIN net[q] : SegmentInv(p, q, net[q][i])
    /\ ChainInv(p, q)

\* The two registers of a direction, and the bytes and FIN behind them.
RegisterInv(p, q) ==
    /\ send_seq[p] = ISN + 1 + taken[p] + One(FinSent(p))
    /\ recv_ack[q] = ISN + 1 + Got(q) + One(eof[q])
    /\ recv_ack[q] <= send_seq[p]
    /\ send_ack[p] <= recv_ack[q]
    /\ Got(q) <= taken[p] /\ taken[p] <= written[p]
    /\ rcvd[q] = Bytes(0, Got(q))
    /\ eof[q] => FinSent(p) /\ recv_ack[q] = send_seq[p]

\* The send window of an end that is past the handshake.
WindowInv(p) ==
    IF unblocked[p]
      THEN /\ send_ack[p] >= ISN + 1
           /\ window[p] = IF ISN + 1 + taken[p] > send_ack[p]
                            THEN Window - (ISN + 1 + taken[p] - send_ack[p])
                            ELSE Window
      ELSE Idle(p)

\* The acknowledgement that ends the handshake is on its way to p.
Awaited(p) == net[p] # <<>> /\ IsPure(net[p][1])

\* What the state of one end says about its streams and about the other end.
StateInv(p, q) ==
    /\ connection_state[p] \notin {"LISTEN", "SYNSENT"}
    /\ connection_state[p] = "SYNRCVD" <=> ~unblocked[p]
    /\ connection_state[p] = "SYNRCVD" => running[p] /\ Awaited(p)
    /\ eof[p] <=> connection_state[p] \in {"CLOSE_WAIT", "LAST_ACK", "CLOSING", "CLOSED"}
    /\ done[p] <=> connection_state[p] = "CLOSED"
    /\ connection_state[p] = "FIN_WAIT_2" => eof[q] /\ send_ack[p] = send_seq[p]
    /\ done[p] => eof[q] /\ event[p] = {} /\ net[p] = <<>>
    /\ ~running[p] => done[p]

\* The bits of the last wait, and the close request behind one of them.
EventInv(p) ==
    /\ "APP_DATA" \in event[p] => taken[p] < written[p]
    /\ "NETWORK_DATA" \in event[p] => net[p] # <<>>
    /\ "APP_CLOSE_REQUESTED" \in event[p] => closing[p] = "signalled"
    /\ closing[p] = "signalled" =>
         /\ taken[p] = written[p]
         /\ FinSent(p) \/ "APP_CLOSE_REQUESTED" \in event[p]
    /\ FinSent(p) => closing[p] = "signalled" /\ "APP_CLOSE_REQUESTED" \notin event[p]

\* One direction of the connection, and the end that sends in it.
LinkInv(p, q) ==
    /\ FlightInv(p, q)
    /\ RegisterInv(p, q)
    /\ WindowInv(p)
    /\ StateInv(p, q)
    /\ EventInv(p)

LinkedInv == Linked => \A p \in Peers : LinkInv(p, Other(p))

\* The invariant of the whole connection.
IInv == TypeOK /\ HandshakeInv /\ LinkedInv

=============================================================================
