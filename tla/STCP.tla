-------------------------------- MODULE STCP --------------------------------
(***************************************************************************)
(* The STCP transport layer of EE323/lab3/transport.c: two peers, each a   *)
(* thread that runs transport_init() (three-way handshake, then            *)
(* control_loop()) over one mysocket.  The layers around it are not in the *)
(* repository and are modelled from how transport.c uses them:             *)
(*                                                                         *)
(*   - the network is the reliable, in-order one of the assignment: a      *)
(*     queue of segments per receiver (transport.c has no retransmission   *)
(*     and waits without a timeout, line 192);                             *)
(*   - stcp_wait_for_event() returns the set of all events that are ready, *)
(*     APP_CLOSE_REQUESTED once, after the application's data is drained;  *)
(*   - stcp_app_recv() hands over between 1 and max_len of the bytes the   *)
(*     application wrote.                                                  *)
(*                                                                         *)
(* The k-th byte a peer's application writes is the number k.  Sequence    *)
(* and acknowledgement registers hold the number of which the program's    *)
(* 32-bit register is the residue modulo SeqMod: the program only adds to  *)
(* them and copies them, and each place where it looks at one (==, and the *)
(* subtraction that feeds the 16-bit window) takes the residue here.       *)
(***************************************************************************)
EXTENDS Integers, Sequences

CONSTANTS
    Active, Passive,  \* the peer that connects, the peer that accepts
    Window,           \* WINDOW (line 22)
    MSS,              \* STCP_MSS: largest payload of a segment
    SeqMod,           \* 2^32, the range of a tcp_seq
    WinMod,           \* 2^16, the range of ctx->window
    Stray,            \* flag sets a segment that reaches the listener first may carry
    MaxWrite          \* bound: bytes each application writes

ASSUME PeersAssumption == Active # Passive
ASSUME SizesAssumption ==
    /\ Window \in Nat \ {0} /\ MSS \in Nat \ {0} /\ MaxWrite \in Nat
    /\ SeqMod \in Nat /\ WinMod \in Nat
    /\ Window + 1 < SeqMod /\ Window + 1 < WinMod
ASSUME StrayAssumption == \A flags \in Stray :
    flags \subseteq {"SYN", "ACK", "FIN"} /\ flags # {"SYN"}

VARIABLES
    connection_state, done,                \* ctx->connection_state, ctx->done
    send_seq, send_ack, recv_ack, window,  \* the registers of ctx
    event,      \* control_loop: the bits of the last wait not handled yet
    running,    \* transport_init() has not returned
    unblocked,  \* stcp_unblock_application() was called
    net,        \* net[p]: the segments on their way to p
    written,    \* bytes p's application has written
    taken,      \* of those, how many stcp_app_recv() handed over
    closing,    \* myclose(): "open", "requested", then "signalled" to the loop
    rcvd,       \* rcvd[p]: the bytes stcp_app_send() gave to p's application
    eof         \* stcp_fin_received() was called

ctx  == <<connection_state, done, send_seq, send_ack, recv_ack, window>>
app  == <<written, taken, closing, rcvd, eof, unblocked>>
vars == <<ctx, app, event, running, net>>

Peers == {Active, Passive}
Other(p) == IF p = Active THEN Passive ELSE Active

States == {"LISTEN", "SYNSENT", "SYNRCVD", "ESTABLISHED", "FIN_WAIT_1",
           "FIN_WAIT_2", "CLOSE_WAIT", "LAST_ACK", "CLOSING", "CLOSED"}
Flags  == {"SYN", "ACK", "FIN"}
Events == {"APP_DATA", "NETWORK_DATA", "APP_CLOSE_REQUESTED"}

Segment == [flags : SUBSET Flags, seq : Nat, ack : Nat, data : Seq(Nat)]

ISN == 1  \* generate_initial_seq_num()

Least(a, b) == IF a < b THEN a ELSE b

\* n consecutive bytes of a stream, after the first k
Bytes(k, n) == [i \in 1..n |-> k + i]

Seg(flags, seq, ack, data) ==
    [flags |-> flags, seq |-> seq, ack |-> ack, data |-> data]

Send(p, seg) == net' = [net EXCEPT ![Other(p)] = Append(@, seg)]
Consume(p)   == net' = [net EXCEPT ![p] = Tail(@)]
Reply(p, seg) ==
    net' = [net EXCEPT ![p] = Tail(@), ![Other(p)] = Append(@, seg)]

-----------------------------------------------------------------------------

Init ==
    /\ connection_state = [p \in Peers |-> "LISTEN"]
    /\ done = [p \in Peers |-> FALSE]
    /\ send_seq = [p \in Peers |-> ISN]
    /\ send_ack = [p \in Peers |-> 0]
    /\ recv_ack = [p \in Peers |-> 0]
    /\ window = [p \in Peers |-> Window]
    /\ event = [p \in Peers |-> {}]
    /\ running = [p \in Peers |-> TRUE]
    /\ unblocked = [p \in Peers |-> FALSE]
    /\ written = [p \in Peers |-> 0]
    /\ taken = [p \in Peers |-> 0]
    /\ closing = [p \in Peers |-> "open"]
    /\ rcvd = [p \in Peers |-> <<>>]
    /\ eof = [p \in Peers |-> FALSE]
    /\ \/ net = [p \in Peers |-> <<>>]
       \/ \E flags \in Stray :
            net = [p \in Peers |->
                     IF p = Passive THEN <<Seg(flags, ISN, 0, <<>>)>> ELSE <<>>]

-----------------------------------------------------------------------------
(* The handshake of transport_init().                                      *)

\* is_active: send SYN.  Its th_ack is never set, and never read.
Connect ==
    /\ connection_state[Active] = "LISTEN"
    /\ Send(Active, Seg({"SYN"}, send_seq[Active], 0, <<>>))
    /\ connection_state' = [connection_state EXCEPT ![Active] = "SYNSENT"]
    /\ UNCHANGED <<done, send_seq, send_ack, recv_ack, window, app, event, running>>

\* is_active: whatever arrives is taken for the SYN+ACK and acknowledged.
RecvSynAck ==
    /\ connection_state[Active] = "SYNSENT"
    /\ net[Active] # <<>>
    /\ LET synack == Head(net[Active]) IN
         /\ send_seq' = [send_seq EXCEPT ![Active] = @ + 1]
         /\ send_ack' = [send_ack EXCEPT ![Active] = synack.ack]
         /\ recv_ack' = [recv_ack EXCEPT ![Active] = synack.seq + 1]
         /\ Reply(Active, Seg({"ACK"}, send_seq[Active] + 1, synack.seq + 1, <<>>))
    /\ connection_state' = [connection_state EXCEPT ![Active] = "ESTABLISHED"]
    /\ unblocked' = [unblocked EXCEPT ![Active] = TRUE]
    /\ UNCHANGED <<done, window, written, taken, closing, rcvd, eof, event, running>>

\* !is_active: a first segment that is a SYN is answered with SYN+ACK.
RecvSyn ==
    /\ connection_state[Passive] = "LISTEN"
    /\ net[Passive] # <<>>
    /\ LET syn == Head(net[Passive]) IN
         /\ syn.flags = {"SYN"}
         /\ recv_ack' = [recv_ack EXCEPT ![Passive] = syn.seq + 1]
         /\ Reply(Passive, Seg({"SYN", "ACK"}, send_seq[Passive], syn.seq + 1, <<>>))
    /\ send_seq' = [send_seq EXCEPT ![Passive] = @ + 1]
    /\ connection_state' = [connection_state EXCEPT ![Passive] = "SYNRCVD"]
    /\ UNCHANGED <<done, send_ack, window, app, event, running>>

\* Fault: a first segment that is no SYN is reported, and waited on from.
FaultyRefuse ==
    /\ connection_state[Passive] = "LISTEN"
    /\ net[Passive] # <<>>
    /\ Head(net[Passive]).flags # {"SYN"}
    /\ Consume(Passive)
    /\ connection_state' = [connection_state EXCEPT ![Passive] = "SYNRCVD"]
    /\ UNCHANGED <<done, send_seq, send_ack, recv_ack, window, app, event, running>>

\* !is_active: a first segment that is anything else ends transport_init().
Refuse ==
    /\ connection_state[Passive] = "LISTEN"
    /\ net[Passive] # <<>>
    /\ Head(net[Passive]).flags # {"SYN"}
    /\ Consume(Passive)
    /\ connection_state' = [connection_state EXCEPT ![Passive] = "SYNRCVD"]
    /\ running' = [running EXCEPT ![Passive] = FALSE]
    /\ UNCHANGED <<done, send_seq, send_ack, recv_ack, window, app, event>>

\* !is_active: whatever arrives next is taken for the ACK of the SYN+ACK.
RecvHandshakeAck ==
    /\ connection_state[Passive] = "SYNRCVD"
    /\ running[Passive]
    /\ net[Passive] # <<>>
    /\ send_ack' = [send_ack EXCEPT ![Passive] = Head(net[Passive]).ack]
    /\ Consume(Passive)
    /\ connection_state' = [connection_state EXCEPT ![Passive] = "ESTABLISHED"]
    /\ unblocked' = [unblocked EXCEPT ![Passive] = TRUE]
    /\ UNCHANGED <<done, send_seq, recv_ack, window, written, taken, closing,
                   rcvd, eof, event, running>>

-----------------------------------------------------------------------------
(* control_loop(): a wait takes a snapshot of the ready events; the body   *)
(* then handles the bits of the snapshot in this order.                    *)

InLoop(p) == unblocked[p] /\ running[p]

ReadyEvents(p) ==
    {e \in Events :
        \/ e = "APP_DATA" /\ taken[p] < written[p]
        \/ e = "NETWORK_DATA" /\ net[p] # <<>>
        \/ e = "APP_CLOSE_REQUESTED" /\ closing[p] = "requested"
                                     /\ taken[p] = written[p]}

WaitForEvent(p) ==
    /\ InLoop(p) /\ ~done[p] /\ event[p] = {}
    /\ ReadyEvents(p) # {}
    /\ event' = [event EXCEPT ![p] = ReadyEvents(p)]
    /\ closing' = [closing EXCEPT ![p] =
                     IF "APP_CLOSE_REQUESTED" \in ReadyEvents(p) THEN "signalled" ELSE @]
    /\ UNCHANGED <<ctx, written, taken, rcvd, eof, unblocked, running, net>>

\* With a closed window the bit is dropped; the next wait reports it again.
SkipAppData(p) ==
    /\ InLoop(p) /\ "APP_DATA" \in event[p]
    /\ window[p] = 0
    /\ event' = [event EXCEPT ![p] = @ \ {"APP_DATA"}]
    /\ UNCHANGED <<ctx, app, running, net>>

\* Fault: what is sent is as much as was asked for, not as much as was read.
FaultyFullSegment(p) ==
    /\ InLoop(p) /\ "APP_DATA" \in event[p]
    /\ window[p] > 0
    /\ \E n \in {Least(window[p], MSS)} :
         /\ Send(p, Seg({"ACK"}, send_seq[p], recv_ack[p], Bytes(taken[p], n)))
         /\ taken' = [taken EXCEPT ![p] = Least(@ + n, written[p])]
         /\ send_seq' = [send_seq EXCEPT ![p] = @ + n]
         /\ window' = [window EXCEPT ![p] = @ - n]
    /\ event' = [event EXCEPT ![p] = @ \ {"APP_DATA"}]
    /\ UNCHANGED <<connection_state, done, send_ack, recv_ack, written, closing,
                   rcvd, eof, unblocked, running>>

SendAppData(p) ==
    /\ InLoop(p) /\ "APP_DATA" \in event[p]
    /\ window[p] > 0
    /\ \E n \in 1..Least(Least(window[p], MSS), written[p] - taken[p]) :
         /\ Send(p, Seg({"ACK"}, send_seq[p], recv_ack[p], Bytes(taken[p], n)))
         /\ taken' = [taken EXCEPT ![p] = @ + n]
         /\ send_seq' = [send_seq EXCEPT ![p] = @ + n]
         /\ window' = [window EXCEPT ![p] = (@ - n) % WinMod]
    /\ event' = [event EXCEPT ![p] = @ \ {"APP_DATA"}]
    /\ UNCHANGED <<connection_state, done, send_ack, recv_ack, written, closing,
                   rcvd, eof, unblocked, running>>

\* Fault: any acknowledgement is taken for that of the FIN.
FaultyAnyAck(p, seg) == TRUE

\* send_seq == new_ack, as the 32-bit registers compare
AcksAll(p, seg) == (send_seq[p] - seg.ack) % SeqMod = 0

\* Faults in the bookkeeping of the window: it is opened in full by every
\* acknowledgement, counted in segments, not capped, or never opened again.
FaultyFullWindow(p, seg) == Window
FaultySegmentWindow(p, seg) == Least(Window, window[p] + 1)
FaultyUncappedWindow(p, seg) == (window[p] + ((seg.ack - send_ack[p]) % SeqMod)) % WinMod
FaultyShutWindow(p, seg) == window[p]

\* window += new_ack - send_ack, truncated to 16 bits and capped
GrownWindow(p, seg) ==
    Least(Window, (window[p] + ((seg.ack - send_ack[p]) % SeqMod)) % WinMod)

StateAfterAck(state, acked) ==
    CASE acked /\ state \in {"LAST_ACK", "CLOSING"} -> "CLOSED"
      [] acked /\ state = "FIN_WAIT_1"              -> "FIN_WAIT_2"
      [] OTHER                                      -> state

\* Faults: a simultaneous close ends the connection at once, and the FIN
\* that comes after the ACK of one's own does not end it.
FaultySimultaneousClose(state, acked) ==
    CASE state = "ESTABLISHED"                  -> "CLOSE_WAIT"
      [] state \in {"FIN_WAIT_1", "FIN_WAIT_2"} -> "CLOSED"
      [] OTHER                                  -> state
FaultyFinWait2(state, acked) ==
    CASE state = "ESTABLISHED"           -> "CLOSE_WAIT"
      [] state = "FIN_WAIT_1" /\ acked   -> "CLOSED"
      [] state = "FIN_WAIT_1" /\ ~acked  -> "CLOSING"
      [] OTHER                           -> state

StateAfterFin(state, acked) ==
    CASE state = "ESTABLISHED"           -> "CLOSE_WAIT"
      [] state = "FIN_WAIT_1" /\ acked   -> "CLOSED"
      [] state = "FIN_WAIT_1" /\ ~acked  -> "CLOSING"
      [] state = "FIN_WAIT_2"            -> "CLOSED"
      [] OTHER                           -> state

\* A pure ACK segment, with or without payload.  The acknowledgement that
\* ends LAST_ACK leaves the body at once (`continue').
OnAck(p, seg) ==
    /\ IF seg.data = <<>>
         THEN Consume(p)
         ELSE Reply(p, Seg({"ACK"}, send_seq[p], seg.seq + Len(seg.data), <<>>))
    /\ rcvd' = [rcvd EXCEPT ![p] = @ \o seg.data]
    /\ recv_ack' = [recv_ack EXCEPT ![p] = @ + Len(seg.data)]
    /\ window' = [window EXCEPT ![p] = GrownWindow(p, seg)]
    /\ send_ack' = [send_ack EXCEPT ![p] = seg.ack]
    /\ connection_state' =
         [connection_state EXCEPT ![p] = StateAfterAck(@, AcksAll(p, seg))]
    /\ done' = [done EXCEPT ![p] =
         @ \/ (connection_state[p] \in {"LAST_ACK", "CLOSING"} /\ AcksAll(p, seg))]
    /\ event' = [event EXCEPT ![p] =
         IF connection_state[p] = "LAST_ACK" /\ AcksAll(p, seg)
           THEN {} ELSE @ \ {"NETWORK_DATA"}]
    /\ UNCHANGED <<send_seq, eof>>

\* Fault: the FIN is answered with a FIN, though the application is not done.
FaultyFinEcho(p, seg) ==
    /\ eof' = [eof EXCEPT ![p] = TRUE]
    /\ connection_state' = [connection_state EXCEPT ![p] = StateAfterFin(@, FALSE)]
    /\ Reply(p, Seg({"FIN", "ACK"}, send_seq[p], seg.seq + 1, <<>>))
    /\ recv_ack' = [recv_ack EXCEPT ![p] = @ + 1]
    /\ event' = [event EXCEPT ![p] = @ \ {"NETWORK_DATA"}]
    /\ UNCHANGED <<done, send_seq, send_ack, window, rcvd>>

OnFin(p, seg) ==
    LET acked == AcksAll(p, seg) /\ "ACK" \in seg.flags
        state == StateAfterFin(connection_state[p], acked)
    IN  /\ eof' = [eof EXCEPT ![p] = TRUE]
        /\ connection_state' = [connection_state EXCEPT ![p] = state]
        /\ done' = [done EXCEPT ![p] =
             @ \/ (state = "CLOSED" /\ connection_state[p] # "CLOSED")]
        /\ Reply(p, Seg({"ACK"}, send_seq[p], seg.seq + 1, <<>>))
        /\ recv_ack' = [recv_ack EXCEPT ![p] = @ + 1]
        /\ event' = [event EXCEPT ![p] = @ \ {"NETWORK_DATA"}]
        /\ UNCHANGED <<send_seq, send_ack, window, rcvd>>

\* Any other segment is read and ignored.
OnOther(p) ==
    /\ Consume(p)
    /\ event' = [event EXCEPT ![p] = @ \ {"NETWORK_DATA"}]
    /\ UNCHANGED <<ctx, rcvd, eof>>

\* Fault: data that arrives after the application has closed is ignored.
FaultyHalfClose(p) ==
    /\ InLoop(p)
    /\ "APP_DATA" \notin event[p] /\ "NETWORK_DATA" \in event[p]
    /\ LET seg == Head(net[p]) IN
         IF "FIN" \in seg.flags THEN OnFin(p, seg)
         ELSE IF seg.data # <<>> /\ connection_state[p] \in {"FIN_WAIT_1", "FIN_WAIT_2"}
                THEN OnOther(p)
         ELSE OnAck(p, seg)
    /\ UNCHANGED <<written, taken, closing, unblocked, running>>

NetworkData(p) ==
    /\ InLoop(p)
    /\ "APP_DATA" \notin event[p] /\ "NETWORK_DATA" \in event[p]
    /\ LET seg == Head(net[p]) IN
         IF seg.flags = {"ACK"} THEN OnAck(p, seg)
         ELSE IF "FIN" \in seg.flags THEN OnFin(p, seg)
         ELSE OnOther(p)
    /\ UNCHANGED <<written, taken, closing, unblocked, running>>

StateAfterClose(state) ==
    CASE state = "ESTABLISHED" -> "FIN_WAIT_1"
      [] state = "CLOSE_WAIT"  -> "LAST_ACK"
      [] OTHER                 -> state

\* Fault: the FIN takes no sequence number.
FaultyUncountedFin(p) ==
    /\ InLoop(p)
    /\ event[p] = {"APP_CLOSE_REQUESTED"}
    /\ Send(p, Seg({"FIN", "ACK"}, send_seq[p], recv_ack[p], <<>>))
    /\ connection_state' = [connection_state EXCEPT ![p] = StateAfterClose(@)]
    /\ event' = [event EXCEPT ![p] = {}]
    /\ UNCHANGED <<done, send_seq, send_ack, recv_ack, window, app, running>>

CloseRequested(p) ==
    /\ InLoop(p)
    /\ event[p] = {"APP_CLOSE_REQUESTED"}
    /\ Send(p, Seg({"FIN", "ACK"}, send_seq[p], recv_ack[p], <<>>))
    /\ send_seq' = [send_seq EXCEPT ![p] = @ + 1]
    /\ connection_state' = [connection_state EXCEPT ![p] = StateAfterClose(@)]
    /\ event' = [event EXCEPT ![p] = {}]
    /\ UNCHANGED <<done, send_ack, recv_ack, window, app, running>>

\* The loop ends, and transport_init() returns.
Return(p) ==
    /\ InLoop(p) /\ done[p] /\ event[p] = {}
    /\ running' = [running EXCEPT ![p] = FALSE]
    /\ UNCHANGED <<ctx, app, event, net>>

-----------------------------------------------------------------------------
(* The application, once its myconnect() or myaccept() has been unblocked. *)

AppWrite(p) ==
    /\ unblocked[p] /\ closing[p] = "open"
    /\ written[p] < MaxWrite
    /\ written' = [written EXCEPT ![p] = @ + 1]
    /\ UNCHANGED <<ctx, taken, closing, rcvd, eof, unblocked, event, running, net>>

AppClose(p) ==
    /\ unblocked[p] /\ closing[p] = "open"
    /\ closing' = [closing EXCEPT ![p] = "requested"]
    /\ UNCHANGED <<ctx, written, taken, rcvd, eof, unblocked, event, running, net>>

\* The end of a connection: nothing is left to run.
Finished ==
    /\ \A p \in Peers : ~running[p]
    /\ UNCHANGED vars

-----------------------------------------------------------------------------

Handshake == Connect \/ RecvSynAck \/ RecvSyn \/ Refuse \/ RecvHandshakeAck

ControlLoop(p) ==
    \/ WaitForEvent(p)
    \/ SkipAppData(p)
    \/ SendAppData(p)
    \/ NetworkData(p)
    \/ CloseRequested(p)
    \/ Return(p)

Application(p) == AppWrite(p) \/ AppClose(p)

Next ==
    \/ Handshake
    \/ \E p \in Peers : ControlLoop(p) \/ Application(p)
    \/ Finished

\* Each transport thread runs whenever it can; applications need not act.
Fairness ==
    /\ WF_vars(Connect \/ RecvSynAck)
    /\ WF_vars(RecvSyn \/ Refuse \/ RecvHandshakeAck)
    /\ \A p \in Peers : WF_vars(ControlLoop(p))

Spec == Init /\ [][Next]_vars /\ Fairness

-----------------------------------------------------------------------------

\* What the state of the two endpoints is made of.
TypeOK ==
    /\ connection_state \in [Peers -> States]
    /\ done \in [Peers -> BOOLEAN]
    /\ send_seq \in [Peers -> Nat] /\ send_ack \in [Peers -> Nat]
    /\ recv_ack \in [Peers -> Nat]
    /\ window \in [Peers -> 0..Window]
    /\ event \in [Peers -> SUBSET Events]
    /\ running \in [Peers -> BOOLEAN] /\ unblocked \in [Peers -> BOOLEAN]
    /\ net \in [Peers -> Seq(Segment)]
    /\ written \in [Peers -> Nat] /\ taken \in [Peers -> Nat]
    /\ closing \in [Peers -> {"open", "requested", "signalled"}]
    /\ rcvd \in [Peers -> Seq(Nat)]
    /\ eof \in [Peers -> BOOLEAN]

\* What one application reads is a prefix of what the other wrote: no byte
\* is lost, duplicated or reordered on the way through two control loops.
StreamIntegrity == \A p \in Peers :
    /\ Len(rcvd[Other(p)]) <= written[p]
    /\ rcvd[Other(p)] = Bytes(0, Len(rcvd[Other(p)]))

\* A sender never has more than WINDOW bytes out that the receiving side
\* has not passed to its application.
FlowControl == \A p \in Peers :
    taken[p] - Len(rcvd[Other(p)]) <= Window

\* ctx->window never drifts: it is WINDOW minus the bytes sent and not yet
\* acknowledged, although SYN and FIN take part in the acknowledgement
\* arithmetic and not in the window's, and both are modular.
WindowAccounting == \A p \in Peers :
    unblocked[p] =>
        window[p] = LET out == ISN + 1 + taken[p] - send_ack[p]
                    IN  IF out > 0 THEN Window - out ELSE Window

\* An application is told of the end of the stream only when its peer has
\* closed and every byte the peer wrote has been delivered before.
EofAfterAllData == \A p \in Peers :
    eof[p] => /\ closing[Other(p)] = "signalled"
              /\ Len(rcvd[p]) = written[Other(p)]

\* control_loop() ends only after both applications have closed and both
\* have been given all data and the end of the stream, and it leaves no
\* segment unread.
GracefulEnd == \A p \in Peers :
    done[p] => /\ \A q \in Peers : eof[q] /\ Len(rcvd[Other(q)]) = written[q]
               /\ net[p] = <<>>

\* No FIN leaves ahead of the data written before the close, and none twice.
OneFin == \A p \in Peers :
    LET fins == {i \in DOMAIN net[Other(p)] : "FIN" \in net[Other(p)][i].flags}
    IN  /\ \A i, j \in fins : i = j
        /\ fins # {} => ~eof[Other(p)] /\ taken[p] = written[p]

\* The handshake leaves both ends agreeing on where the streams start, so
\* what a peer next expects is never beyond what the other has sent.
InSync == \A p \in Peers : unblocked[p] =>
    /\ recv_ack[p] <= send_seq[Other(p)]
    /\ send_ack[p] <= recv_ack[Other(p)]

\* "if connection fails ... set errno appropriately ... before calling the
\* function": whenever transport_init() has returned, the application has
\* been unblocked.
RefusalReported == \A p \in Peers : ~running[p] => unblocked[p]

\* A byte written is eventually delivered.
EventualDelivery == \A p \in Peers : \A n \in 1..MaxWrite :
    written[p] >= n ~> Len(rcvd[Other(p)]) >= n

\* Once both applications have closed, both transport layers return.
EventualReturn ==
    (\A p \in Peers : closing[p] # "open") ~> (\A p \in Peers : ~running[p])

-----------------------------------------------------------------------------
(* The streams as the two applications see them.                           *)

Stream == INSTANCE ByteStream WITH
    Ends     <- Peers,
    opened   <- unblocked,
    closed   <- [p \in Peers |-> closing[p] # "open"],
    returned <- [p \in Peers |-> done[p] /\ ~running[p]]

\* What the two applications are given by the transport layers is two byte
\* streams: each step of a behaviour is one of ByteStream, or changes nothing
\* the applications can see ...
DeliversByteStreams == Stream!Safe

\* ... and what ByteStream promises to do in the end is done.
ImplementsByteStream == Stream!Spec

=============================================================================
