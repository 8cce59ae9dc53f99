----------------------------- MODULE ByteStream -----------------------------
(***************************************************************************)
(* What the two applications on a mysocket connection are promised by      *)
(* EE323/lab3/transport.c: two independent byte streams, each delivered in *)
(* order and in full before its end is reported, and a transport layer     *)
(* that returns once both streams have ended.  No segments, windows or     *)
(* acknowledgements: STCP is shown to implement this.                      *)
(***************************************************************************)
EXTENDS Integers, Sequences

CONSTANTS Ends,     \* the two applications
          MaxWrite  \* bound: bytes each application writes

VARIABLES opened,    \* the application has been unblocked
          written,   \* how many bytes it has written
          closed,    \* it has closed its stream
          rcvd,      \* the bytes it has been given
          eof,       \* it has been told of the end of the other stream
          returned   \* its transport layer has returned

vars == <<opened, written, closed, rcvd, eof, returned>>

Peer(p) == CHOOSE q \in Ends : q # p

Init ==
    /\ opened = [p \in Ends |-> FALSE]
    /\ written = [p \in Ends |-> 0]
    /\ closed = [p \in Ends |-> FALSE]
    /\ rcvd = [p \in Ends |-> <<>>]
    /\ eof = [p \in Ends |-> FALSE]
    /\ returned = [p \in Ends |-> FALSE]

Open(p) ==
    /\ ~opened[p]
    /\ opened' = [opened EXCEPT ![p] = TRUE]
    /\ UNCHANGED <<written, closed, rcvd, eof, returned>>

Write(p) ==
    /\ opened[p] /\ ~closed[p] /\ written[p] < MaxWrite
    /\ written' = [written EXCEPT ![p] = @ + 1]
    /\ UNCHANGED <<opened, closed, rcvd, eof, returned>>

Close(p) ==
    /\ opened[p] /\ ~closed[p]
    /\ closed' = [closed EXCEPT ![p] = TRUE]
    /\ UNCHANGED <<opened, written, rcvd, eof, returned>>

\* The next bytes the other end wrote, in order.
Deliver(p) ==
    /\ opened[p] /\ ~eof[p]
    /\ \E n \in 1..(written[Peer(p)] - Len(rcvd[p])) :
         rcvd' = [rcvd EXCEPT ![p] = @ \o [i \in 1..n |-> Len(@) + i]]
    /\ UNCHANGED <<opened, written, closed, eof, returned>>

\* The end of the stream, once everything has been delivered.
Eof(p) ==
    /\ opened[p] /\ ~eof[p]
    /\ closed[Peer(p)] /\ Len(rcvd[p]) = written[Peer(p)]
    /\ eof' = [eof EXCEPT ![p] = TRUE]
    /\ UNCHANGED <<opened, written, closed, rcvd, returned>>

Return(p) ==
    /\ ~returned[p] /\ eof[p] /\ eof[Peer(p)]
    /\ returned' = [returned EXCEPT ![p] = TRUE]
    /\ UNCHANGED <<opened, written, closed, rcvd, eof>>

Next == \E p \in Ends :
    Open(p) \/ Write(p) \/ Close(p) \/ Deliver(p) \/ Eof(p) \/ Return(p)

Fairness == \A p \in Ends :
    WF_vars(Open(p)) /\ WF_vars(Deliver(p)) /\ WF_vars(Eof(p)) /\ WF_vars(Return(p))

Safe == Init /\ [][Next]_vars
Spec == Safe /\ Fairness

=============================================================================
