------------------------------- MODULE Caesar --------------------------------
(***************************************************************************)
(* The socket server of EE323/lab1, which forks a child for each           *)
(* connection, and its clients.  A direction of a connection is a sequence *)
(* of bytes, of which recv() takes as many as it likes; a byte of a header *)
(* stands for the whole header, a byte of a text is a character code.      *)
(***************************************************************************)
EXTENDS Integers, Sequences

CONSTANTS Clients,
          Scripts,   \* [op, shift, texts]: the arguments and the input of a client
          HEADER_SIZE,    \* sizeof(header): 8
          CHUNK,     \* sizeof(buffer), of a pointer: 8
          MAX_SIZE   \* 9999992

ASSUME SizeAssumption == HEADER_SIZE \in Nat \ {0} /\ CHUNK \in Nat \ {0} /\ MAX_SIZE \in Nat

\* fread() fills a buffer of MAX_SIZE; a byte that is zero would end what is
\* printed.  A shift below zero comes out as a large one: it is left out.
ASSUME ScriptAssumption ==
    \A s \in Scripts :
        /\ s.op \in Nat /\ s.shift \in 0..25
        /\ s.texts \in Seq(Seq(1..255)) /\ Len(s.texts) <= 2
        /\ \A k \in DOMAIN s.texts : Len(s.texts[k]) \in 1..MAX_SIZE

VARIABLES script,
          waiting,  \* connections that accept() has not taken
          conn,     \* the two directions of each connection, and which are open
          client,   \* clients: what they do, and what they have printed
          child,    \* the server's child of each connection
          sigchld   \* a SIGCHLD is pending

caesar_vars == <<script, waiting, conn, client, child, sigchld>>

Lower == 97..122
Upper == 65..90
Caesar(c, shift) ==
    IF c \in Lower THEN 97 + ((c - 97 + shift) % 26)
    ELSE IF c \in Upper THEN 97 + ((c - 65 + shift) % 26) ELSE c

Texts(c) == script[c].texts

Header(op, shift, length) ==
    [i \in 1..HEADER_SIZE |-> [op |-> op, shift |-> shift, length |-> length]]

\* The zero that ends the text is counted, but not sent.
FaultyMessage(op, shift, text) == Header(op, shift, Len(text) + HEADER_SIZE + 1) \o text

Message(op, shift, text) == Header(op, shift, Len(text) + HEADER_SIZE) \o text

\* send_msg() of the server; shift is 16 bits wide.
Reply(h, text) ==
    Header(h.op, h.shift, h.length) \o
        [i \in DOMAIN text |-> Caesar(text[i], IF h.op = 0 THEN h.shift ELSE (26 - h.shift) % 65536)]

\* The lengths recv() may return for at most size bytes, and what it leaves.
Received(bytes, size) == 1..(IF Len(bytes) < size THEN Len(bytes) ELSE size)
Rest(bytes, n) == SubSeq(bytes, n + 1, Len(bytes))

-----------------------------------------------------------------------------
Listen(scripts) ==
    /\ script = scripts
    /\ waiting = <<>> /\ sigchld = FALSE
    /\ conn = [c \in Clients |-> [up |-> <<>>, down |-> <<>>, upopen |-> TRUE, downopen |-> TRUE]]
    /\ client = [c \in Clients |-> [at |-> "start", sent |-> 0, size |-> 0, buffer |-> <<>>,
                                    printed |-> <<>>]]
    /\ child = [c \in Clients |-> [at |-> "none", h |-> <<>>, buffer |-> <<>>]]

CaesarInit == \E scripts \in [Clients -> Scripts] : Listen(scripts)

Connect(c) ==
    /\ client[c].at = "start"
    /\ client' = [client EXCEPT ![c].at = "send"]
    /\ waiting' = Append(waiting, c)
    /\ UNCHANGED <<script, conn, child, sigchld>>

\* A message to a child that has closed is lost, and may kill the client.
SendMessage(c) ==
    /\ client[c].at = "send" /\ client[c].sent < Len(Texts(c))
    /\ \/ /\ client' = [client EXCEPT ![c].at = "header", ![c].sent = @ + 1]
          /\ conn' = IF ~conn[c].downopen THEN conn
                     ELSE [conn EXCEPT ![c].up =
                         @ \o Message(script[c].op, script[c].shift, Texts(c)[client[c].sent + 1])]
       \/ /\ ~conn[c].downopen
          /\ client' = [client EXCEPT ![c].at = "end"]
          /\ conn' = [conn EXCEPT ![c].upopen = FALSE]
    /\ UNCHANGED <<script, waiting, child, sigchld>>

\* The input has ended; or the user ends the client, wherever it is.
CloseClient(c) ==
    /\ client[c].at \notin {"start", "end"}
    /\ client' = [client EXCEPT ![c].at = "end"]
    /\ conn' = [conn EXCEPT ![c].upopen = FALSE]
    /\ UNCHANGED <<script, waiting, child, sigchld>>

\* recv_msg(): the header, which is taken to come at once.  Nobody looks at
\* the result: at the end of the stream, or with a part of a header, the size
\* is undefined, and the client is followed no further.
RecvHeader(c) ==
    /\ client[c].at = "header"
    /\ \/ \E n \in Received(conn[c].down, HEADER_SIZE) :
            /\ conn' = [conn EXCEPT ![c].down = Rest(@, n)]
            /\ client' = [client EXCEPT ![c].at = IF n = HEADER_SIZE THEN "body" ELSE "broken",
                                        ![c].size = Head(conn[c].down).length - HEADER_SIZE,
                                        ![c].buffer = <<>>]
       \/ /\ conn[c].down = <<>> /\ ~conn[c].downopen
          /\ client' = [client EXCEPT ![c].at = "broken"] /\ UNCHANGED conn
    /\ UNCHANGED <<script, waiting, child, sigchld>>

\* The body, in chunks, until it is complete and printed.  The end of the
\* stream is not met here: a child sends the text behind its header.
\* strlen() needs a zero after it, which is there while malloc() returns fresh
\* memory: the scripts have at most two texts.
RecvBody(c) ==
    /\ client[c].at = "body"
    /\ \E n \in Received(conn[c].down, CHUNK) :
         LET buffer == client[c].buffer \o SubSeq(conn[c].down, 1, n)
         IN  /\ conn' = [conn EXCEPT ![c].down = Rest(@, n)]
             /\ client' = IF Len(buffer) < client[c].size
                          THEN [client EXCEPT ![c].buffer = buffer]
                          ELSE [client EXCEPT ![c].at = "send", ![c].printed = Append(@, buffer)]
    /\ UNCHANGED <<script, waiting, child, sigchld>>

\* The parent accepts and forks; without a child the connection is closed.
AcceptClient ==
    /\ waiting # <<>> /\ waiting' = Tail(waiting)
    /\ \/ child' = [child EXCEPT ![Head(waiting)].at = "header"] /\ UNCHANGED conn
       \/ conn' = [conn EXCEPT ![Head(waiting)].downopen = FALSE] /\ UNCHANGED child
    /\ UNCHANGED <<script, client, sigchld>>

Size(h) == h.length - HEADER_SIZE

\* A header the child refuses makes it wait a second and close.
ChildHeader(c) ==
    /\ child[c].at = "header"
    /\ \/ \E n \in Received(conn[c].up, HEADER_SIZE) :
            LET h == Head(conn[c].up)
            IN  /\ conn' = [conn EXCEPT ![c].up = Rest(@, n)]
                /\ child' = [child EXCEPT ![c].h = h, ![c].buffer = <<>>,
                       ![c].at = IF n < HEADER_SIZE THEN "broken"
                                 ELSE IF h.op \notin {0, 1} \/ Size(h) < 0 \/ Size(h) > MAX_SIZE
                                 THEN "leaving" ELSE "body"]
       \/ /\ conn[c].up = <<>> /\ ~conn[c].upopen
          /\ child' = [child EXCEPT ![c].at = "leaving"] /\ UNCHANGED conn
    /\ UNCHANGED <<script, waiting, client, sigchld>>

\* A chunk of the text; when there is enough, the answer.  At the end of the
\* stream recv() returns 0 again and again, and the child never leaves.
ChildBody(c) ==
    /\ child[c].at = "body"
    /\ \E n \in Received(conn[c].up, CHUNK) :
         LET buffer == child[c].buffer \o SubSeq(conn[c].up, 1, n)
             size == Size(child[c].h)
             left == [conn EXCEPT ![c].up = Rest(@, n)]
         IN  IF Len(buffer) < size
             THEN conn' = left /\ child' = [child EXCEPT ![c].buffer = buffer]
             ELSE /\ conn' = IF ~conn[c].upopen THEN left
                             ELSE [left EXCEPT ![c].down = @ \o Reply(child[c].h, SubSeq(buffer, 1, size))]
                  /\ child' = [child EXCEPT ![c].at = IF Len(buffer) # size \/ ~conn[c].upopen
                                                      THEN "leaving" ELSE "header"]
    /\ UNCHANGED <<script, waiting, client, sigchld>>

ChildLeaves(c) ==
    /\ child[c].at = "leaving"
    /\ child' = [child EXCEPT ![c].at = "zombie"]
    /\ conn' = [conn EXCEPT ![c].downopen = FALSE]
    /\ sigchld' = TRUE
    /\ UNCHANGED <<script, waiting, client>>

\* sigchld_handler() reaps one child, also when there are more.
Reap ==
    /\ sigchld /\ sigchld' = FALSE
    /\ \E c \in Clients : child[c].at = "zombie" /\ child' = [child EXCEPT ![c].at = "gone"]
    /\ UNCHANGED <<script, waiting, conn, client>>

CaesarNext ==
    \/ AcceptClient \/ Reap
    \/ \E c \in Clients : \/ Connect(c) \/ SendMessage(c) \/ CloseClient(c) \/ RecvHeader(c)
                          \/ RecvBody(c) \/ ChildHeader(c) \/ ChildBody(c) \/ ChildLeaves(c)
CaesarSpec == CaesarInit /\ [][CaesarNext]_caesar_vars

-----------------------------------------------------------------------------
\* The letter that is shift places on, or back, in lower case.
Rotated(x, by) ==
    IF x \notin Lower \cup Upper THEN x
    ELSE CHOOSE y \in Lower : (y - (IF x \in Lower THEN x ELSE x + 32) - by) % 26 = 0

\* Whatever pieces the streams come in: a client prints the texts it sent, in
\* order and each as a whole, enciphered or deciphered; and it never waits for
\* a child that waits for it.
Echoed == \A c \in Clients :
    /\ \A k \in DOMAIN client[c].printed :
          client[c].printed[k] = [i \in DOMAIN Texts(c)[k] |->
              Rotated(Texts(c)[k][i], IF script[c].op = 0 THEN script[c].shift ELSE -script[c].shift)]
    /\ client[c].at \in {"header", "body"} /\ child[c].at \in {"header", "body"}
          => conn[c].up # <<>> \/ conn[c].down # <<>>

=============================================================================
