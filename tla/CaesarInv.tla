------------------------------ MODULE CaesarInv ------------------------------
(***************************************************************************)
(* The inductive invariant of Caesar: a text is on its way to the child,   *)
(* with it, on its way back, or printed, and in one of these places only.  *)
(* The parts speak of the script s of a client, the streams w of its       *)
(* connection, the client l and its child h.                               *)
(***************************************************************************)
EXTENDS Caesar

\* A byte of a text.
Character == Int

\* The k-th message of a client, its text enciphered, and its answer.
HeaderOf(s, k) == [op |-> s.op, shift |-> s.shift, length |-> Len(s.texts[k]) + HEADER_SIZE]
Request(s, k) == Message(s.op, s.shift, s.texts[k])
Enciphered(s, k) ==
    [i \in DOMAIN s.texts[k] |->
        Caesar(s.texts[k][i], IF s.op = 0 THEN s.shift ELSE (26 - s.shift) % 65536)]
Answer(s, k) == Header(s.op, s.shift, Len(s.texts[k]) + HEADER_SIZE) \o Enciphered(s, k)

RecordsOK(w, l, h) ==
    /\ DOMAIN w = {"up", "down", "upopen", "downopen"}
    /\ DOMAIN l = {"at", "sent", "size", "buffer", "printed"}
    /\ DOMAIN h = {"at", "h", "buffer"}

\* What has been printed is right, whatever has become of the client since.
PrintedInv(s, l) ==
    /\ l.printed \in Seq(Seq(Character)) /\ l.sent \in Nat
    /\ \A k \in DOMAIN l.printed : k \in DOMAIN s.texts /\ l.printed[k] = Enciphered(s, k)

StartInv(w, l, h) ==
    l.at = "start" => /\ l.sent = 0 /\ l.printed = <<>> /\ h.at = "none"
                      /\ w.up = <<>> /\ w.down = <<>> /\ w.downopen

\* Every text so far has been answered.
SendInv(w, l, h) ==
    l.at = "send" => /\ Len(l.printed) = l.sent
                     /\ w.up = <<>> /\ w.down = <<>> /\ h.at \in {"none", "header"}

\* The last text is in the stream up, with the child, or in the stream down;
\* a child that is gone, or was never there, has not answered.
HeaderInv(s, w, l, h) ==
    l.at = "header" =>
        /\ l.sent = Len(l.printed) + 1 /\ l.sent \in DOMAIN s.texts
        /\ h.at = "none" /\ w.downopen => w.up = Request(s, l.sent)
        /\ h.at = "header" => \/ w.up = Request(s, l.sent) /\ w.down = <<>>
                              \/ w.up = <<>> /\ w.down = Answer(s, l.sent)
        /\ h.at = "body" => /\ h.h = HeaderOf(s, l.sent)
                            /\ h.buffer \in Seq(Character) /\ w.up \in Seq(Character) /\ w.up # <<>>
                            /\ h.buffer \o w.up = s.texts[l.sent]
        /\ h.at # "header" => w.down = <<>>

\* The rest of the answer is in the stream down.
BodyInv(s, w, l, h) ==
    l.at = "body" =>
        /\ l.sent = Len(l.printed) + 1 /\ l.sent \in DOMAIN s.texts
        /\ l.size = Len(s.texts[l.sent])
        /\ l.buffer \in Seq(Character) /\ w.down \in Seq(Character) /\ w.down # <<>>
        /\ l.buffer \o w.down = Enciphered(s, l.sent)
        /\ w.up = <<>> /\ h.at = "header"

\* A client closes when it ends, a child when it leaves.
OpenInv(w, l, h) ==
    /\ l.at \in {"start", "send", "header", "body"} => w.upopen
    /\ h.at \in {"header", "body"} => w.downopen /\ l.at # "start"

ClientInv(s, w, l, h) ==
    /\ RecordsOK(w, l, h) /\ PrintedInv(s, l) /\ StartInv(w, l, h) /\ SendInv(w, l, h)
    /\ HeaderInv(s, w, l, h) /\ BodyInv(s, w, l, h) /\ OpenInv(w, l, h)

\* A connection that has not been accepted is open, and has no child.
WaitingInv ==
    /\ waiting \in Seq(Clients)
    /\ \A i \in DOMAIN waiting : /\ child[waiting[i]].at = "none" /\ conn[waiting[i]].downopen
                                 /\ client[waiting[i]].at # "start"
    /\ \A i, j \in DOMAIN waiting : i # j => waiting[i] # waiting[j]

EchoInv ==
    /\ script \in [Clients -> Scripts]
    /\ DOMAIN conn = Clients /\ DOMAIN client = Clients /\ DOMAIN child = Clients
    /\ WaitingInv
    /\ \A c \in Clients : ClientInv(script[c], conn[c], client[c], child[c])

=============================================================================
