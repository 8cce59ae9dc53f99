---------------------------- MODULE Caesar_proofs ----------------------------
(***************************************************************************)
(* Whatever pieces the streams come in and whoever goes away, a client     *)
(* prints its texts enciphered, for any clients, scripts and sizes.        *)
(* First sequences, then one lemma for each action on the records of a     *)
(* client, and then the invariant.                                         *)
(***************************************************************************)
EXTENDS CaesarInv, SequenceTheorems, TLAPS

-----------------------------------------------------------------------------
(* Letters.                                                                *)

LEMMA MultipleLemma ==
    ASSUME NEW a \in Int
    PROVE  a % 26 = 0 <=> \E k \in Int : a = 26 * k
<1>1. a % 26 = 0 => a = 26 * (a \div 26) /\ a \div 26 \in Int
  OBVIOUS
<1>2. \A k \in Int : a = 26 * k => a % 26 = 0
  OBVIOUS
<1>. QED BY <1>1, <1>2

\* The two numbers the server adds rotate a letter on, or back.
Rotates(x, shift, op) ==
    Caesar(x, IF op = 0 THEN shift ELSE (26 - shift) % 65536)
        = Rotated(x, IF op = 0 THEN shift ELSE -shift)

LEMMA CaesarLemma ==
    ASSUME NEW x \in 1..255, NEW shift \in 0..25, NEW op
    PROVE  Rotates(x, shift, op)
<1> DEFINE n == IF op = 0 THEN shift ELSE (26 - shift) % 65536
           by == IF op = 0 THEN shift ELSE -shift
<1>1. n \in 0..26 /\ by \in -25..25 /\ (n = by \/ n = by + 26)
  BY SMT
<1> SUFFICES Caesar(x, n) = Rotated(x, by)
  BY DEF Rotates, n, by
<1> HIDE DEF n, by
<1>2. CASE x \notin Lower \cup Upper
  BY <1>2 DEF Caesar, Rotated
<1>3. CASE x \in Lower \cup Upper
  <2> DEFINE low == IF x \in Lower THEN x ELSE x + 32
             z == 97 + ((low - 97 + n) % 26)
  <2>1. low \in 97..122
    BY <1>3 DEF Lower, Upper
  <2>2. Caesar(x, n) = z
    BY <1>3 DEF Caesar, Lower, Upper
  <2> HIDE DEF low
  <2>3. z \in Lower /\ (z - low - by) % 26 = 0
    <3> DEFINE t == low - 97 + n
               k == t \div 26
    <3>1. t \in Int /\ k \in Int /\ t % 26 \in 0..25 /\ t % 26 = t - 26 * k
      BY <1>1, <2>1
    <3>2. z = 97 + (t % 26) /\ z - low - by = (t % 26) - t + (n - by)
      BY <1>1, <2>1, <3>1
    <3>3. n - by = 0 \/ n - by = 26
      BY <1>1
    <3> HIDE DEF t, k, z
    <3>4. z - low - by = 26 * (0 - k) \/ z - low - by = 26 * (1 - k)
      BY <3>1, <3>2, <3>3
    <3>5. z - low - by \in Int /\ 0 - k \in Int /\ 1 - k \in Int
      BY <3>1, <3>4
    <3>6. (z - low - by) % 26 = 0
      <4> DEFINE d == z - low - by
      <4>1. d \in Int /\ \E i \in Int : d = 26 * i
        BY <3>4, <3>5
      <4> HIDE DEF d
      <4>2. d % 26 = 0
        BY <4>1, MultipleLemma
      <4>. QED BY <4>2 DEF d
    <3>7. z \in 97..122
      BY <3>1, <3>2
    <3>. QED BY <3>6, <3>7 DEF Lower
  <2> HIDE DEF z
  <2>4. ASSUME NEW y \in Lower, (y - low - by) % 26 = 0 PROVE y = z
    <3>1. y - low - by \in Int /\ z - low - by \in Int /\ y \in 97..122 /\ z \in 97..122
      BY <1>1, <2>1, <2>3 DEF Lower
    <3>2. PICK k \in Int : y - low - by = 26 * k
      BY <2>4, <3>1, MultipleLemma
    <3>3. PICK m \in Int : z - low - by = 26 * m
      BY <2>3, <3>1, MultipleLemma
    <3>4. y - z = 26 * (k - m) /\ y - z \in -25..25
      BY <1>1, <2>1, <3>1, <3>2, <3>3
    <3>5. k = m
      BY <3>4
    <3>. QED BY <3>1, <3>4, <3>5
  <2>5. z = CHOOSE y \in Lower : (y - low - by) % 26 = 0
    BY <2>3, <2>4
  <2>6. Rotated(x, by) = CHOOSE y \in Lower : (y - low - by) % 26 = 0
    BY <1>3 DEF Rotated, low
  <2>. QED BY <2>2, <2>5, <2>6
<1>. QED BY <1>2, <1>3

-----------------------------------------------------------------------------
(* Streams.                                                                *)

\* Taking n bytes from a stream q to a buffer b loses and adds nothing.
Taken(b, q, n) ==
    /\ b \o SubSeq(q, 1, n) \in Seq(Character) /\ Rest(q, n) \in Seq(Character)
    /\ (b \o SubSeq(q, 1, n)) \o Rest(q, n) = b \o q
    /\ Len(b \o SubSeq(q, 1, n)) = Len(b) + n
    /\ Len(b \o q) = Len(b) + Len(q)
    /\ Rest(q, n) = <<>> <=> n = Len(q)

LEMMA Chunk ==
    ASSUME NEW b \in Seq(Character), NEW q \in Seq(Character), NEW n \in 1..Len(q)
    PROVE  Taken(b, q, n)
<1> DEFINE a == SubSeq(q, 1, n)
           r == Rest(q, n)
<1>1. Len(q) \in Nat /\ \A i \in 1..Len(q) : q[i] \in Character
  BY LenProperties, ElementOfSeq
<1>2. a \in Seq(Character) /\ Len(a) = n
  <2>1. \A i \in 1..n : q[i] \in Character
    BY <1>1
  <2>. QED BY <2>1, SubSeqProperties
<1>3. r \in Seq(Character) /\ Len(r) = Len(q) - n
  <2>1. \A i \in (n + 1)..Len(q) : q[i] \in Character
    BY <1>1
  <2>2. n + 1 \in Int /\ Len(q) \in Int
    BY <1>1
  <2>3. r \in Seq(Character) /\ Len(r) = IF n + 1 <= Len(q) THEN Len(q) - (n + 1) + 1 ELSE 0
    BY <2>1, <2>2, SubSeqProperties DEF Rest
  <2>. QED BY <1>1, <2>3
<1>4. a \o r = q
  <2>1. SubSeq(q, 1, n) \o SubSeq(q, n + 1, Len(q)) = SubSeq(q, 1, Len(q))
    <3>1. 1 \in 1..(Len(q) + 1) /\ n \in (1 - 1)..Len(q) /\ Len(q) \in n..Len(q)
      BY <1>1
    <3>. QED BY <3>1, ConcatAdjacentSubSeq
  <2>. QED BY <2>1, SubSeqFull DEF Rest
<1>5. r = <<>> <=> Len(r) = 0
  BY <1>3, EmptySeq
<1> HIDE DEF a, r
<1>6. (b \o a) \o r = b \o (a \o r)
  <2>1. a \in Seq(Character) /\ r \in Seq(Character)
    BY <1>2, <1>3
  <2>. QED BY <2>1, b \in Seq(Character), SMT
<1>7. b \o a \in Seq(Character) /\ Len(b \o a) = Len(b) + n /\ Len(b \o q) = Len(b) + Len(q)
  BY <1>2, ConcatProperties
<1>8. (b \o a) \o r = b \o q
  BY <1>4, <1>6
<1>9. r = <<>> <=> n = Len(q)
  BY <1>1, <1>3, <1>5
<1>. QED BY <1>3, <1>7, <1>8, <1>9 DEF a, r, Taken

\* A header is as long as it has bytes; what follows it is the text.
Framed(q, op, shift, length, text) ==
    /\ q # <<>> /\ Len(q) = HEADER_SIZE + Len(text)
    /\ Head(q) = [op |-> op, shift |-> shift, length |-> length]
    /\ Rest(q, HEADER_SIZE) = text

LEMMA HeaderLemma ==
    ASSUME NEW op, NEW shift, NEW length, NEW text \in Seq(Character)
    PROVE  Framed(Header(op, shift, length) \o text, op, shift, length, text)
<1> DEFINE r == [op |-> op, shift |-> shift, length |-> length]
           S == Character \cup {r}
           h == Header(op, shift, length)
           q == h \o text
<1>1. HEADER_SIZE \in Nat \ {0}
  BY SizeAssumption
<1>2. h \in Seq(S) /\ Len(h) = HEADER_SIZE /\ \A i \in 1..HEADER_SIZE : h[i] = r
  <2>1. h = [i \in 1..HEADER_SIZE |-> r]
    BY DEF Header
  <2> HIDE DEF r
  <2>2. h \in [1..HEADER_SIZE -> S]
    BY <2>1
  <2>3. h \in Seq(S)
    BY <1>1, <2>2, SeqDef
  <2>. QED BY <1>1, <2>1, <2>2, <2>3, LenProperties
<1>3. text \in Seq(S) /\ Len(text) \in Nat
  BY SeqMonotonic, LenProperties
<1> HIDE DEF h, S
<1>4. /\ q \in Seq(S) /\ Len(q) = HEADER_SIZE + Len(text)
      /\ \A i \in 1..(HEADER_SIZE + Len(text)) :
            q[i] = IF i <= HEADER_SIZE THEN h[i] ELSE text[i - HEADER_SIZE]
  BY <1>2, <1>3, ConcatProperties
<1> HIDE DEF q
<1>5. q # <<>> /\ q[1] = r
  <2>1. Len(q) # 0
    BY <1>1, <1>3, <1>4
  <2>2. 1 \in 1..(HEADER_SIZE + Len(text)) /\ 1 <= HEADER_SIZE
    BY <1>1, <1>3
  <2>. QED BY <1>2, <1>4, <2>1, <2>2, EmptySeq
<1>6. Head(q) = r
  BY <1>5
<1>7. Rest(q, HEADER_SIZE) = text
  <2>1. \A i \in (HEADER_SIZE + 1)..Len(q) : q[i] \in S
    BY <1>4, ElementOfSeq, <1>1
  <2>2. /\ SubSeq(q, HEADER_SIZE + 1, Len(q)) \in Seq(S)
        /\ Len(SubSeq(q, HEADER_SIZE + 1, Len(q))) =
             IF HEADER_SIZE + 1 <= Len(q) THEN Len(q) - (HEADER_SIZE + 1) + 1 ELSE 0
        /\ \A i \in 1..(Len(q) - (HEADER_SIZE + 1) + 1) :
             SubSeq(q, HEADER_SIZE + 1, Len(q))[i] = q[HEADER_SIZE + 1 + i - 1]
    <3>1. HEADER_SIZE + 1 \in Int /\ Len(q) \in Int
      BY <1>1, <1>3, <1>4
    <3>. QED BY <2>1, <3>1, SubSeqProperties
  <2>3. Len(SubSeq(q, HEADER_SIZE + 1, Len(q))) = Len(text)
    BY <1>1, <1>3, <1>4, <2>2
  <2>4. \A i \in 1..Len(text) : SubSeq(q, HEADER_SIZE + 1, Len(q))[i] = text[i]
    <3> SUFFICES ASSUME NEW i \in 1..Len(text)
                 PROVE  SubSeq(q, HEADER_SIZE + 1, Len(q))[i] = text[i]
      OBVIOUS
    <3>1. /\ i \in 1..(Len(q) - (HEADER_SIZE + 1) + 1)
          /\ HEADER_SIZE + i \in 1..(HEADER_SIZE + Len(text)) /\ ~(HEADER_SIZE + i <= HEADER_SIZE)
          /\ HEADER_SIZE + 1 + i - 1 = HEADER_SIZE + i /\ HEADER_SIZE + i - HEADER_SIZE = i
      BY <1>1, <1>3, <1>4
    <3>2. SubSeq(q, HEADER_SIZE + 1, Len(q))[i] = q[HEADER_SIZE + i]
      BY <2>2, <3>1
    <3>3. q[HEADER_SIZE + i] = text[i]
      <4> DEFINE j == HEADER_SIZE + i
      <4>1. j \in 1..(HEADER_SIZE + Len(text)) /\ ~(j <= HEADER_SIZE) /\ j - HEADER_SIZE = i
        BY <1>1, <1>3
      <4> HIDE DEF j
      <4>2. q[j] = text[j - HEADER_SIZE]
        BY <1>4, <4>1
      <4>. QED BY <4>1, <4>2 DEF j
    <3>. QED BY <3>1, <3>2, <3>3
  <2>. QED BY <1>3, <2>2, <2>3, <2>4, SeqEqual DEF Rest
<1>. QED BY <1>4, <1>5, <1>6, <1>7 DEF Framed, q, h, r

-----------------------------------------------------------------------------
(* Texts.                                                                  *)

\* A text has a byte at least, and is as long when it is enciphered.
LEMMA TextLemma ==
    ASSUME NEW s \in Scripts, NEW k \in DOMAIN s.texts
    PROVE  /\ s.texts[k] \in Seq(Character) /\ Len(s.texts[k]) \in Nat \ {0}
           /\ \A i \in DOMAIN s.texts[k] : s.texts[k][i] \in 1..255
           /\ Enciphered(s, k) \in Seq(Character) /\ Len(Enciphered(s, k)) = Len(s.texts[k])
<1> DEFINE t == s.texts[k]
           e == Enciphered(s, k)
<1>1. s.shift \in 0..25
  BY ScriptAssumption
<1>2. s.texts \in Seq(Seq(1..255))
  BY ScriptAssumption
<1>3. Len(t) \in 1..MAX_SIZE /\ MAX_SIZE \in Nat
  BY ScriptAssumption, SizeAssumption
<1>4. t \in Seq(1..255)
  BY <1>2, LenProperties, ElementOfSeq
<1>5. e = [i \in DOMAIN t |-> Caesar(t[i], IF s.op = 0 THEN s.shift ELSE (26 - s.shift) % 65536)]
  BY DEF Enciphered
<1> HIDE DEF t, e
<1>6. Len(t) \in Nat \ {0}
  BY <1>3
<1>7. DOMAIN t = 1..Len(t) /\ \A i \in DOMAIN t : t[i] \in 1..255
  <2>1. t \in [1..Len(t) -> 1..255]
    BY <1>4, LenProperties
  <2>. QED BY <2>1, Zenon
<1>8. t \in Seq(Character)
  <2>1. t \in [1..Len(t) -> Character]
    <3>1. t \in [1..Len(t) -> 1..255]
      BY <1>4, LenProperties
    <3>2. \A i \in 1..255 : i \in Character
      BY DEF Character
    <3>. QED BY <3>1, <3>2
  <2>. QED BY <1>6, <2>1, SeqDef
<1>9. ASSUME NEW i \in DOMAIN t PROVE e[i] \in Character
  <2> DEFINE x == t[i]
             n == IF s.op = 0 THEN s.shift ELSE (26 - s.shift) % 65536
  <2>1. x \in 1..255
    BY <1>7
  <2>2. n \in 0..26
    BY <1>1
  <2>3. e[i] = Caesar(x, n)
    BY <1>5
  <2> HIDE DEF x, n
  <2>4. Caesar(x, n) \in Character
    BY <2>1, <2>2 DEF Caesar, Lower, Upper, Character
  <2>. QED BY <2>3, <2>4
<1>10. e \in [1..Len(t) -> Character]
  BY <1>5, <1>7, <1>9
<1>11. e \in Seq(Character)
  BY <1>6, <1>10, SeqDef
<1>12. Len(e) = Len(t)
  <2>1. DOMAIN e = 1..Len(e) /\ Len(e) \in Nat
    BY <1>11, LenProperties
  <2>2. DOMAIN e = 1..Len(t)
    BY <1>10
  <2>. QED BY <1>6, <2>1, <2>2
<1>. QED BY <1>6, <1>7, <1>8, <1>11, <1>12 DEF t, e

-----------------------------------------------------------------------------
(* What each action does to the records of its client.                     *)

\* Connect().
LEMMA ConnectClient ==
    ASSUME NEW s, NEW w, NEW l, NEW h, NEW m, ClientInv(s, w, l, h), l.at = "start",
           DOMAIN m = DOMAIN l, m.at = "send", m.sent = l.sent, m.printed = l.printed
    PROVE  ClientInv(s, w, m, h)
<1>1. PrintedInv(s, m)
  BY DEF ClientInv, PrintedInv
<1>2. SendInv(w, m, h)
  BY DEF ClientInv, StartInv, SendInv
<1>. QED
  BY <1>1, <1>2 DEF ClientInv, RecordsOK, StartInv, HeaderInv, BodyInv, OpenInv

\* A client that has ended, or is followed no further.
LEMMA ClientGone ==
    ASSUME NEW s, NEW w, NEW l, NEW h, NEW m, NEW v, ClientInv(s, w, l, h), l.at # "start",
           DOMAIN m = DOMAIN l, m.at \in {"end", "broken"}, m.sent = l.sent,
           m.printed = l.printed,
           DOMAIN v = DOMAIN w, v.downopen = w.downopen
    PROVE  ClientInv(s, v, m, h)
<1>1. PrintedInv(s, m)
  BY DEF ClientInv, PrintedInv
<1>. QED
  BY <1>1 DEF ClientInv, RecordsOK, StartInv, SendInv, HeaderInv, BodyInv, OpenInv

\* SendMessage().
LEMMA SendClient ==
    ASSUME NEW s \in Scripts, NEW w, NEW l, NEW h, NEW m, NEW v, ClientInv(s, w, l, h),
           l.at = "send", l.sent < Len(s.texts),
           DOMAIN m = DOMAIN l, m.at = "header", m.sent = l.sent + 1, m.printed = l.printed,
           DOMAIN v = DOMAIN w, v.down = w.down, v.upopen = w.upopen, v.downopen = w.downopen,
           v.up = IF ~w.downopen THEN w.up
                  ELSE w.up \o Message(s.op, s.shift, s.texts[l.sent + 1])
    PROVE  ClientInv(s, v, m, h)
<1> DEFINE k == l.sent + 1
<1>1. PrintedInv(s, l) /\ SendInv(w, l, h) /\ OpenInv(w, l, h) /\ RecordsOK(w, l, h)
  BY DEF ClientInv
<1>2. /\ l.sent \in Nat /\ Len(l.printed) = l.sent /\ w.up = <<>> /\ w.down = <<>>
      /\ h.at \in {"none", "header"} /\ (h.at = "header" => w.downopen)
  BY <1>1 DEF PrintedInv, SendInv, OpenInv
<1>3. k \in DOMAIN s.texts /\ k = Len(l.printed) + 1
  <2>1. s.texts \in Seq(Seq(1..255))
    BY ScriptAssumption
  <2>2. DOMAIN s.texts = 1..Len(s.texts) /\ Len(s.texts) \in Nat
    BY <2>1, LenProperties
  <2>. QED BY <1>2, <2>2
<1>4. w.downopen => v.up = Request(s, k)
  <2> DEFINE a == Header(s.op, s.shift, Len(s.texts[k]) + HEADER_SIZE)
             r == [op |-> s.op, shift |-> s.shift, length |-> Len(s.texts[k]) + HEADER_SIZE]
             S == Character \cup {r}
             q == Request(s, k)
  <2>1. q = a \o s.texts[k] /\ (w.downopen => v.up = <<>> \o q)
    BY <1>2 DEF Request, Message
  <2>2. a = [i \in 1..HEADER_SIZE |-> r] /\ r \in S
    BY DEF Header
  <2>3. \A i \in Character : i \in S
    OBVIOUS
  <2> HIDE DEF a, r, S, q
  <2>4. s.texts[k] \in Seq(S)
    <3>1. s.texts[k] \in Seq(Character)
      BY <1>3, TextLemma
    <3>. QED BY <2>3, <3>1, SeqMonotonic
  <2>5. a \in Seq(S)
    <3>1. a \in [1..HEADER_SIZE -> S]
      BY <2>2
    <3>. QED BY <3>1, SizeAssumption, SeqDef
  <2>6. q \in Seq(S)
    BY <2>1, <2>4, <2>5, ConcatProperties
  <2>7. <<>> \o q = q
    BY <2>6, ConcatEmptySeq
  <2>. QED BY <2>1, <2>7 DEF q
<1> HIDE DEF k
<1>5. PrintedInv(s, m)
  BY <1>1, <1>2 DEF PrintedInv
<1>6. HeaderInv(s, v, m, h)
  BY <1>2, <1>3, <1>4 DEF HeaderInv, k
<1>7. OpenInv(v, m, h)
  BY <1>1 DEF OpenInv
<1>. QED
  BY <1>1, <1>5, <1>6, <1>7 DEF ClientInv, RecordsOK, StartInv, SendInv, BodyInv

\* A request or an answer: its header, and the text behind it.
LEMMA RequestLemma ==
    ASSUME NEW s \in Scripts, NEW k \in DOMAIN s.texts
    PROVE  /\ Request(s, k) # <<>> /\ Len(Request(s, k)) = HEADER_SIZE + Len(s.texts[k])
           /\ Head(Request(s, k)) = HeaderOf(s, k)
           /\ Rest(Request(s, k), HEADER_SIZE) = s.texts[k]
<1> DEFINE text == s.texts[k]
<1>1. text \in Seq(Character)
  BY TextLemma
<1>2. Request(s, k) = Header(s.op, s.shift, Len(text) + HEADER_SIZE) \o text
  BY DEF Request, Message
<1> HIDE DEF text
<1>3. Framed(Request(s, k), s.op, s.shift, Len(text) + HEADER_SIZE, text)
  BY <1>1, <1>2, HeaderLemma
<1>. QED BY <1>3 DEF Framed, HeaderOf, text

LEMMA AnswerLemma ==
    ASSUME NEW s \in Scripts, NEW k \in DOMAIN s.texts
    PROVE  /\ Answer(s, k) # <<>> /\ Len(Answer(s, k)) = HEADER_SIZE + Len(s.texts[k])
           /\ Head(Answer(s, k)) = HeaderOf(s, k)
           /\ Rest(Answer(s, k), HEADER_SIZE) = Enciphered(s, k)
<1> DEFINE text == Enciphered(s, k)
           length == Len(s.texts[k]) + HEADER_SIZE
<1>1. text \in Seq(Character) /\ Len(text) = Len(s.texts[k])
  BY TextLemma
<1>2. Answer(s, k) = Header(s.op, s.shift, length) \o text
  BY DEF Answer
<1> HIDE DEF text, length
<1>3. Framed(Answer(s, k), s.op, s.shift, length, text)
  BY <1>1, <1>2, HeaderLemma
<1>. QED BY <1>1, <1>3 DEF Framed, HeaderOf, text, length

\* recv() returns something only if there is something.
LEMMA ReceivedLemma ==
    ASSUME NEW S, NEW q \in Seq(S), NEW size \in Nat, NEW n \in Received(q, size)
    PROVE  n \in 1..Len(q) /\ n <= size /\ q # <<>>
<1>1. Len(q) \in Nat
  BY LenProperties
<1>2. n \in 1..Len(q) /\ n <= size
  BY <1>1 DEF Received
<1>3. Len(<<>>) = 0
  OBVIOUS
<1>. QED BY <1>1, <1>2, <1>3

\* RecvHeader() of a whole header.
LEMMA HeaderReceived ==
    ASSUME NEW s \in Scripts, NEW w, NEW l, NEW h, NEW m, NEW v, ClientInv(s, w, l, h),
           l.at = "header", HEADER_SIZE \in Received(w.down, HEADER_SIZE),
           DOMAIN m = DOMAIN l, m.at = "body", m.sent = l.sent, m.printed = l.printed,
           m.size = Head(w.down).length - HEADER_SIZE, m.buffer = <<>>,
           DOMAIN v = DOMAIN w, v.up = w.up, v.upopen = w.upopen, v.downopen = w.downopen,
           v.down = Rest(w.down, HEADER_SIZE)
    PROVE  ClientInv(s, v, m, h)
<1> DEFINE k == l.sent
<1>1. PrintedInv(s, l) /\ HeaderInv(s, w, l, h) /\ OpenInv(w, l, h) /\ RecordsOK(w, l, h)
  BY DEF ClientInv
<1>2. k = Len(l.printed) + 1 /\ k \in DOMAIN s.texts
  BY <1>1 DEF HeaderInv
<1>3. w.down # <<>>
  <2>1. HEADER_SIZE \in Received(<<>>, HEADER_SIZE) => FALSE
    <3>1. <<>> \in Seq(Character)
      OBVIOUS
    <3>. QED BY <3>1, SizeAssumption, ReceivedLemma
  <2>. QED BY <2>1
<1>4. h.at = "header" /\ w.up = <<>> /\ w.down = Answer(s, k)
  BY <1>1, <1>3 DEF HeaderInv
<1>5. v.down = Enciphered(s, k) /\ m.size = Len(s.texts[k])
  <2>1. Head(w.down).length = Len(s.texts[k]) + HEADER_SIZE
    BY <1>2, <1>4, AnswerLemma DEF HeaderOf
  <2>2. Len(s.texts[k]) \in Nat /\ HEADER_SIZE \in Nat
    BY <1>2, TextLemma, SizeAssumption
  <2>. QED BY <1>2, <1>4, <2>1, <2>2, AnswerLemma
<1>6. /\ v.down \in Seq(Character) /\ v.down # <<>> /\ m.buffer \in Seq(Character)
      /\ m.buffer \o v.down = Enciphered(s, k)
  <2>1. v.down \in Seq(Character) /\ Len(v.down) # 0
    BY <1>2, <1>5, TextLemma
  <2>2. Len(<<>>) = 0 /\ <<>> \in Seq(Character)
    OBVIOUS
  <2>. QED BY <1>5, <2>1, <2>2, ConcatEmptySeq
<1> HIDE DEF k
<1>7. PrintedInv(s, m)
  BY <1>1 DEF PrintedInv
<1>8. BodyInv(s, v, m, h)
  BY <1>2, <1>4, <1>5, <1>6 DEF BodyInv, k
<1>9. OpenInv(v, m, h)
  BY <1>1 DEF OpenInv
<1>. QED
  BY <1>1, <1>7, <1>8, <1>9 DEF ClientInv, RecordsOK, StartInv, SendInv, HeaderInv

\* RecvBody(): a chunk, and then the text is printed or is not yet complete.
LEMMA BodyReceived ==
    ASSUME NEW s \in Scripts, NEW w, NEW l, NEW h, NEW m, NEW v, ClientInv(s, w, l, h),
           l.at = "body", NEW n \in Received(w.down, CHUNK), NEW b,
           b = l.buffer \o SubSeq(w.down, 1, n),
           DOMAIN m = DOMAIN l, m.sent = l.sent,
           Len(b) < l.size =>
              m.at = "body" /\ m.buffer = b /\ m.size = l.size /\ m.printed = l.printed,
           ~(Len(b) < l.size) => m.at = "send" /\ m.printed = Append(l.printed, b),
           DOMAIN v = DOMAIN w, v.up = w.up, v.upopen = w.upopen, v.downopen = w.downopen,
           v.down = Rest(w.down, n)
    PROVE  ClientInv(s, v, m, h)
<1> DEFINE k == l.sent
           e == Enciphered(s, k)
<1>1. PrintedInv(s, l) /\ BodyInv(s, w, l, h) /\ OpenInv(w, l, h) /\ RecordsOK(w, l, h)
  BY DEF ClientInv
<1>2. /\ k = Len(l.printed) + 1 /\ k \in DOMAIN s.texts /\ l.size = Len(s.texts[k])
      /\ l.buffer \in Seq(Character) /\ w.down \in Seq(Character) /\ l.buffer \o w.down = e
      /\ w.up = <<>> /\ h.at = "header"
  BY <1>1 DEF BodyInv
<1> HIDE DEF k
<1>3. e \in Seq(Character) /\ Len(e) = l.size /\ l.size \in Nat
  <2>1. k \in DOMAIN s.texts /\ l.size = Len(s.texts[k])
    BY <1>2
  <2>2. /\ Len(s.texts[k]) \in Nat \ {0}
        /\ Enciphered(s, k) \in Seq(Character) /\ Len(Enciphered(s, k)) = Len(s.texts[k])
    BY <2>1, TextLemma
  <2>. QED BY <2>1, <2>2
<1> HIDE DEF e
<1>4. n \in 1..Len(w.down)
  BY <1>2, SizeAssumption, ReceivedLemma
<1>5. /\ b \in Seq(Character) /\ v.down \in Seq(Character) /\ b \o v.down = e
      /\ Len(b) = Len(l.buffer) + n /\ Len(e) = Len(l.buffer) + Len(w.down)
      /\ v.down = <<>> <=> n = Len(w.down)
  <2> DEFINE p == l.buffer
             q == w.down
  <2>1. p \in Seq(Character) /\ q \in Seq(Character) /\ n \in 1..Len(q) /\ b = p \o SubSeq(q, 1, n)
        /\ v.down = Rest(q, n) /\ p \o q = e
    BY <1>2, <1>4
  <2> HIDE DEF p, q
  <2>2. Taken(p, q, n)
    BY <2>1, Chunk
  <2>. QED BY <2>1, <2>2 DEF Taken, p, q
<1>6. Len(b) < l.size <=> v.down # <<>>
  <2> DEFINE x == Len(l.buffer)
             y == Len(w.down)
  <2>1. x \in Nat /\ y \in Nat /\ n \in 1..y /\ Len(b) = x + n /\ l.size = x + y
        /\ (v.down = <<>> <=> n = y)
    BY <1>2, <1>3, <1>4, <1>5, LenProperties
  <2> HIDE DEF x, y
  <2>2. x + n < x + y <=> n # y
    BY <2>1
  <2>. QED BY <2>1, <2>2
<1>7. l.printed \in Seq(Seq(Character)) /\ l.sent \in Nat
  BY <1>1 DEF PrintedInv
<1>8. OpenInv(v, m, h)
  BY <1>1 DEF OpenInv
<1>9. CASE Len(b) < l.size
  <2>1. m.at = "body" /\ m.buffer = b /\ m.size = l.size /\ m.printed = l.printed
    BY <1>9
  <2>2. PrintedInv(s, m)
    BY <1>1, <2>1 DEF PrintedInv
  <2>3. BodyInv(s, v, m, h)
    BY <1>2, <1>5, <1>6, <1>9, <2>1 DEF BodyInv, k, e
  <2>. QED
    BY <1>1, <1>8, <2>1, <2>2, <2>3 DEF ClientInv, RecordsOK, StartInv, SendInv, HeaderInv
<1>10. CASE ~(Len(b) < l.size)
  <2>1. m.at = "send" /\ m.printed = Append(l.printed, b)
    BY <1>10
  <2>2. v.down = <<>> /\ b = e
    BY <1>5, <1>6, <1>10, ConcatEmptySeq
  <2>3. /\ m.printed \in Seq(Seq(Character)) /\ Len(m.printed) = Len(l.printed) + 1
        /\ DOMAIN l.printed = 1..Len(l.printed) /\ DOMAIN m.printed = 1..(Len(l.printed) + 1)
        /\ \A i \in 1..Len(l.printed) : m.printed[i] = l.printed[i]
        /\ m.printed[Len(l.printed) + 1] = b /\ Len(l.printed) \in Nat
    <3> DEFINE q == l.printed
    <3>1. q \in Seq(Seq(Character)) /\ b \in Seq(Character)
      BY <1>5, <1>7
    <3>2. m.printed = Append(q, b)
      BY <2>1
    <3> HIDE DEF q
    <3>3. Append(q, b) \in Seq(Seq(Character)) /\ Len(Append(q, b)) = Len(q) + 1 /\ Len(q) \in Nat
      BY <3>1
    <3>4. DOMAIN q = 1..Len(q) /\ DOMAIN Append(q, b) = 1..(Len(q) + 1)
      BY <3>1, <3>3, LenProperties
    <3>5. /\ \A i \in 1..Len(q) : Append(q, b)[i] = q[i]
          /\ Append(q, b)[Len(q) + 1] = b
      BY <3>1, <3>3
    <3>. QED BY <3>2, <3>3, <3>4, <3>5 DEF q
  <2>4. PrintedInv(s, m)
    <3>1. ASSUME NEW i \in DOMAIN m.printed
          PROVE  i \in DOMAIN s.texts /\ m.printed[i] = Enciphered(s, i)
      <4>1. CASE i = k
        BY <1>2, <2>2, <2>3, <4>1 DEF e
      <4>2. CASE i # k
        <5>1. i \in 1..(Len(l.printed) + 1) /\ i # Len(l.printed) + 1
          BY <1>2, <2>3, <4>2
        <5>2. i \in 1..Len(l.printed)
          BY <2>3, <5>1
        <5>3. i \in DOMAIN l.printed /\ m.printed[i] = l.printed[i]
          BY <2>3, <5>2
        <5>. QED BY <1>1, <5>3 DEF PrintedInv
      <4>. QED BY <4>1, <4>2
    <3>. QED BY <1>7, <2>3, <3>1 DEF PrintedInv
  <2>5. SendInv(v, m, h)
    BY <1>2, <2>1, <2>2, <2>3 DEF SendInv, k
  <2>. QED
    BY <1>1, <1>8, <2>1, <2>4, <2>5 DEF ClientInv, RecordsOK, StartInv, BodyInv, HeaderInv
<1>. QED BY <1>9, <1>10

\* The parent accepts a connection; or it has no child for it, and closes it.
LEMMA Accepted ==
    ASSUME NEW s, NEW w, NEW l, NEW h, NEW g, ClientInv(s, w, l, h), l.at # "start",
           h.at = "none", w.downopen, DOMAIN g = DOMAIN h, g.at = "header"
    PROVE  ClientInv(s, w, l, g)
<1>1. HeaderInv(s, w, l, g)
  BY DEF ClientInv, HeaderInv
<1>2. BodyInv(s, w, l, g) /\ SendInv(w, l, g)
  BY DEF ClientInv, BodyInv, SendInv
<1>. QED
  BY <1>1, <1>2 DEF ClientInv, RecordsOK, StartInv, OpenInv

LEMMA Refused ==
    ASSUME NEW s, NEW w, NEW l, NEW h, NEW v, ClientInv(s, w, l, h), l.at # "start",
           h.at = "none", DOMAIN v = DOMAIN w, v.up = w.up, v.down = w.down,
           v.upopen = w.upopen, ~v.downopen
    PROVE  ClientInv(s, v, l, h)
<1>1. HeaderInv(s, v, l, h)
  BY DEF ClientInv, HeaderInv
<1>2. BodyInv(s, v, l, h) /\ SendInv(v, l, h)
  BY DEF ClientInv, BodyInv, SendInv
<1>. QED
  BY <1>1, <1>2 DEF ClientInv, RecordsOK, StartInv, OpenInv

\* ChildHeader(): a header, or a piece of it.
LEMMA HeaderTaken ==
    ASSUME NEW s \in Scripts, NEW w, NEW l, NEW h, NEW g, NEW v, ClientInv(s, w, l, h),
           h.at = "header", NEW n \in Received(w.up, HEADER_SIZE),
           DOMAIN g = DOMAIN h, g.h = Head(w.up), g.buffer = <<>>,
           g.at \in {"broken", "leaving", "body"}, g.at = "body" => n = HEADER_SIZE,
           DOMAIN v = DOMAIN w, v.down = w.down, v.upopen = w.upopen,
           v.downopen = w.downopen, v.up = Rest(w.up, n)
    PROVE  ClientInv(s, v, l, g)
<1> DEFINE k == l.sent
<1>1. /\ StartInv(w, l, h) /\ SendInv(w, l, h) /\ HeaderInv(s, w, l, h) /\ BodyInv(s, w, l, h)
      /\ OpenInv(w, l, h) /\ RecordsOK(w, l, h) /\ PrintedInv(s, l)
  BY DEF ClientInv
<1>2. w.up # <<>>
  <2>1. n \in Received(<<>>, HEADER_SIZE) => FALSE
    <3>1. <<>> \in Seq(Character)
      OBVIOUS
    <3>. QED BY <3>1, SizeAssumption, ReceivedLemma
  <2>. QED BY <2>1
<1>3. l.at \notin {"start", "send", "body"}
  BY <1>1, <1>2 DEF StartInv, SendInv, BodyInv
<1>4. HeaderInv(s, v, l, g)
  <2> SUFFICES ASSUME l.at = "header" PROVE HeaderInv(s, v, l, g)
    BY DEF HeaderInv
  <2>1. k = Len(l.printed) + 1 /\ k \in DOMAIN s.texts /\ w.up = Request(s, k) /\ w.down = <<>>
    BY <1>1, <1>2 DEF HeaderInv
  <2>2. ASSUME g.at = "body"
        PROVE  /\ g.h = HeaderOf(s, k) /\ v.up = s.texts[k]
               /\ g.buffer \in Seq(Character) /\ v.up \in Seq(Character) /\ v.up # <<>>
               /\ g.buffer \o v.up = s.texts[k]
    <3>1. g.h = HeaderOf(s, k) /\ v.up = s.texts[k]
      BY <2>1, <2>2, RequestLemma
    <3>2. v.up \in Seq(Character) /\ Len(v.up) # 0
      BY <2>1, <3>1, TextLemma
    <3>3. Len(<<>>) = 0 /\ <<>> \in Seq(Character)
      OBVIOUS
    <3>. QED BY <3>1, <3>2, <3>3, ConcatEmptySeq
  <2>. QED BY <2>1, <2>2 DEF HeaderInv
<1>. QED
  BY <1>1, <1>3, <1>4 DEF ClientInv, RecordsOK, StartInv, SendInv, BodyInv, OpenInv

\* A child meets the end of the stream only when its client has gone.
LEMMA EndMet ==
    ASSUME NEW s, NEW w, NEW l, NEW h, NEW g, ClientInv(s, w, l, h), h.at = "header",
           ~w.upopen, DOMAIN g = DOMAIN h, g.at = "leaving"
    PROVE  ClientInv(s, w, l, g)
<1>1. l.at \notin {"start", "send", "header", "body"}
  BY DEF ClientInv, OpenInv
<1>. QED
  BY <1>1 DEF ClientInv, RecordsOK, StartInv, SendInv, HeaderInv, BodyInv, OpenInv

\* The child closes and ends, or is reaped.
LEMMA ChildGone ==
    ASSUME NEW s, NEW w, NEW l, NEW h, NEW g, NEW v, ClientInv(s, w, l, h),
           h.at \in {"leaving", "zombie"}, DOMAIN g = DOMAIN h, g.at \in {"zombie", "gone"},
           DOMAIN v = DOMAIN w, v.up = w.up, v.down = w.down, v.upopen = w.upopen
    PROVE  ClientInv(s, v, l, g)
<1>1. l.at \notin {"start", "send", "body"}
  BY DEF ClientInv, StartInv, SendInv, BodyInv
<1>2. HeaderInv(s, v, l, g)
  BY DEF ClientInv, HeaderInv
<1>. QED
  BY <1>1, <1>2 DEF ClientInv, RecordsOK, StartInv, SendInv, BodyInv, OpenInv

\* The answer to a whole request is the enciphered text with its header.
LEMMA ReplyLemma ==
    ASSUME NEW s \in Scripts, NEW k \in DOMAIN s.texts
    PROVE  /\ Reply(HeaderOf(s, k), s.texts[k]) = Answer(s, k)
           /\ Size(HeaderOf(s, k)) = Len(s.texts[k])
           /\ <<>> \o Answer(s, k) = Answer(s, k)
<1> DEFINE text == s.texts[k]
           length == Len(text) + HEADER_SIZE
           e == Enciphered(s, k)
           r == [op |-> s.op, shift |-> s.shift, length |-> length]
           S == Character \cup {r}
           a == Header(s.op, s.shift, length)
<1>1. Len(text) \in Nat /\ HEADER_SIZE \in Nat /\ e \in Seq(Character)
  BY TextLemma, SizeAssumption
<1>2. HeaderOf(s, k).op = s.op /\ HeaderOf(s, k).shift = s.shift /\ HeaderOf(s, k).length = length
  BY DEF HeaderOf
<1>3. Size(HeaderOf(s, k)) = Len(text)
  BY <1>1, <1>2 DEF Size
<1>4. Reply(HeaderOf(s, k), text) = Answer(s, k)
  BY <1>2 DEF Reply, Answer, Enciphered
<1>5. <<>> \o Answer(s, k) = Answer(s, k)
  <2>1. a = [i \in 1..HEADER_SIZE |-> r] /\ r \in S
    BY DEF Header
  <2>2. \A i \in Character : i \in S
    OBVIOUS
  <2>3. Answer(s, k) = a \o e
    BY DEF Answer
  <2> HIDE DEF a, r, S, e
  <2>4. e \in Seq(S)
    BY <1>1, <2>2, SeqMonotonic
  <2>5. a \in Seq(S)
    <3>1. a \in [1..HEADER_SIZE -> S]
      BY <2>1
    <3>. QED BY <1>1, <3>1, SeqDef
  <2>6. Answer(s, k) \in Seq(S)
    BY <2>3, <2>4, <2>5, ConcatProperties
  <2>. QED BY <2>6, ConcatEmptySeq
<1>. QED BY <1>3, <1>4, <1>5

\* ChildBody(): a chunk, and when the text is complete, the answer.
LEMMA BodyTaken ==
    ASSUME NEW s \in Scripts, NEW w, NEW l, NEW h, NEW g, NEW v, ClientInv(s, w, l, h),
           h.at = "body", NEW n \in Received(w.up, CHUNK), NEW b,
           b = h.buffer \o SubSeq(w.up, 1, n),
           DOMAIN g = DOMAIN h, g.h = h.h,
           DOMAIN v = DOMAIN w, v.upopen = w.upopen, v.downopen = w.downopen,
           v.up = Rest(w.up, n),
           Len(b) < Size(h.h) => g.at = "body" /\ g.buffer = b /\ v.down = w.down,
           ~(Len(b) < Size(h.h)) =>
              /\ g.at = IF Len(b) # Size(h.h) \/ ~w.upopen THEN "leaving" ELSE "header"
              /\ v.down = IF ~w.upopen THEN w.down
                          ELSE w.down \o Reply(h.h, SubSeq(b, 1, Size(h.h)))
    PROVE  ClientInv(s, v, l, g)
<1> DEFINE k == l.sent
           t == s.texts[k]
<1>1. /\ StartInv(w, l, h) /\ SendInv(w, l, h) /\ HeaderInv(s, w, l, h) /\ BodyInv(s, w, l, h)
      /\ OpenInv(w, l, h) /\ RecordsOK(w, l, h) /\ PrintedInv(s, l)
  BY DEF ClientInv
<1>2. l.at \notin {"start", "send", "body"}
  BY <1>1 DEF StartInv, SendInv, BodyInv
<1>3. OpenInv(v, l, g)
  <2>1. w.downopen /\ l.at # "start"
    BY <1>1 DEF OpenInv
  <2>. QED BY <1>1, <2>1 DEF OpenInv
<1>4. HeaderInv(s, v, l, g)
  <2> SUFFICES ASSUME l.at = "header" PROVE HeaderInv(s, v, l, g)
    BY DEF HeaderInv
  <2>1. /\ k = Len(l.printed) + 1 /\ k \in DOMAIN s.texts /\ w.down = <<>> /\ w.upopen
        /\ h.h = HeaderOf(s, k) /\ h.buffer \in Seq(Character) /\ w.up \in Seq(Character)
        /\ h.buffer \o w.up = t
    BY <1>1 DEF HeaderInv, OpenInv
  <2> HIDE DEF k
  <2>2. Size(h.h) = Len(t) /\ t \in Seq(Character) /\ Len(t) \in Nat
    <3>1. k \in DOMAIN s.texts /\ h.h = HeaderOf(s, k)
      BY <2>1
    <3>2. Size(HeaderOf(s, k)) = Len(s.texts[k])
      BY <3>1, ReplyLemma
    <3>3. s.texts[k] \in Seq(Character) /\ Len(s.texts[k]) \in Nat \ {0}
      BY <3>1, TextLemma
    <3>. QED BY <3>1, <3>2, <3>3
  <2> HIDE DEF t
  <2>3. n \in 1..Len(w.up)
    BY <2>1, SizeAssumption, ReceivedLemma
  <2>4. /\ b \in Seq(Character) /\ v.up \in Seq(Character) /\ b \o v.up = t
        /\ Len(b) = Len(h.buffer) + n /\ Len(t) = Len(h.buffer) + Len(w.up)
        /\ v.up = <<>> <=> n = Len(w.up)
    <3> DEFINE p == h.buffer
               q == w.up
    <3>1. p \in Seq(Character) /\ q \in Seq(Character) /\ n \in 1..Len(q) /\ b = p \o SubSeq(q, 1, n)
          /\ v.up = Rest(q, n) /\ p \o q = t
      BY <2>1, <2>3
    <3> HIDE DEF p, q
    <3>2. Taken(p, q, n)
      BY <3>1, Chunk
    <3>. QED BY <3>1, <3>2 DEF Taken, p, q
  <2>5. Len(b) < Len(t) <=> v.up # <<>>
    <3> DEFINE x == Len(h.buffer)
               y == Len(w.up)
    <3>1. x \in Nat /\ y \in Nat /\ n \in 1..y /\ Len(b) = x + n /\ Len(t) = x + y
          /\ (v.up = <<>> <=> n = y)
      BY <2>1, <2>3, <2>4, LenProperties
    <3> HIDE DEF x, y
    <3>2. x + n < x + y <=> n # y
      BY <3>1
    <3>. QED BY <3>1, <3>2
  <2>6. CASE Len(b) < Len(t)
    <3>1. g.at = "body" /\ g.buffer = b /\ v.down = w.down
      BY <2>2, <2>6
    <3>. QED BY <2>1, <2>4, <2>5, <2>6, <3>1 DEF HeaderInv, k, t
  <2>7. CASE ~(Len(b) < Len(t))
    <3>1. v.up = <<>> /\ b = t
      BY <2>4, <2>5, <2>7, ConcatEmptySeq
    <3>2. SubSeq(b, 1, Size(h.h)) = t
      BY <2>2, <3>1, SubSeqFull
    <3>3. g.at = "header" /\ v.down = <<>> \o Reply(h.h, t)
      BY <2>1, <2>2, <2>7, <3>1, <3>2
    <3>4. v.down = Answer(s, k)
      BY <2>1, <3>3, ReplyLemma DEF t, k
    <3>. QED BY <2>1, <3>1, <3>3, <3>4 DEF HeaderInv, k
  <2>. QED BY <2>6, <2>7
<1>. QED
  BY <1>1, <1>2, <1>3, <1>4 DEF ClientInv, RecordsOK, StartInv, SendInv, BodyInv

-----------------------------------------------------------------------------
(* The steps.                                                              *)

\* What is known of a client.
LEMMA OfClient ==
    ASSUME EchoInv, NEW c \in Clients
    PROVE  /\ script[c] \in Scripts /\ ClientInv(script[c], conn[c], client[c], child[c])
           /\ DOMAIN conn[c] = {"up", "down", "upopen", "downopen"}
           /\ DOMAIN client[c] = {"at", "sent", "size", "buffer", "printed"}
           /\ DOMAIN child[c] = {"at", "h", "buffer"}
           /\ DOMAIN conn = Clients /\ DOMAIN client = Clients /\ DOMAIN child = Clients
<1>1. script[c] \in Scripts /\ ClientInv(script[c], conn[c], client[c], child[c])
  BY DEF EchoInv
<1>. QED BY <1>1 DEF EchoInv, ClientInv, RecordsOK

\* A step of one connection, once it has been accepted or refused, does not
\* matter to the others.
Alone(c) ==
    /\ script' = script
    /\ DOMAIN conn' = Clients /\ DOMAIN client' = Clients /\ DOMAIN child' = Clients
    /\ \A d \in Clients \ {c} : conn'[d] = conn[d] /\ client'[d] = client[d] /\ child'[d] = child[d]
    /\ ClientInv(script[c], conn'[c], client'[c], child'[c])

LEMMA Others ==
    ASSUME EchoInv, NEW c \in Clients, Alone(c), WaitingInv'
    PROVE  EchoInv'
<1>1. ASSUME NEW d \in Clients PROVE ClientInv(script'[d], conn'[d], client'[d], child'[d])
  <2>1. CASE d = c
    BY <2>1 DEF Alone
  <2>2. CASE d # c
    <3>1. ClientInv(script[d], conn[d], client[d], child[d])
      BY DEF EchoInv
    <3>. QED BY <2>2, <3>1 DEF Alone
  <2>. QED BY <2>1, <2>2
<1>. QED BY <1>1 DEF EchoInv, Alone

LEMMA Waiting ==
    ASSUME EchoInv, NEW c \in Clients, Alone(c), waiting' = waiting,
           client[c].at # "start" => client'[c].at # "start",
           child[c].at = "none" /\ conn[c].downopen => child'[c].at = "none" /\ conn'[c].downopen
    PROVE  EchoInv'
<1>1. WaitingInv
  BY DEF EchoInv
<1>2. ASSUME NEW i \in DOMAIN waiting
      PROVE  /\ child'[waiting[i]].at = "none" /\ conn'[waiting[i]].downopen
             /\ client'[waiting[i]].at # "start"
  <2>1. /\ child[waiting[i]].at = "none" /\ conn[waiting[i]].downopen
        /\ client[waiting[i]].at # "start" /\ waiting[i] \in Clients
    BY <1>1, LenProperties, ElementOfSeq DEF WaitingInv
  <2>2. CASE waiting[i] = c
    BY <2>1, <2>2
  <2>3. CASE waiting[i] # c
    BY <2>1, <2>3 DEF Alone
  <2>. QED BY <2>2, <2>3
<1>3. WaitingInv'
  BY <1>1, <1>2 DEF WaitingInv
<1>. QED BY <1>3, Others

LEMMA SendStep ==
    ASSUME EchoInv, NEW c \in Clients, SendMessage(c)
    PROVE  EchoInv'
<1> DEFINE m == client'[c]
           v == conn'[c]
<1>1. /\ client[c].at = "send" /\ client[c].sent < Len(script[c].texts)
      /\ script' = script /\ waiting' = waiting /\ child' = child
  BY DEF SendMessage, Texts
<1> DEFINE x == Message(script[c].op, script[c].shift, script[c].texts[client[c].sent + 1])
           sends == /\ client' = [client EXCEPT ![c].at = "header", ![c].sent = @ + 1]
                    /\ conn' = IF ~conn[c].downopen THEN conn ELSE [conn EXCEPT ![c].up = @ \o x]
           dies == /\ client' = [client EXCEPT ![c].at = "end"]
                   /\ conn' = [conn EXCEPT ![c].upopen = FALSE]
<1>2. sends \/ dies
  BY DEF SendMessage, Texts
<1> HIDE DEF x
<1>3. /\ \/ m.at = "header" /\ m.sent = client[c].sent + 1
         \/ m.at = "end" /\ m.sent = client[c].sent
      /\ DOMAIN m = DOMAIN client[c] /\ m.printed = client[c].printed
      /\ DOMAIN client' = Clients /\ \A d \in Clients \ {c} : client'[d] = client[d]
  BY <1>2, OfClient
<1>4. /\ DOMAIN v = DOMAIN conn[c] /\ v.downopen = conn[c].downopen
      /\ DOMAIN conn' = Clients /\ \A d \in Clients \ {c} : conn'[d] = conn[d]
  <2>1. CASE conn' = conn
    BY <2>1, OfClient
  <2>2. CASE conn' = [conn EXCEPT ![c].up = @ \o x]
    BY <2>2, OfClient
  <2>3. CASE conn' = [conn EXCEPT ![c].upopen = FALSE]
    BY <2>3, OfClient
  <2>. QED BY <1>2, <2>1, <2>2, <2>3
<1>5. ASSUME m.at = "header"
      PROVE  /\ v.down = conn[c].down /\ v.upopen = conn[c].upopen
             /\ v.up = IF ~conn[c].downopen THEN conn[c].up ELSE conn[c].up \o x
  <2>1. sends
    BY <1>2, <1>5, OfClient
  <2>2. CASE ~conn[c].downopen
    BY <2>1, <2>2
  <2>3. CASE conn[c].downopen
    <3>1. conn' = [conn EXCEPT ![c].up = @ \o x]
      BY <2>1, <2>3
    <3>. QED BY <2>3, <3>1, OfClient
  <2>. QED BY <2>2, <2>3
<1> HIDE DEF m, v
<1>6. ClientInv(script[c], v, m, child[c])
  <2>1. CASE m.at = "header"
    BY <1>1, <1>3, <1>4, <1>5, <2>1, OfClient, SendClient DEF x
  <2>2. CASE m.at = "end"
    BY <1>1, <1>3, <1>4, <2>2, OfClient, ClientGone
  <2>. QED BY <1>3, <2>1, <2>2
<1>7. Alone(c)
  BY <1>1, <1>3, <1>4, <1>6, OfClient DEF Alone, m, v
<1>8. m.at # "start"
  BY <1>3
<1>. QED BY <1>1, <1>4, <1>7, <1>8, Waiting DEF m, v

LEMMA CloseStep ==
    ASSUME EchoInv, NEW c \in Clients, CloseClient(c)
    PROVE  EchoInv'
<1> DEFINE m == client'[c]
           v == conn'[c]
<1>1. client[c].at # "start" /\ script' = script /\ waiting' = waiting /\ child' = child
  BY DEF CloseClient
<1>2. /\ m.at = "end" /\ m.sent = client[c].sent /\ m.printed = client[c].printed
      /\ DOMAIN m = DOMAIN client[c] /\ DOMAIN v = DOMAIN conn[c]
      /\ v.downopen = conn[c].downopen
      /\ DOMAIN conn' = Clients /\ DOMAIN client' = Clients
      /\ \A d \in Clients \ {c} : conn'[d] = conn[d] /\ client'[d] = client[d]
  BY OfClient DEF CloseClient
<1> HIDE DEF m, v
<1>3. ClientInv(script[c], v, m, child[c])
  BY <1>1, <1>2, OfClient, ClientGone
<1>4. Alone(c)
  BY <1>1, <1>2, <1>3, OfClient DEF Alone, m, v
<1>5. m.at # "start"
  BY <1>2
<1>. QED BY <1>1, <1>2, <1>4, <1>5, Waiting DEF m, v

LEMMA RecvHeaderStep ==
    ASSUME EchoInv, NEW c \in Clients, RecvHeader(c)
    PROVE  EchoInv'
<1> DEFINE m == client'[c]
           v == conn'[c]
<1>1. client[c].at = "header" /\ script' = script /\ waiting' = waiting /\ child' = child
  BY DEF RecvHeader
<1> DEFINE piece(n) ==
      /\ conn' = [conn EXCEPT ![c].down = Rest(@, n)]
      /\ client' = [client EXCEPT ![c].at = IF n = HEADER_SIZE THEN "body" ELSE "broken",
                                  ![c].size = Head(conn[c].down).length - HEADER_SIZE,
                                  ![c].buffer = <<>>]
<1>2. \/ \E n \in Received(conn[c].down, HEADER_SIZE) : piece(n)
      \/ client' = [client EXCEPT ![c].at = "broken"] /\ conn' = conn
  BY DEF RecvHeader
<1>3. CASE client' = [client EXCEPT ![c].at = "broken"] /\ conn' = conn
  <2>1. /\ m.at = "broken" /\ DOMAIN m = DOMAIN client[c]
        /\ m.sent = client[c].sent /\ m.printed = client[c].printed /\ v = conn[c]
        /\ DOMAIN conn' = Clients /\ DOMAIN client' = Clients
        /\ \A d \in Clients \ {c} : conn'[d] = conn[d] /\ client'[d] = client[d]
    BY <1>3, OfClient
  <2> HIDE DEF m, v
  <2>2. ClientInv(script[c], v, m, child[c])
    BY <1>1, <2>1, OfClient, ClientGone
  <2>3. Alone(c)
    BY <1>1, <2>1, <2>2, OfClient DEF Alone, m, v
  <2>4. m.at # "start"
    BY <2>1
  <2>. QED BY <1>1, <2>1, <2>3, <2>4, Waiting DEF m, v
<1>4. ASSUME NEW n \in Received(conn[c].down, HEADER_SIZE), piece(n)
      PROVE  EchoInv'
  <2>1. /\ DOMAIN v = DOMAIN conn[c] /\ v.up = conn[c].up /\ v.upopen = conn[c].upopen
        /\ v.downopen = conn[c].downopen /\ v.down = Rest(conn[c].down, n)
        /\ DOMAIN conn' = Clients /\ \A d \in Clients \ {c} : conn'[d] = conn[d]
    BY <1>4, OfClient
  <2>2. /\ m.at = IF n = HEADER_SIZE THEN "body" ELSE "broken"
        /\ m.size = Head(conn[c].down).length - HEADER_SIZE /\ m.buffer = <<>>
        /\ DOMAIN m = DOMAIN client[c]
        /\ m.sent = client[c].sent /\ m.printed = client[c].printed
        /\ DOMAIN client' = Clients /\ \A d \in Clients \ {c} : client'[d] = client[d]
    BY <1>4, OfClient
  <2> HIDE DEF m, v, piece
  <2>3. ClientInv(script[c], v, m, child[c])
    <3>1. CASE n # HEADER_SIZE
      BY <1>1, <2>1, <2>2, <3>1, OfClient, ClientGone
    <3>2. CASE n = HEADER_SIZE
      BY <1>1, <2>1, <2>2, <3>2, OfClient, HeaderReceived
    <3>. QED BY <3>1, <3>2
  <2>4. Alone(c)
    BY <1>1, <2>1, <2>2, <2>3, OfClient DEF Alone, m, v
  <2>5. m.at # "start"
    BY <2>2
  <2>. QED BY <1>1, <2>1, <2>4, <2>5, Waiting DEF m, v
<1>. QED BY <1>2, <1>3, <1>4

LEMMA RecvBodyStep ==
    ASSUME EchoInv, NEW c \in Clients, RecvBody(c)
    PROVE  EchoInv'
<1> DEFINE m == client'[c]
           v == conn'[c]
<1>1. client[c].at = "body" /\ script' = script /\ waiting' = waiting /\ child' = child
  BY DEF RecvBody
<1>2. PICK n \in Received(conn[c].down, CHUNK) :
        LET buffer == client[c].buffer \o SubSeq(conn[c].down, 1, n)
        IN  /\ conn' = [conn EXCEPT ![c].down = Rest(@, n)]
            /\ client' = IF Len(buffer) < client[c].size
                         THEN [client EXCEPT ![c].buffer = buffer]
                         ELSE [client EXCEPT ![c].at = "send", ![c].printed = Append(@, buffer)]
  BY DEF RecvBody
<1> DEFINE b == client[c].buffer \o SubSeq(conn[c].down, 1, n)
<1>3. /\ conn' = [conn EXCEPT ![c].down = Rest(@, n)]
      /\ client' = IF Len(b) < client[c].size
                   THEN [client EXCEPT ![c].buffer = b]
                   ELSE [client EXCEPT ![c].at = "send", ![c].printed = Append(@, b)]
  BY <1>2
<1> HIDE DEF b
<1>4. /\ DOMAIN m = DOMAIN client[c] /\ DOMAIN v = DOMAIN conn[c]
      /\ m.sent = client[c].sent
      /\ v.up = conn[c].up /\ v.upopen = conn[c].upopen /\ v.downopen = conn[c].downopen
      /\ v.down = Rest(conn[c].down, n)
      /\ DOMAIN conn' = Clients /\ DOMAIN client' = Clients
      /\ \A d \in Clients \ {c} : conn'[d] = conn[d] /\ client'[d] = client[d]
  BY <1>3, OfClient
<1>5. /\ Len(b) < client[c].size => /\ m.at = "body" /\ m.buffer = b /\ m.size = client[c].size
                                     /\ m.printed = client[c].printed
      /\ ~(Len(b) < client[c].size) => m.at = "send" /\ m.printed = Append(client[c].printed, b)
  BY <1>1, <1>3, OfClient
<1>6. b = client[c].buffer \o SubSeq(conn[c].down, 1, n) /\ n \in Received(conn[c].down, CHUNK)
  BY <1>2 DEF b
<1> HIDE DEF m, v
<1>7. ClientInv(script[c], v, m, child[c])
  <2> DEFINE s == script[c]
             w == conn[c]
             l == client[c]
             h == child[c]
  <2>1. s \in Scripts /\ ClientInv(s, w, l, h) /\ l.at = "body"
    BY <1>1, OfClient
  <2>2. n \in Received(w.down, CHUNK) /\ b = l.buffer \o SubSeq(w.down, 1, n)
    BY <1>6
  <2>3. DOMAIN m = DOMAIN l /\ m.sent = l.sent
    BY <1>4
  <2>4. Len(b) < l.size => m.at = "body" /\ m.buffer = b /\ m.size = l.size /\ m.printed = l.printed
    BY <1>5
  <2>5. ~(Len(b) < l.size) => m.at = "send" /\ m.printed = Append(l.printed, b)
    BY <1>5
  <2>6. /\ DOMAIN v = DOMAIN w /\ v.up = w.up /\ v.upopen = w.upopen /\ v.downopen = w.downopen
        /\ v.down = Rest(w.down, n)
    BY <1>4
  <2> HIDE DEF s, w, l, h
  <2>7. ClientInv(s, v, m, h)
    BY <2>1, <2>2, <2>3, <2>4, <2>5, <2>6, BodyReceived
  <2>. QED BY <2>7 DEF s, h
<1>8. Alone(c)
  BY <1>1, <1>4, <1>7, OfClient DEF Alone, m, v
<1>9. m.at # "start"
  BY <1>5
<1>. QED BY <1>1, <1>4, <1>8, <1>9, Waiting DEF m, v

LEMMA ChildHeaderStep ==
    ASSUME EchoInv, NEW c \in Clients, ChildHeader(c)
    PROVE  EchoInv'
<1> DEFINE g == child'[c]
           v == conn'[c]
           head == Head(conn[c].up)
           refused == head.op \notin {0, 1} \/ Size(head) < 0 \/ Size(head) > MAX_SIZE
           next(n) == IF n < HEADER_SIZE THEN "broken" ELSE IF refused THEN "leaving" ELSE "body"
           piece(n) == /\ conn' = [conn EXCEPT ![c].up = Rest(@, n)]
                       /\ child' = [child EXCEPT ![c].h = head, ![c].buffer = <<>>, ![c].at = next(n)]
<1>1. child[c].at = "header" /\ script' = script /\ waiting' = waiting /\ client' = client
  BY DEF ChildHeader
<1>2. \/ \E n \in Received(conn[c].up, HEADER_SIZE) : piece(n)
      \/ ~conn[c].upopen /\ child' = [child EXCEPT ![c].at = "leaving"] /\ conn' = conn
  BY DEF ChildHeader
<1>3. CASE ~conn[c].upopen /\ child' = [child EXCEPT ![c].at = "leaving"] /\ conn' = conn
  <2>1. /\ g.at = "leaving" /\ DOMAIN g = DOMAIN child[c] /\ DOMAIN child' = Clients
        /\ \A d \in Clients \ {c} : child'[d] = child[d]
    BY <1>3, OfClient
  <2> HIDE DEF g
  <2>2. ClientInv(script[c], conn[c], client[c], g)
    BY <1>1, <1>3, <2>1, OfClient, EndMet
  <2>3. Alone(c)
    BY <1>1, <1>3, <2>1, <2>2, OfClient DEF Alone, g
  <2>. QED BY <1>1, <2>3, Waiting
<1>4. ASSUME NEW n \in Received(conn[c].up, HEADER_SIZE), piece(n)
      PROVE  EchoInv'
  <2>1. /\ DOMAIN v = DOMAIN conn[c] /\ v.down = conn[c].down /\ v.upopen = conn[c].upopen
        /\ v.downopen = conn[c].downopen /\ v.up = Rest(conn[c].up, n)
        /\ DOMAIN conn' = Clients /\ \A d \in Clients \ {c} : conn'[d] = conn[d]
    BY <1>4, OfClient
  <2> HIDE DEF refused
  <2>2. /\ g.at = next(n) /\ g.h = head /\ g.buffer = <<>> /\ DOMAIN g = DOMAIN child[c]
        /\ DOMAIN child' = Clients /\ \A d \in Clients \ {c} : child'[d] = child[d]
    BY <1>4, OfClient
  <2>3. n = HEADER_SIZE \/ n < HEADER_SIZE
    <3>1. CASE n \in 1..HEADER_SIZE
      BY <3>1, SizeAssumption
    <3>2. CASE Len(conn[c].up) < HEADER_SIZE /\ n \in 1..Len(conn[c].up)
      BY <3>2, SizeAssumption
    <3>. QED BY <3>1, <3>2 DEF Received
  <2>4. g.at \in {"broken", "leaving", "body"} /\ (g.at = "body" => n = HEADER_SIZE)
    BY <2>2, <2>3
  <2>5. ClientInv(script[c], v, client[c], g)
    <3> DEFINE s == script[c]
               w == conn[c]
               l == client[c]
               h == child[c]
    <3>1. s \in Scripts /\ ClientInv(s, w, l, h) /\ h.at = "header"
      BY <1>1, OfClient
    <3>2. n \in Received(w.up, HEADER_SIZE)
      OBVIOUS
    <3>3. DOMAIN g = DOMAIN h /\ g.h = Head(w.up) /\ g.buffer = <<>>
      BY <2>2
    <3>4. /\ DOMAIN v = DOMAIN w /\ v.down = w.down /\ v.upopen = w.upopen
          /\ v.downopen = w.downopen /\ v.up = Rest(w.up, n)
      BY <2>1
    <3> HIDE DEF s, w, l, h, g, v, next
    <3>5. ClientInv(s, v, l, g)
      BY <2>4, <3>1, <3>2, <3>3, <3>4, HeaderTaken
    <3>. QED BY <3>5 DEF s, l
  <2> HIDE DEF g, v, next, piece
  <2>6. Alone(c)
    BY <1>1, <2>1, <2>2, <2>5, OfClient DEF Alone, g, v
  <2>. QED BY <1>1, <2>6, Waiting
<1>. QED BY <1>2, <1>3, <1>4

LEMMA ChildBodyStep ==
    ASSUME EchoInv, NEW c \in Clients, ChildBody(c)
    PROVE  EchoInv'
<1> DEFINE g == child'[c]
           v == conn'[c]
           size == Size(child[c].h)
           piece(n, b, left, reply) ==
             IF Len(b) < size
             THEN conn' = left /\ child' = [child EXCEPT ![c].buffer = b]
             ELSE /\ conn' = IF ~conn[c].upopen THEN left ELSE [left EXCEPT ![c].down = @ \o reply]
                  /\ child' = [child EXCEPT ![c].at = IF Len(b) # size \/ ~conn[c].upopen
                                                      THEN "leaving" ELSE "header"]
<1>1. child[c].at = "body" /\ script' = script /\ waiting' = waiting /\ client' = client
  BY DEF ChildBody
<1>2. PICK n \in Received(conn[c].up, CHUNK) :
        piece(n, child[c].buffer \o SubSeq(conn[c].up, 1, n), [conn EXCEPT ![c].up = Rest(@, n)],
              Reply(child[c].h, SubSeq(child[c].buffer \o SubSeq(conn[c].up, 1, n), 1, size)))
  BY DEF ChildBody
<1> DEFINE b == child[c].buffer \o SubSeq(conn[c].up, 1, n)
           r == Reply(child[c].h, SubSeq(b, 1, size))
           rest == Rest(conn[c].up, n)
           left == [conn EXCEPT ![c].up = rest]
<1>3. piece(n, b, left, r)
  BY <1>2
<1>4. /\ b = child[c].buffer \o SubSeq(conn[c].up, 1, n) /\ n \in Received(conn[c].up, CHUNK)
      /\ r = Reply(child[c].h, SubSeq(b, 1, size)) /\ rest = Rest(conn[c].up, n)
  BY <1>2
<1> HIDE DEF b, r, rest, size
<1>5. /\ DOMAIN left = Clients /\ DOMAIN left[c] = DOMAIN conn[c] /\ left[c].up = rest
      /\ left[c].down = conn[c].down /\ left[c].upopen = conn[c].upopen
      /\ left[c].downopen = conn[c].downopen /\ \A d \in Clients \ {c} : left[d] = conn[d]
  BY OfClient
<1> HIDE DEF left
<1>6. /\ DOMAIN v = DOMAIN conn[c] /\ v.up = rest /\ v.upopen = conn[c].upopen
      /\ v.downopen = conn[c].downopen
      /\ DOMAIN conn' = Clients /\ \A d \in Clients \ {c} : conn'[d] = conn[d]
  <2>1. CASE conn' = left
    BY <1>5, <2>1
  <2>2. CASE conn' = [left EXCEPT ![c].down = @ \o r]
    BY <1>5, <2>2, OfClient
  <2>. QED BY <1>3, <2>1, <2>2
<1>7. /\ DOMAIN g = DOMAIN child[c] /\ g.h = child[c].h
      /\ DOMAIN child' = Clients /\ \A d \in Clients \ {c} : child'[d] = child[d]
  <2>1. CASE child' = [child EXCEPT ![c].buffer = b]
    BY <2>1, OfClient
  <2>2. CASE child' = [child EXCEPT ![c].at = IF Len(b) # size \/ ~conn[c].upopen
                                              THEN "leaving" ELSE "header"]
    BY <2>2, OfClient
  <2>. QED BY <1>3, <2>1, <2>2
<1>8. Len(b) < size => g.at = "body" /\ g.buffer = b /\ v.down = conn[c].down
  BY <1>1, <1>3, <1>5, OfClient
<1>9. ~(Len(b) < size) =>
         /\ g.at = IF Len(b) # size \/ ~conn[c].upopen THEN "leaving" ELSE "header"
         /\ v.down = IF ~conn[c].upopen THEN conn[c].down ELSE conn[c].down \o r
  <2> SUFFICES ASSUME ~(Len(b) < size)
               PROVE  /\ g.at = IF Len(b) # size \/ ~conn[c].upopen THEN "leaving" ELSE "header"
                      /\ v.down = IF ~conn[c].upopen THEN conn[c].down ELSE conn[c].down \o r
    OBVIOUS
  <2>1. /\ conn' = IF ~conn[c].upopen THEN left ELSE [left EXCEPT ![c].down = @ \o r]
        /\ child' = [child EXCEPT ![c].at = IF Len(b) # size \/ ~conn[c].upopen
                                            THEN "leaving" ELSE "header"]
    BY <1>3
  <2>2. g.at = IF Len(b) # size \/ ~conn[c].upopen THEN "leaving" ELSE "header"
    BY <2>1, OfClient
  <2>3. CASE ~conn[c].upopen
    BY <1>5, <2>1, <2>2, <2>3
  <2>4. CASE conn[c].upopen
    <3>1. conn' = [left EXCEPT ![c].down = @ \o r]
      BY <2>1, <2>4
    <3>2. v.down = conn[c].down \o r
      BY <1>5, <3>1, OfClient
    <3>. QED BY <2>2, <2>4, <3>2
  <2>. QED BY <2>3, <2>4
<1> HIDE DEF g, v
<1>10. ClientInv(script[c], v, client[c], g)
  <2> DEFINE s == script[c]
             w == conn[c]
             l == client[c]
             h == child[c]
  <2>1. s \in Scripts /\ ClientInv(s, w, l, h) /\ h.at = "body"
    BY <1>1, OfClient
  <2>2. n \in Received(w.up, CHUNK) /\ b = h.buffer \o SubSeq(w.up, 1, n)
    BY <1>4
  <2>3. DOMAIN g = DOMAIN h /\ g.h = h.h
    BY <1>7
  <2>4. /\ DOMAIN v = DOMAIN w /\ v.upopen = w.upopen /\ v.downopen = w.downopen
        /\ v.up = Rest(w.up, n)
    BY <1>4, <1>6
  <2>5. Len(b) < Size(h.h) => g.at = "body" /\ g.buffer = b /\ v.down = w.down
    BY <1>8 DEF size
  <2>6. ~(Len(b) < Size(h.h)) =>
           /\ g.at = IF Len(b) # Size(h.h) \/ ~w.upopen THEN "leaving" ELSE "header"
           /\ v.down = IF ~w.upopen THEN w.down
                       ELSE w.down \o Reply(h.h, SubSeq(b, 1, Size(h.h)))
    BY <1>4, <1>9 DEF size
  <2> HIDE DEF s, w, l, h
  <2>7. ClientInv(s, v, l, g)
    BY <2>1, <2>2, <2>3, <2>4, <2>5, <2>6, BodyTaken
  <2>. QED BY <2>7 DEF s, l
<1>11. Alone(c)
  BY <1>1, <1>6, <1>7, <1>10, OfClient DEF Alone, g, v
<1>. QED BY <1>1, <1>11, Waiting

LEMMA LeavesStep ==
    ASSUME EchoInv, NEW c \in Clients, ChildLeaves(c)
    PROVE  EchoInv'
<1> DEFINE g == child'[c]
           v == conn'[c]
<1>1. child[c].at = "leaving" /\ script' = script /\ waiting' = waiting /\ client' = client
  BY DEF ChildLeaves
<1>2. /\ g.at = "zombie" /\ DOMAIN g = DOMAIN child[c] /\ DOMAIN child' = Clients
      /\ \A d \in Clients \ {c} : child'[d] = child[d]
  BY OfClient DEF ChildLeaves
<1>3. /\ DOMAIN v = DOMAIN conn[c] /\ v.up = conn[c].up /\ v.down = conn[c].down
      /\ v.upopen = conn[c].upopen
      /\ DOMAIN conn' = Clients /\ \A d \in Clients \ {c} : conn'[d] = conn[d]
  BY OfClient DEF ChildLeaves
<1> HIDE DEF g, v
<1>4. ClientInv(script[c], v, client[c], g)
  BY <1>1, <1>2, <1>3, OfClient, ChildGone
<1>5. Alone(c)
  BY <1>1, <1>2, <1>3, <1>4, OfClient DEF Alone, g, v
<1>. QED BY <1>1, <1>5, Waiting

LEMMA ReapStep ==
    ASSUME EchoInv, Reap
    PROVE  EchoInv'
<1>1. PICK c \in Clients : child[c].at = "zombie" /\ child' = [child EXCEPT ![c].at = "gone"]
  BY DEF Reap
<1>2. script' = script /\ waiting' = waiting /\ client' = client /\ conn' = conn
  BY DEF Reap
<1> DEFINE g == child'[c]
<1>3. /\ g.at = "gone" /\ DOMAIN g = DOMAIN child[c] /\ DOMAIN child' = Clients
      /\ \A d \in Clients \ {c} : child'[d] = child[d]
  BY <1>1, OfClient
<1> HIDE DEF g
<1>4. ClientInv(script[c], conn[c], client[c], g)
  BY <1>1, <1>3, OfClient, ChildGone
<1>5. Alone(c)
  BY <1>2, <1>3, <1>4, OfClient DEF Alone, g
<1>. QED BY <1>1, <1>2, <1>5, Waiting

\* A connection is made: it waits behind the others.
LEMMA ConnectStep ==
    ASSUME EchoInv, NEW c \in Clients, Connect(c)
    PROVE  EchoInv'
<1> DEFINE m == client'[c]
           q == waiting
<1>1. /\ client[c].at = "start" /\ script' = script /\ conn' = conn /\ child' = child
      /\ waiting' = Append(q, c)
  BY DEF Connect
<1>2. /\ m.at = "send" /\ m.sent = client[c].sent /\ m.printed = client[c].printed
      /\ DOMAIN m = DOMAIN client[c] /\ DOMAIN client' = Clients
      /\ \A d \in Clients \ {c} : client'[d] = client[d]
  BY OfClient DEF Connect
<1> HIDE DEF m
<1>3. ClientInv(script[c], conn[c], m, child[c])
  BY <1>1, <1>2, OfClient, ConnectClient
<1>4. Alone(c)
  BY <1>1, <1>2, <1>3, OfClient DEF Alone, m
<1>5. WaitingInv'
  <2>1. /\ q \in Seq(Clients)
        /\ \A i \in DOMAIN q : /\ child[q[i]].at = "none" /\ conn[q[i]].downopen
                               /\ client[q[i]].at # "start"
        /\ \A i, j \in DOMAIN q : i # j => q[i] # q[j]
    BY DEF EchoInv, WaitingInv
  <2>2. child[c].at = "none" /\ conn[c].downopen
    BY <1>1, OfClient DEF ClientInv, StartInv
  <2> DEFINE p == Append(q, c)
  <2>3. Len(q) \in Nat /\ DOMAIN q = 1..Len(q) /\ \A i \in 1..Len(q) : q[i] \in Clients
    BY <2>1, LenProperties, ElementOfSeq
  <2>4. /\ p \in Seq(Clients) /\ Len(p) = Len(q) + 1 /\ p[Len(q) + 1] = c
        /\ \A i \in 1..Len(q) : p[i] = q[i]
    BY <2>1
  <2>5. DOMAIN p = 1..(Len(q) + 1)
    BY <2>4, LenProperties
  <2>6. waiting' = p
    BY <1>1
  <2> HIDE DEF p, q
  <2>7. \A i \in DOMAIN p : (i \in DOMAIN q /\ p[i] = q[i]) \/ (i = Len(q) + 1 /\ p[i] = c)
    BY <2>3, <2>4, <2>5
  <2>8. \A i \in DOMAIN q : q[i] # c
    BY <1>1, <2>1
  <2>9. ASSUME NEW i \in DOMAIN p
        PROVE  child'[p[i]].at = "none" /\ conn'[p[i]].downopen /\ client'[p[i]].at # "start"
    <3>1. CASE i \in DOMAIN q /\ p[i] = q[i]
      <4>1. q[i] \in Clients \ {c}
        BY <2>3, <2>8, <3>1
      <4>. QED BY <1>1, <1>2, <2>1, <3>1, <4>1
    <3>2. CASE p[i] = c
      BY <1>1, <1>2, <2>2, <3>2 DEF m
    <3>. QED BY <2>7, <3>1, <3>2
  <2>10. \A i, j \in DOMAIN p : i # j => p[i] # p[j]
    BY <2>1, <2>7, <2>8
  <2>. QED BY <2>4, <2>6, <2>9, <2>10 DEF WaitingInv
<1>. QED BY <1>4, <1>5, Others

\* The first of those that wait is accepted, or its connection closed.
LEMMA AcceptStep ==
    ASSUME EchoInv, AcceptClient
    PROVE  EchoInv'
<1> DEFINE q == waiting
           p == Tail(q)
           c == Head(q)
<1>1. /\ q \in Seq(Clients)
      /\ \A i \in DOMAIN q : /\ child[q[i]].at = "none" /\ conn[q[i]].downopen
                             /\ client[q[i]].at # "start"
      /\ \A i, j \in DOMAIN q : i # j => q[i] # q[j]
  BY DEF EchoInv, WaitingInv
<1>2. q # <<>> /\ waiting' = p /\ script' = script /\ client' = client
  BY DEF AcceptClient
<1>3. \/ child' = [child EXCEPT ![c].at = "header"] /\ conn' = conn
      \/ conn' = [conn EXCEPT ![c].downopen = FALSE] /\ child' = child
  BY DEF AcceptClient
<1>4. Len(q) \in Nat \ {0} /\ DOMAIN q = 1..Len(q) /\ \A i \in 1..Len(q) : q[i] \in Clients
  BY <1>1, <1>2, LenProperties, EmptySeq, ElementOfSeq
<1>5. c = q[1] /\ 1 \in DOMAIN q
  BY <1>1, <1>2, <1>4
<1>6. p \in Seq(Clients) /\ Len(p) = Len(q) - 1 /\ \A i \in 1..Len(p) : p[i] = q[i + 1]
  BY <1>1, <1>2, HeadTailProperties
<1>7. \A i \in DOMAIN p : i + 1 \in DOMAIN q /\ i + 1 # 1 /\ p[i] = q[i + 1]
  <2>1. DOMAIN p = 1..(Len(q) - 1)
    BY <1>6, LenProperties
  <2>. QED BY <1>4, <1>6, <2>1
<1> HIDE DEF q, p, c
<1>8. c \in Clients /\ child[c].at = "none" /\ conn[c].downopen /\ client[c].at # "start"
  BY <1>1, <1>4, <1>5
<1>9. /\ DOMAIN conn' = Clients /\ DOMAIN child' = Clients
      /\ \A d \in Clients \ {c} : conn'[d] = conn[d] /\ child'[d] = child[d]
  BY <1>3, <1>8, OfClient
<1>10. ClientInv(script[c], conn'[c], client[c], child'[c])
  <2>1. CASE child' = [child EXCEPT ![c].at = "header"] /\ conn' = conn
    <3> DEFINE g == child'[c]
    <3>1. DOMAIN g = DOMAIN child[c] /\ g.at = "header"
      BY <1>8, <2>1, OfClient
    <3> HIDE DEF g
    <3>2. ClientInv(script[c], conn[c], client[c], g)
      BY <1>8, <3>1, OfClient, Accepted
    <3>. QED BY <2>1, <3>2 DEF g
  <2>2. CASE conn' = [conn EXCEPT ![c].downopen = FALSE] /\ child' = child
    <3> DEFINE v == conn'[c]
    <3>1. /\ DOMAIN v = DOMAIN conn[c] /\ v.up = conn[c].up /\ v.down = conn[c].down
          /\ v.upopen = conn[c].upopen /\ ~v.downopen
      BY <1>8, <2>2, OfClient
    <3> HIDE DEF v
    <3>2. ClientInv(script[c], v, client[c], child[c])
      BY <1>8, <3>1, OfClient, Refused
    <3>. QED BY <2>2, <3>2 DEF v
  <2>. QED BY <1>3, <2>1, <2>2
<1>11. Alone(c)
  BY <1>2, <1>8, <1>9, <1>10, OfClient DEF Alone
<1>12. WaitingInv'
  <2>1. ASSUME NEW i \in DOMAIN p
        PROVE  child'[p[i]].at = "none" /\ conn'[p[i]].downopen /\ client'[p[i]].at # "start"
    <3>1. p[i] \in Clients \ {c}
      BY <1>1, <1>4, <1>5, <1>7
    <3>2. child[p[i]].at = "none" /\ conn[p[i]].downopen /\ client[p[i]].at # "start"
      BY <1>1, <1>7
    <3>. QED BY <1>2, <1>9, <3>1, <3>2
  <2>2. ASSUME NEW i \in DOMAIN p, NEW j \in DOMAIN p, i # j
        PROVE  p[i] # p[j]
    <3>1. i \in Int /\ j \in Int
      BY <1>6, LenProperties
    <3>2. i + 1 # j + 1
      BY <2>2, <3>1
    <3>. QED BY <1>1, <1>7, <3>2
  <2>. QED BY <1>2, <1>6, <2>1, <2>2 DEF WaitingInv
<1>. QED BY <1>8, <1>11, <1>12, Others

-----------------------------------------------------------------------------
(* The invariant.                                                          *)

LEMMA EchoStart == CaesarInit => EchoInv
<1> SUFFICES ASSUME NEW scripts \in [Clients -> Scripts], Listen(scripts)
             PROVE  EchoInv
  BY DEF CaesarInit
<1>1. script \in [Clients -> Scripts] /\ waiting = <<>>
  BY DEF Listen
<1>2. DOMAIN conn = Clients /\ DOMAIN client = Clients /\ DOMAIN child = Clients
  BY DEF Listen
<1>3. WaitingInv
  BY <1>1 DEF WaitingInv
<1>4. ASSUME NEW c \in Clients
      PROVE  ClientInv(script[c], conn[c], client[c], child[c])
  <2> DEFINE w == conn[c]
             l == client[c]
             h == child[c]
  <2>1. /\ w = [up |-> <<>>, down |-> <<>>, upopen |-> TRUE, downopen |-> TRUE]
        /\ l = [at |-> "start", sent |-> 0, size |-> 0, buffer |-> <<>>, printed |-> <<>>]
        /\ h = [at |-> "none", h |-> <<>>, buffer |-> <<>>]
    BY DEF Listen
  <2>2. RecordsOK(w, l, h)
    BY <2>1 DEF RecordsOK
  <2>3. /\ w.up = <<>> /\ w.down = <<>> /\ w.upopen /\ w.downopen
        /\ l.at = "start" /\ l.sent = 0 /\ l.printed = <<>> /\ h.at = "none"
    BY <2>1
  <2> HIDE DEF w, l, h
  <2>4. PrintedInv(script[c], l)
    <3>1. <<>> \in Seq(Seq(Character)) /\ DOMAIN <<>> = {}
      OBVIOUS
    <3>. QED BY <2>3, <3>1 DEF PrintedInv
  <2>5. ClientInv(script[c], w, l, h)
    BY <2>2, <2>3, <2>4 DEF ClientInv, StartInv, SendInv, HeaderInv, BodyInv, OpenInv
  <2>. QED BY <2>5 DEF w, l, h
<1>. QED BY <1>1, <1>2, <1>3, <1>4 DEF EchoInv

LEMMA EchoStep == EchoInv /\ [CaesarNext]_caesar_vars => EchoInv'
<1> SUFFICES ASSUME EchoInv, [CaesarNext]_caesar_vars PROVE EchoInv'
  OBVIOUS
<1>1. CASE AcceptClient
  BY <1>1, AcceptStep
<1>2. CASE Reap
  BY <1>2, ReapStep
<1>3. ASSUME NEW c \in Clients,
             \/ Connect(c) \/ SendMessage(c) \/ CloseClient(c) \/ RecvHeader(c)
             \/ RecvBody(c) \/ ChildHeader(c) \/ ChildBody(c) \/ ChildLeaves(c)
      PROVE  EchoInv'
  BY <1>3, ConnectStep, SendStep, CloseStep, RecvHeaderStep, RecvBodyStep, ChildHeaderStep,
     ChildBodyStep, LeavesStep
<1>4. CASE UNCHANGED caesar_vars
  BY <1>4 DEF caesar_vars, EchoInv, WaitingInv
<1>. QED BY <1>1, <1>2, <1>3, <1>4 DEF CaesarNext

\* Each text is in one place: in the stream up, with the child, in the stream
\* down, or printed.
THEOREM EchoInvariant == CaesarSpec => []EchoInv
BY EchoStart, EchoStep, PTL DEF CaesarSpec

\* What the invariant says of a client that is waiting, and of what it printed.
LEMMA EchoImplies == EchoInv => Echoed
<1> SUFFICES ASSUME EchoInv, NEW c \in Clients
             PROVE  /\ \A k \in DOMAIN client[c].printed :
                         client[c].printed[k] = [i \in DOMAIN Texts(c)[k] |->
                            Rotated(Texts(c)[k][i],
                                    IF script[c].op = 0 THEN script[c].shift ELSE -script[c].shift)]
                    /\ client[c].at \in {"header", "body"} /\ child[c].at \in {"header", "body"}
                         => conn[c].up # <<>> \/ conn[c].down # <<>>
  BY DEF Echoed
<1> DEFINE s == script[c]
<1>1. s \in Scripts /\ ClientInv(s, conn[c], client[c], child[c])
  BY OfClient
<1>2. ASSUME NEW k \in DOMAIN client[c].printed
      PROVE  client[c].printed[k] = [i \in DOMAIN s.texts[k] |->
                 Rotated(s.texts[k][i], IF s.op = 0 THEN s.shift ELSE -s.shift)]
  <2>1. k \in DOMAIN s.texts /\ client[c].printed[k] = Enciphered(s, k)
    BY <1>1 DEF ClientInv, PrintedInv
  <2>2. ASSUME NEW i \in DOMAIN s.texts[k]
        PROVE  Caesar(s.texts[k][i], IF s.op = 0 THEN s.shift ELSE (26 - s.shift) % 65536)
                 = Rotated(s.texts[k][i], IF s.op = 0 THEN s.shift ELSE -s.shift)
    <3> DEFINE x == s.texts[k][i]
               shift == s.shift
               op == s.op
    <3>1. x \in 1..255
      BY <1>1, <2>1, TextLemma
    <3>2. shift \in 0..25
      BY <1>1, ScriptAssumption
    <3> HIDE DEF x, shift, op
    <3>3. Rotates(x, shift, op)
      BY <3>1, <3>2, CaesarLemma
    <3>. QED BY <3>3 DEF Rotates, x, shift, op
  <2>. QED BY <2>1, <2>2 DEF Enciphered
<1>3. ASSUME client[c].at \in {"header", "body"}, child[c].at \in {"header", "body"}
      PROVE  conn[c].up # <<>> \/ conn[c].down # <<>>
  <2>1. HeaderInv(s, conn[c], client[c], child[c]) /\ BodyInv(s, conn[c], client[c], child[c])
    BY <1>1 DEF ClientInv
  <2>2. \A k \in DOMAIN s.texts : Request(s, k) # <<>> /\ Answer(s, k) # <<>>
    BY <1>1, RequestLemma, AnswerLemma
  <2>. QED BY <1>3, <2>1, <2>2 DEF HeaderInv, BodyInv
<1>. QED BY <1>2, <1>3 DEF Texts

\* Whatever pieces the streams come in, and whoever goes away, a client prints
\* its texts in order, as a whole and enciphered, and never waits for a child
\* that waits for it.
THEOREM TextsEchoed == CaesarSpec => []Echoed
BY EchoInvariant, EchoImplies, PTL

=============================================================================
