----------------------------- MODULE Blacklist ------------------------------
(***************************************************************************)
(* The password counter of EE205/PasswordBlacklist: blacklist.c, and       *)
(* sub.c, which uses no more than the first HASHSIZE chains of a table     *)
(* that grows all the same.  The input is a sequence of characters (small  *)
(* numbers); a chain is a sequence of nodes.                               *)
(***************************************************************************)
EXTENDS Integers, SequencesExt, TLC

CONSTANTS HASHSIZE,
          LINE,       \* the size of the buffer of a line, 50
          NEWLINE,
          Inputs,     \* sequences of characters
          Arguments   \* [n1, n2]: words to print, length of a substring; -1 when not given

VARIABLES input, argv,
          spreads,  \* blacklist.c, or sub.c
          position, \* characters of the input that were read
          words,    \* of the line that was read, those to insert
          pw,
          printed,  \* the nodes printed, or <<>> before
          pieces    \* a line did not fit in the buffer, or had no end

blacklist == <<input, argv, spreads, position, words, pw, printed, pieces>>

hashcode(str) ==
    LET hash[n \in 0..Len(str)] == IF n = 0 THEN 5381 ELSE hash[n - 1] * 33 + str[n]
    IN  hash[Len(str)]

\* The chain of str in a table of size chains; hashcode() of sub.c returns
\* it modulo HASHSIZE, of which every size is a multiple.
Chain(str, size) == hashcode(str) % (IF spreads THEN size ELSE HASHSIZE)

\* All nodes, chain after chain.
allnodes(p) == FlattenSeq([i \in 1..p.cursize |-> p.hashmap[i - 1]])

\* A bug: a node moves to an empty chain of the new table, whatever was there.
FaultyResize(p) ==
    LET size == 2 * p.cursize
        chain(h) == SelectSeq(allnodes(p), LAMBDA x : Chain(x.word, size) = h)
    IN  IF p.curcnt \div p.cursize = 0 THEN p
        ELSE [p EXCEPT !.cursize = size,
                       !.hashmap = [h \in 0..(size - 1) |->
                                        IF chain(h) = <<>> THEN <<>> ELSE <<Last(chain(h))>>]]

\* curcnt / cursize is a division of integers: it stays below 0.7 until the
\* table has as many nodes as chains.  Nodes move to the front of their chain.
resize(p) ==
    LET size == 2 * p.cursize
    IN  IF p.curcnt \div p.cursize = 0 THEN p
        ELSE [p EXCEPT !.cursize = size,
                       !.hashmap = [h \in 0..(size - 1) |->
                           Reverse(SelectSeq(allnodes(p), LAMBDA x : Chain(x.word, size) = h))]]

\* The table with one more str, before it grows.
Counted(p, str) ==
    LET h == Chain(str, p.cursize)
        found == {k \in DOMAIN p.hashmap[h] : p.hashmap[h][k].word = str}
    IN  IF found # {} THEN [p EXCEPT !.hashmap[h][CHOOSE k \in found : TRUE].num = @ + 1]
        ELSE [p EXCEPT !.hashmap[h] = Append(@, [word |-> str, num |-> 1]), !.curcnt = @ + 1]

insert_word(p, str) ==
    IF Counted(p, str).curcnt = p.curcnt THEN Counted(p, str) ELSE resize(Counted(p, str))

-----------------------------------------------------------------------------
Empty(file, args, all) ==
    /\ input = file /\ argv = args /\ spreads = all
    /\ position = 0 /\ words = <<>> /\ printed = <<>> /\ pieces = FALSE
    /\ pw = [hashmap |-> [h \in 0..(HASHSIZE - 1) |-> <<>>], curcnt |-> 0, cursize |-> HASHSIZE]

BlacklistInit ==
    \E file \in Inputs, args \in Arguments, all \in BOOLEAN : Empty(file, args, all)

\* fgets(): up to a newline, or what fits; the last character is dropped.
ReadLine ==
    /\ words = <<>> /\ position < Len(input)
    /\ LET left == SubSeq(input, position + 1, Len(input))
           ends == {k \in DOMAIN left : left[k] = NEWLINE \/ k = LINE - 1 \/ k = Len(left)}
           n == CHOOSE k \in ends : \A j \in ends : k <= j
           c == SubSeq(left, 1, n - 1)
       IN  /\ position' = position + n
           /\ pieces' = (pieces \/ left[n] # NEWLINE)
           /\ words' = IF argv.n2 > 0
                       THEN [i \in 1..(Len(c) - argv.n2 + 1) |-> SubSeq(c, i, i + argv.n2 - 1)]
                       ELSE <<c>>
    /\ UNCHANGED <<input, argv, spreads, pw, printed>>

Insert ==
    /\ words # <<>>
    /\ pw' = insert_word(pw, Head(words)) /\ words' = Tail(words)
    /\ UNCHANGED <<input, argv, spreads, position, printed, pieces>>

\* qsort() leaves nodes of the same count in any order.  With n1 above the
\* number of words the loop runs past the array: only the words are kept here.
Ranked(nodes) ==
    {[k \in DOMAIN nodes |-> nodes[p[k]]] :
        p \in {q \in Permutations(DOMAIN nodes) :
                   \A k \in DOMAIN nodes : k > 1 => nodes[q[k - 1]].num >= nodes[q[k]].num}}

\* print(), and freeall() of the first HASHSIZE chains.
PrintWords ==
    /\ words = <<>> /\ position = Len(input) /\ position > 0 /\ printed = <<>>
    /\ \E all \in Ranked(allnodes(pw)) :
           printed' = IF argv.n1 > 0 /\ argv.n1 < pw.curcnt THEN SubSeq(all, 1, argv.n1) ELSE all
    /\ pw' = [pw EXCEPT !.hashmap = [h \in DOMAIN @ |-> IF h < HASHSIZE THEN <<>> ELSE @[h]]]
    /\ UNCHANGED <<input, argv, spreads, position, words, pieces>>

BlacklistNext == ReadLine \/ Insert \/ PrintWords
BlacklistSpec == BlacklistInit /\ [][BlacklistNext]_blacklist

-----------------------------------------------------------------------------
\* Where str is in the input: as a line, or, with n2, anywhere in a line.
Occurrences(str) ==
    {p \in DOMAIN input :
        /\ p + Len(str) - 1 <= Len(input) /\ SubSeq(input, p, p + Len(str) - 1) = str
        /\ argv.n2 > 0 \/ /\ p = 1 \/ input[p - 1] = NEWLINE
                          /\ p + Len(str) <= Len(input) /\ input[p + Len(str)] = NEWLINE}

Candidates ==
    {str \in {SubSeq(input, p, q) : p \in 1..(Len(input) + 1), q \in 0..Len(input)} :
        /\ \A k \in DOMAIN str : str[k] # NEWLINE
        /\ argv.n2 > 0 => Len(str) = argv.n2
        /\ Occurrences(str) # {}}

\* The words that are printed are the most common ones of the input, each
\* once and with the number of its occurrences, as many as were asked for;
\* however often the table grew and its chains moved in between.
TopWords == printed # <<>> /\ ~pieces =>
    /\ \A k \in DOMAIN printed :
          /\ printed[k].word \in Candidates
          /\ printed[k].num = Cardinality(Occurrences(printed[k].word))
          /\ \A j \in 1..(k - 1) : printed[j].word # printed[k].word /\ printed[j].num >= printed[k].num
    /\ Len(printed) = IF argv.n1 > 0 /\ argv.n1 < Cardinality(Candidates) THEN argv.n1
                      ELSE Cardinality(Candidates)
    /\ \A str \in Candidates \ {printed[k].word : k \in DOMAIN printed} :
          Cardinality(Occurrences(str)) <= Last(printed).num

=============================================================================
