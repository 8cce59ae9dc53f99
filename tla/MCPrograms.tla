------------------------------ MODULE MCPrograms ------------------------------
(***************************************************************************)
(* The programs of the repository that take an input and end, on small     *)
(* inputs.  A behaviour runs one of them: the others stay where they       *)
(* begin.                                                                  *)
(***************************************************************************)
EXTENDS MallocDriver, Pipeline, Assembler, CacheSim, Blacklist, Sorts, Fiber, Caesar

VARIABLE running

(* Allocator: sizes that round to blocks of 16, 24 and more, on a heap of  *)
(* two chunks and a rest.                                                  *)
MCSizes == {8, 12, 40, 60}

(* Pipeline: all programs of four instructions of a list, the second also  *)
(* a nop, which writes 0 to register 0, and every computation on a         *)
(* positive and a negative number; two words of data.                      *)
Ins(op, rs, rt, rd, imm, sh, target) ==
    [op |-> op, rs |-> rs, rt |-> rt, rd |-> rd, imm |-> imm, shamt |-> sh, target |-> target]
OfR(op, rd, rs, rt, sh) == Ins(op, rs, rt, rd, 0, sh, 0)
OfI(op, rt, rs, imm) == Ins(op, rs, rt, 0, imm, 0, 0)
\* rs has the index of the target, and the register that bits 25-21 name.
OfJ(op, index) == Ins(op, index, 0, 0, 0, 0, MEM_TEXT_START \div 4 + index)

Instrs == {OfI("addi", 1, 0, 12), OfI("addi", 1, 1, -4), OfR("add", 2, 1, 1, 0),
           OfI("lw", 1, 0, 12), OfI("lw", 2, 1, 0), OfI("sw", 1, 0, 12),
           OfI("beq", 1, 0, 1), OfI("bne", 1, 2, -2), OfJ("jal", 2), OfR("jr", 0, 3, 0, 0)}
Computations == {OfR(op, 2, 1, 1, 3) : op \in RType \ {"jr"}}
                \cup {OfI(op, 2, 1, imm) : op \in {"andi", "ori", "lui", "slti"}, imm \in {5, -3}}
Nop == OfR("sll", 0, 0, 0, 0)
MCProgs == [1..4 -> Instrs] \cup {<<i, Nop, j, k>> : i, j, k \in Instrs}
    \cup {<<OfI("addi", 1, 0, imm), i, OfI("sw", 2, 0, 12), OfR("nor", 3, 2, 1, 0)>> :
             i \in Computations, imm \in {7, -7}}
MCMemories == {[a \in Text \cup Data |-> IF a \in Data THEN a % BYTE ELSE init_memory[a]]}

(* Assembler: two words of data, and all texts of three lines of a list;   *)
(* also before the data.                                                   *)
Num(v) == [hex |-> FALSE, value |-> v]
LabelLine(n) == [kind |-> "label", name |-> n]
OpLine(op, regs, c) == [kind |-> "op", op |-> op, regs |-> regs, constant |-> c]
Refer(kind, op, regs, n) == [kind |-> kind, op |-> op, regs |-> regs, name |-> n]
DataLines == <<[kind |-> ".data"],
               [kind |-> "name", name |-> <<"x">>], [kind |-> "word", constant |-> Num(7)],
               [kind |-> "name", name |-> <<"y">>], [kind |-> "word", constant |-> Num(-1)]>>
TextLines == {LabelLine(<<"e", "n", "d">>), LabelLine(<<"l">>),
              Refer("la", "la", <<8>>, <<"x">>), Refer("la", "la", <<9>>, <<"y">>),
              Refer("branch", "bne", <<8, 9>>, <<"l">>), Refer("jump", "j", <<>>, <<"e", "n", "d">>),
              OpLine("addi", <<2, 3>>, Num(-4)), OpLine("sll", <<2, 3>>, Num(5)),
              OpLine("lw", <<4, 29>>, [hex |-> TRUE, value |-> -4]), OpLine("sub", <<1, 2, 3>>, Num(0)),
              OpLine("lui", <<5>>, [hex |-> TRUE, value |-> 10]), OpLine("jr", <<31>>, Num(0))}
MCSources == {DataLines \o <<[kind |-> ".text"]>> \o t : t \in [1..3 -> TextLines]}
             \cup {<<[kind |-> ".text"]>> \o t \o DataLines : t \in [1..2 -> TextLines]}

(* Cache: three blocks for one set of two, one for the other.              *)
MCAddresses == {0, 2, 4, 9}

(* Blacklist: lines of a and e (97, 101), whose hashes meet in one chain,  *)
(* an empty line, and lines that are too long for the buffer.              *)
Typed == {<<97, 10>>, <<101, 10>>, <<97, 101, 10>>, <<10>>, <<101, 97, 101>>}
MCInputs == {a \o b \o c \o d : a, b, c, d \in Typed}
MCArguments == {[n1 |-> -1, n2 |-> -1], [n1 |-> 2, n2 |-> -1], [n1 |-> 2, n2 |-> 2]}

(* Sorts: all arrays of up to four products of three kinds, and of five of *)
(* two.                                                                    *)
Kinds == {<<1, 1>>, <<2, 1>>, <<1, 2>>}
Product(kind, k) == [meanRating |-> kind[1], salesVolume |-> kind[2], id |-> k]
MCArrays == {[k \in DOMAIN a |-> Product(a[k], k)] :
                a \in UNION {[0..(n - 1) -> Kinds] : n \in 1..4} \cup [0..4 -> {<<1, 1>>, <<2, 1>>}]}

(* Fiber: exceptions, handlers, continuations and functions put into each  *)
(* other; and the operations one by one.                                   *)
IntE(n) == [e |-> "IntE", n |-> n]
Id(x) == [e |-> "Id", name |-> x]
NilE == [e |-> "NilE"]
Binary(op, l, r) == [e |-> op, left |-> l, right |-> r]
Unary(op, x) == [e |-> op, expr |-> x]
Val(x, l, b) == [e |-> "Val", name |-> x, expr |-> l, body |-> b]
Vcc(x, b) == [e |-> "Vcc", name |-> x, body |-> b]
Fun(x, b) == [e |-> "Fun", parameters |-> <<x>>, body |-> b]
App(f, a) == [e |-> "App", expr |-> f, exprs |-> <<a>>]
Throw(x) == [e |-> "Throw", expr |-> x]
Try(x, h) == [e |-> "Try", expr |-> x, handler |-> h]
If(c, t, f) == [e |-> "If", expr |-> c, then |-> t, else |-> f]
Tuple(es) == [e |-> "TupleE", exprs |-> es]
Test(x, t) == [e |-> "Test", expr |-> x, typ |-> t]
Proj(x, i) == [e |-> "Proj", expr |-> x, index |-> i]

Small == {IntE(2), Id("x"), Throw(IntE(1)), App(Id("x"), IntE(3))}
Handlers == {Fun("y", Id("y")), Fun("y", Throw(Binary("Add", Id("y"), Id("y")))),
             Fun("y", App(Id("x"), Id("y"))), Id("x")}
Joined(S, T) == {Binary("Add", a, b) : a \in S, b \in T} \cup {Val("x", a, b) : a \in S, b \in T}
    \cup {App(Fun("x", b), a) : a \in S, b \in T} \cup {Val("x", Fun("y", a), b) : a \in S, b \in T}
Middle == Small \cup {Vcc("x", a) : a \in Small} \cup {Try(a, h) : a \in Small, h \in Handlers}
    \cup Joined(Small, Small)
Large == {Vcc("x", Try(w, h)) : w \in Joined(Middle, Small), h \in Handlers}
\* def count(n) = if (n < 1) return (throw n) else 1 + even(n + -1);
\* def even(n) = 2 * if (n == 0) return 5 else count(n + -1);
Less(n) == Binary("Add", n, IntE(-1))
Functions == <<
    [name |-> "count", parameters |-> <<"n">>, body |-> Vcc("return",
        If(Binary("Lt", Id("n"), IntE(1)), App(Id("return"), Throw(Id("n"))),
           Binary("Add", IntE(1), App(Id("even"), Less(Id("n"))))))],
    [name |-> "even", parameters |-> <<"n">>, body |-> Vcc("return", Binary("Mul", IntE(2),
        If(Binary("Eq", Id("n"), IntE(0)), App(Id("return"), IntE(5)),
           App(Id("count"), Less(Id("n"))))))]>>
Ordinary ==
    {Binary(op, IntE(a), IntE(b)) : op \in Binaries, a \in {-7, 7, 0}, b \in {-2, 0, 3}}
    \cup {Tuple(<<Unary(op, l), Test(l, t)>>) : op \in {"Head", "Tail", "Empty"},
            l \in {NilE, Binary("ConsE", IntE(1), NilE), IntE(1)}, t \in {"ListT", "IntT", "BooleanT"}}
    \cup {Try([e |-> "RecFuns", funs |-> Functions, body |-> App(Id(f), IntE(n))],
              Fun("y", Tuple(<<Id("y"), Test(Id("y"), "IntT")>>))) : f \in {"count", "even"}, n \in 0..4}
    \cup {Proj(Tuple(<<IntE(1), [e |-> "BooleanE", b |-> TRUE], Fun("x", Id("x"))>>), i) : i \in 1..4}
MCExpressions == Large \cup Ordinary

(* Server: two clients, one of which may have an operation that is        *)
(* refused.  A first text of MAX_SIZE is followed by another one.          *)
MCScripts == {[op |-> 0, shift |-> 3, texts |-> <<<<97, 90, 33>>, <<122>>>>],
              [op |-> 1, shift |-> 25, texts |-> <<<<72, 105>>>>],
              [op |-> 2, shift |-> 1, texts |-> <<<<97>>>>]}

-----------------------------------------------------------------------------
Init ==
    /\ running \in {"allocator", "pipeline", "assembler", "cache", "blacklist", "sorts", "fiber", "server"}
    /\ TraceInit
    /\ IF running = "pipeline" THEN MipsInit ELSE Boot(<<OfR("jr", 0, 3, 0, 0)>>, init_memory)
    /\ IF running = "assembler" THEN AssemblerInit ELSE Open(<<>>)
    /\ IF running = "cache" THEN CacheInit ELSE Started(TRUE)
    /\ IF running = "blacklist" THEN BlacklistInit ELSE Empty(<<>>, [n1 |-> -1, n2 |-> -1], TRUE)
    /\ IF running = "sorts" THEN SortsInit ELSE Call("FIRST", 0 :> Product(<<1, 1>>, 0))
    /\ IF running = "fiber" THEN FiberInit ELSE Evaluate(IntE(0))
    /\ IF running = "server" THEN CaesarInit
       ELSE Listen([c \in Clients |-> [op |-> 0, shift |-> 0, texts |-> <<>>]])

RunAllocator ==
    /\ running = "allocator" /\ TraceNext
    /\ UNCHANGED <<running, mips, assembler, caching, blacklist, sorting, fiber, caesar_vars>>
RunPipeline ==
    /\ running = "pipeline" /\ Cycle
    /\ UNCHANGED <<running, tracing, assembler, caching, blacklist, sorting, fiber, caesar_vars>>
RunAssembler ==
    /\ running = "assembler" /\ AssemblerNext
    /\ UNCHANGED <<running, tracing, mips, caching, blacklist, sorting, fiber, caesar_vars>>
RunCache ==
    /\ running = "cache" /\ CacheNext
    /\ UNCHANGED <<running, tracing, mips, assembler, blacklist, sorting, fiber, caesar_vars>>
RunBlacklist ==
    /\ running = "blacklist" /\ BlacklistNext
    /\ UNCHANGED <<running, tracing, mips, assembler, caching, sorting, fiber, caesar_vars>>
RunSort ==
    /\ running = "sorts" /\ SortsNext
    /\ UNCHANGED <<running, tracing, mips, assembler, caching, blacklist, fiber, caesar_vars>>
RunFiber ==
    /\ running = "fiber" /\ FiberNext
    /\ UNCHANGED <<running, tracing, mips, assembler, caching, blacklist, sorting, caesar_vars>>
RunServer ==
    /\ running = "server" /\ CaesarNext
    /\ UNCHANGED <<running, tracing, mips, assembler, caching, blacklist, sorting, fiber>>

Next == \/ RunAllocator \/ RunPipeline \/ RunAssembler \/ RunCache \/ RunBlacklist
        \/ RunSort \/ RunFiber \/ RunServer

Spec == Init /\ [][Next]_<<running, tracing, mips, assembler, caching, blacklist, sorting, fiber, caesar_vars>>

=============================================================================
