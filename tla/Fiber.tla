-------------------------------- MODULE Fiber --------------------------------
(***************************************************************************)
(* The interpreters of CS320: xFiber's, whose continuations are functions  *)
(* in the code and sequences of frames here, a call at a time; and next to *)
(* it Fiber's, which has no continuations and no exceptions, with the      *)
(* meaning that these have when nothing returns to where it has left.      *)
(***************************************************************************)
EXTENDS Integers, Sequences, TLC

CONSTANTS Expressions

VARIABLES expression, machine
fiber == <<expression, machine>>

IntV(n) == [v |-> "int", n |-> n]
BooleanV(b) == [v |-> "boolean", b |-> b]
NilV == [v |-> "nil"]
CloV(parameters, body, env, funs) ==
    [v |-> "clo", parameters |-> parameters, body |-> body, env |-> env, funs |-> funs]
Error == [v |-> "error"]

Binaries == {"Add", "Mul", "Div", "Mod", "Eq", "Lt", "ConsE"}
Unaries == {"Proj", "Empty", "Head", "Tail", "Test"}

\* What is evaluated first, in this order.
Operands(e) ==
    CASE e.e \in Binaries -> <<e.left, e.right>>
      [] e.e \in Unaries \cup {"If", "Val", "Throw"} -> <<e.expr>>
      [] e.e = "TupleE" -> e.exprs
      [] e.e = "App" -> <<e.expr>> \o e.exprs
      [] OTHER -> <<>>

\* The division of BigInt rounds towards 0.
Quotient(x, y) ==
    LET abs(a) == IF a < 0 THEN -a ELSE a
    IN  IF (x < 0) = (y < 0) THEN abs(x) \div abs(y) ELSE -(abs(x) \div abs(y))

BinaryOp(op, l, r) ==
    IF op = "ConsE" THEN IF r.v \in {"nil", "cons"} THEN [v |-> "cons", head |-> l, tail |-> r] ELSE Error
    ELSE IF l.v # "int" \/ r.v # "int" \/ (op \in {"Div", "Mod"} /\ r.n = 0) THEN Error
    ELSE CASE op = "Add" -> IntV(l.n + r.n)
           [] op = "Mul" -> IntV(l.n * r.n)
           [] op = "Div" -> IntV(Quotient(l.n, r.n))
           [] op = "Mod" -> IntV(l.n - r.n * Quotient(l.n, r.n))
           [] op = "Eq"  -> BooleanV(l.n = r.n)
           [] op = "Lt"  -> BooleanV(l.n < r.n)

TypeName == [int |-> "IntT", boolean |-> "BooleanT", tuple |-> "TupleT", nil |-> "ListT",
             cons |-> "ListT", clo |-> "FunctionT", cont |-> "FunctionT", exit |-> "FunctionT"]

UnaryOp(e, x) ==
    CASE e.e = "Proj" -> IF x.v = "tuple" /\ e.index <= Len(x.values) THEN x.values[e.index] ELSE Error
      [] e.e = "Empty" -> IF x.v \in {"nil", "cons"} THEN BooleanV(x.v = "nil") ELSE Error
      [] e.e = "Head" -> IF x.v = "cons" THEN x.head ELSE Error
      [] e.e = "Tail" -> IF x.v = "cons" THEN x.tail ELSE Error
      [] e.e = "Test" -> BooleanV(TypeName[x.v] = e.typ)

\* RecFuns: env with the functions, each of which sees all of them.
Tied(env, funs) ==
    [x \in {funs[i].name : i \in DOMAIN funs} |->
        LET f == CHOOSE f \in {funs[i] : i \in DOMAIN funs} : f.name = x
        IN  CloV(f.parameters, f.body, env, funs)] @@ env

Bound(clo, args) ==
    [x \in {clo.parameters[i] : i \in DOMAIN args} |->
        args[CHOOSE i \in DOMAIN args : clo.parameters[i] = x]] @@ Tied(clo.env, clo.funs)

\* The value of an expression without operands that is evaluated at once.
Atom(e, env) ==
    CASE e.e = "Id" -> IF e.name \in DOMAIN env THEN env[e.name] ELSE Error
      [] e.e = "IntE" -> IntV(e.n)
      [] e.e = "BooleanE" -> BooleanV(e.b)
      [] e.e = "NilE" -> NilV
      [] e.e = "Fun" -> CloV(e.parameters, e.body, env, <<>>)

Atoms == {"Id", "IntE", "BooleanE", "NilE", "Fun"}

-----------------------------------------------------------------------------
(* Fiber, in direct style.  at is the place of the call among all calls: a *)
(* vcc that is still being evaluated is known by it, and its continuation  *)
(* called within it ends it.  thrown and exits pass up like error.         *)

Abrupt(x) == x.v \in {"error", "thrown", "exits"}

RECURSIVE interp(_, _, _)
Applied(f, args, at) ==
    CASE f.v = "clo" /\ Len(f.parameters) = Len(args) -> interp(f.body, Bound(f, args), at)
      [] f.v = "exit" /\ Len(args) = 1 -> [v |-> "exits", at |-> f.at, value |-> args[1]]
      [] OTHER -> Error

interp(e, env, at) ==
    LET go(x, n) == interp(x, env, Append(at, n))
        vs == [i \in DOMAIN Operands(e) |-> go(Operands(e)[i], i)]
        bad == {i \in DOMAIN vs : Abrupt(vs[i])}
        first == go(e.expr, 1)
    IN  IF bad # {} THEN vs[CHOOSE i \in bad : \A j \in bad : i <= j]
        ELSE CASE e.e \in Atoms -> Atom(e, env)
               [] e.e \in Binaries -> BinaryOp(e.e, vs[1], vs[2])
               [] e.e \in Unaries -> UnaryOp(e, vs[1])
               [] e.e = "If" -> IF vs[1].v # "boolean" THEN Error
                                ELSE IF vs[1].b THEN go(e.then, 2) ELSE go(e.else, 2)
               [] e.e = "TupleE" -> [v |-> "tuple", values |-> vs]
               [] e.e = "Val" -> interp(e.body, (e.name :> vs[1]) @@ env, Append(at, 2))
               [] e.e = "RecFuns" -> interp(e.body, Tied(env, e.funs), Append(at, 1))
               [] e.e = "App" -> Applied(vs[1], Tail(vs), Append(at, 0))
               [] e.e = "Throw" -> [v |-> "thrown", value |-> vs[1]]
               [] e.e = "Try" ->
                     IF first.v # "thrown" THEN first
                     ELSE LET handler == go(e.handler, 2)
                          IN  IF Abrupt(handler) THEN handler
                              ELSE Applied(handler, <<first.value>>, Append(at, 0))
               [] e.e = "Vcc" ->
                     LET r == interp(e.body, (e.name :> [v |-> "exit", at |-> at]) @@ env, Append(at, 1))
                     IN  IF r.v = "exits" /\ r.at = at THEN r.value ELSE r

-----------------------------------------------------------------------------
(* xFiber.  A frame is the rest of the evaluation of an expression: the    *)
(* values of its operands so far, its environment and its handlers.  A     *)
(* handler keeps the frames it was registered in; the next one is outside. *)

Eval(e, env, h, k) == [does |-> "eval", expr |-> e, env |-> env, h |-> h, k |-> k]
Return(value, k) == IF value = Error THEN [does |-> "end", value |-> Error]
                    ELSE [does |-> "return", value |-> value, k |-> k]
Frame(e, env, h, done) == [of |-> e, env |-> env, h |-> h, done |-> done]

\* A bug: a called continuation returns to its caller.
FaultyApply(f, args, h, k) ==
    CASE f.v = "clo" /\ Len(f.parameters) = Len(args) -> Eval(f.body, Bound(f, args), h, k)
      [] f.v = "cont" /\ Len(args) = 1 -> Return(args[1], k)
      [] OTHER -> Return(Error, k)

Apply(f, args, h, k) ==
    CASE f.v = "clo" /\ Len(f.parameters) = Len(args) -> Eval(f.body, Bound(f, args), h, k)
      [] f.v = "cont" /\ Len(args) = 1 -> Return(args[1], f.k)
      [] OTHER -> Return(Error, k)

\* When the operands of e have the values vs.
Then(e, vs, env, h, k) ==
    CASE e.e \in Atoms -> Return(Atom(e, env), k)
      [] e.e \in Binaries -> Return(BinaryOp(e.e, vs[1], vs[2]), k)
      [] e.e \in Unaries -> Return(UnaryOp(e, vs[1]), k)
      [] e.e = "If" -> IF vs[1].v # "boolean" THEN Return(Error, k)
                       ELSE Eval(IF vs[1].b THEN e.then ELSE e.else, env, h, k)
      [] e.e = "TupleE" -> Return([v |-> "tuple", values |-> vs], k)
      [] e.e = "Val" -> Eval(e.body, (e.name :> vs[1]) @@ env, h, k)
      [] e.e = "Vcc" -> Eval(e.body, (e.name :> [v |-> "cont", k |-> k]) @@ env, h, k)
      [] e.e = "RecFuns" -> Eval(e.body, Tied(env, e.funs), h, k)
      [] e.e = "App" -> Apply(vs[1], Tail(vs), h, k)
      [] e.e = "Throw" -> IF h = <<>> THEN Return(Error, k)
                          ELSE Eval(Head(h).expr, Head(h).env, Tail(h),
                                    <<Frame([e |-> "Catch"], env, Tail(h), vs)>> \o Head(h).k)
      [] e.e = "Catch" -> Apply(vs[2], <<vs[1]>>, h, k)
      [] e.e = "Try" -> Eval(e.expr, env, <<[expr |-> e.handler, env |-> env, k |-> k]>> \o h, k)

\* The next operand, or what follows the last one.
Continue(e, vs, env, h, k) ==
    IF Len(vs) < Len(Operands(e))
    THEN Eval(Operands(e)[Len(vs) + 1], env, h, <<Frame(e, env, h, vs)>> \o k)
    ELSE Then(e, vs, env, h, k)

Evaluate(e) ==
    /\ expression = e
    /\ machine = Eval(e, <<>>, <<>>, <<>>)

FiberInit == \E e \in Expressions : Evaluate(e)

Interp == /\ machine.does = "eval"
          /\ machine' = Continue(machine.expr, <<>>, machine.env, machine.h, machine.k)
          /\ UNCHANGED expression

CallContinuation ==
    /\ machine.does = "return"
    /\ IF machine.k = <<>> THEN machine' = [does |-> "end", value |-> machine.value]
       ELSE LET f == Head(machine.k)
            IN  machine' = Continue(f.of, Append(f.done, machine.value), f.env, f.h, Tail(machine.k))
    /\ UNCHANGED expression

FiberNext == Interp \/ CallContinuation
FiberSpec == FiberInit /\ [][FiberNext]_fiber

-----------------------------------------------------------------------------
\* Functions and continuations are shown alike.
RECURSIVE show(_)
show(x) ==
    CASE x.v = "tuple" -> [x EXCEPT !.values = [i \in DOMAIN @ |-> show(@[i])]]
      [] x.v = "cons" -> [x EXCEPT !.head = show(@), !.tail = show(@)]
      [] x.v \in {"clo", "cont", "exit"} -> [v |-> "function"]
      [] x.v = "thrown" -> Error
      [] OTHER -> x

\* xFiber shows what Fiber does, an exception that nobody catches being an
\* error: although its handlers and continuations are values that travel
\* through environments and frames, each is used with the frames and the
\* handlers of the place it was made at.  A continuation called after its
\* vcc has ended, which only frames can express, is not judged.
Agrees == machine.does = "end" =>
    \E r \in {interp(expression, <<>>, <<>>)} : r.v = "exits" \/ show(machine.value) = show(r)

=============================================================================
