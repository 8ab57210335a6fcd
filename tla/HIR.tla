--------------------------------- MODULE HIR ---------------------------------
(***************************************************************************)
(* A program in the high-level IR, a tree of base blocks, and what it      *)
(* does.  A program P has                                                  *)
(*   ins      all its instructions, in the order they were created:        *)
(*            [op, ops, ty, at, init], at the block getParent() gives      *)
(*   blk      all its base blocks: [kind, code, father], father 0 if none  *)
(*   lists    the lists of base blocks: of function f <<"fn", f>>, of the  *)
(*            condition <<"cond", b>>, the body <<"body", b>> and the else *)
(*            branch <<"else", b>> of block b                              *)
(*   fns      its functions, in order, and sig their types, [args, ret]    *)
(*   globals  its global variables: [dims, init], init one value per word  *)
(* Instructions and blocks keep their numbers when they are moved or left  *)
(* out.                                                                    *)
(***************************************************************************)
EXTENDS Integers, SequencesExt

LOCAL INSTANCE Bitwise

CONSTANT Patience     \* rounds of loops and calls an execution is followed for

I32 == <<"int">>
I1 == <<"bool">>
VoidTy == <<"void">>
Ptr(dims) == <<"ptr", dims>>     \* to an int, or to an array
PtrPtr == <<"ptr ptr">>          \* to what a parameter that is an array holds

Const(n) == <<"const", n>>
Ins(i) == <<"ins", i>>
Global(x) == <<"global", x>>
Fn(f) == <<"fn", f>>
Arg(n, ty) == <<"arg", n, ty>>
Null == <<"null">>

IsConst(v) == v[1] = "const"
IsIns(v) == v[1] = "ins"

NoProgram == [ins |-> <<>>, blk |-> <<>>, lists |-> <<>>, fns |-> <<>>, sig |-> <<>>,
              globals |-> <<>>]

With(fn, x, y) == (x :> y) @@ fn

-----------------------------------------------------------------------------
Inst(P, v) == P.ins[v[2]]
IsOp(P, op, v) == IsIns(v) /\ Inst(P, v).op = op

TypeOf(P, v) == CASE IsIns(v) -> Inst(P, v).ty
                  [] v[1] = "global" -> Ptr(P.globals[v[2]].dims)
                  [] v[1] = "arg" -> v[3]
                  [] IsConst(v) -> I32
                  [] OTHER -> VoidTy

IsPointer(P, v) == TypeOf(P, v)[1] \in {"ptr", "ptr ptr"}

Words(dims) == FoldLeft(LAMBDA x, y : x * y, 1, dims)

ListsOf(P, b) == CASE P.blk[b].kind = "basic" -> <<>>
                   [] P.blk[b].kind = "while" -> << <<"cond", b>>, <<"body", b>> >>
                   [] OTHER -> << <<"cond", b>>, <<"body", b>>, <<"else", b>> >>

\* The basic blocks of a list, those inside of its blocks included, in order.
RECURSIVE BasicsIn(_, _)
BasicsIn(P, list) ==
    FlattenSeq([n \in DOMAIN list |->
      IF P.blk[list[n]].kind = "basic" THEN <<list[n]>>
      ELSE FlattenSeq([m \in DOMAIN ListsOf(P, list[n]) |->
                         BasicsIn(P, P.lists[ListsOf(P, list[n])[m]])])])

BasicBlocks(P) ==
    FlattenSeq([n \in DOMAIN P.fns |-> BasicsIn(P, P.lists[<<"fn", P.fns[n]>>])])

\* What an address is an address in: a variable, an argument.
RECURSIVE RootOf(_, _)
RootOf(P, v) == IF IsOp(P, "gep", v) \/ IsOp(P, "load", v) THEN RootOf(P, Inst(P, v).ops[1])
                ELSE v

-----------------------------------------------------------------------------
(* What a program does.  A pointer is a place, <<base, offset>>; a place   *)
(* that was never written reads as 0; a division by zero gives 0, as on    *)
(* the processor.                                                          *)

Magnitude(n) == IF n < 0 THEN -n ELSE n
Quotient(a, b) == IF b = 0 THEN 0
                  ELSE LET q == Magnitude(a) \div Magnitude(b)
                       IN  IF (a < 0) = (b < 0) THEN q ELSE -q
Truth(cond) == IF cond THEN 1 ELSE 0

Computed(op, a, b) ==
    CASE op = "add" -> a + b [] op = "sub" -> a - b [] op = "mul" -> a * b
      [] op = "div" -> Quotient(a, b) [] op = "rem" -> a - b * Quotient(a, b)
      [] op = "lt" -> Truth(a < b) [] op = "le" -> Truth(a <= b)
      [] op = "gt" -> Truth(a > b) [] op = "ge" -> Truth(a >= b)
      [] op = "eq" -> Truth(a = b) [] op = "ne" -> Truth(a # b)
      [] op = "and" -> a & b [] op = "or" -> a | b

Compares == {"lt", "le", "gt", "ge", "eq", "ne"}

\* s: memory, the values and arguments of the activation, output, input, the
\* value returned, and "run", or how the code is left: "lost" when an operand
\* has no value, "long" when patience ends.
Begin(mem, input) ==
    [mem |-> mem, env |-> <<>>, args |-> <<>>, out |-> <<>>, inp |-> input, val |-> 0,
     mode |-> "run", rounds |-> Patience, depth |-> 0]

ReadFrom(mem, place) == IF place \in DOMAIN mem THEN mem[place] ELSE 0
Cleared(base, dims) == [p \in {<<base, k>> : k \in 0 .. Words(dims) - 1} |-> 0]

Operand(s, v) == CASE IsConst(v) -> v[2] [] IsIns(v) -> s.env[v[2]]
                   [] v[1] = "arg" -> s.args[v[2]]
                   [] OTHER -> << <<"global", v[2], 0>>, 0>>

\* The functions of the runtime library that programs call here.
Runtime == [getint |-> [args |-> <<>>, ret |-> I32], putint |-> [args |-> <<I32>>, ret |-> VoidTy]]

Outside(f, args, s) ==
    CASE f = "putint" -> [s EXCEPT !.out = Append(@, args[1])]
      [] f = "getint" -> IF s.inp = <<>> THEN [s EXCEPT !.val = 0]
                         ELSE [s EXCEPT !.val = Head(s.inp), !.inp = Tail(@)]

RECURSIVE RunList(_, _, _)

CallTo(P, f, args, s) ==
    IF f \in DOMAIN Runtime THEN Outside(f, args, s)
    ELSE LET t == RunList(P, P.lists[<<"fn", f>>],
                          [s EXCEPT !.env = <<>>, !.args = args, !.depth = @ + 1, !.val = 0,
                                    !.rounds = @ - 1, !.mode = IF @ = "run" /\ s.rounds = 0
                                                               THEN "long" ELSE @])
         IN  [t EXCEPT !.env = s.env, !.args = s.args, !.depth = s.depth,
                       !.mode = IF @ = "ret" THEN "run" ELSE @]

Step(P, i, s) ==
    LET x == P.ins[i]
        v == [n \in DOMAIN x.ops |-> IF x.ops[n][1] = "fn" THEN 0 ELSE Operand(s, x.ops[n])]
        Set(val) == [s EXCEPT !.env = With(@, i, val)]
        local == <<"local", i, s.depth>>
    IN  CASE s.mode # "run" -> s
          [] \E n \in DOMAIN x.ops : IsIns(x.ops[n]) /\ x.ops[n][2] \notin DOMAIN s.env ->
               [s EXCEPT !.mode = "lost"]
          [] x.op = "alloca" -> [Set(<<local, 0>>) EXCEPT
                                  !.mem = IF x.init THEN Cleared(local, x.ty[2]) @@ @ ELSE @]
          [] x.op = "load" -> Set(ReadFrom(s.mem, v[1]))
          [] x.op = "store" -> [s EXCEPT !.mem = With(@, v[2], v[1])]
          [] x.op = "gep" -> Set(<<v[1][1], v[1][2] + v[2] * Words(x.ty[2])>>)
          [] x.op = "zext" -> Set(v[1])
          [] x.op = "call" -> LET t == CallTo(P, x.ops[1][2], Tail(v), s)
                              IN  [t EXCEPT !.env = With(@, i, t.val)]
          [] x.op = "ret" -> [s EXCEPT !.mode = "ret", !.val = IF v = <<>> THEN 0 ELSE v[1]]
          [] x.op \in {"break", "continue"} -> [s EXCEPT !.mode = x.op]
          [] OTHER -> Set(Computed(x.op, v[1], v[2]))

\* The last instruction of the last block of a condition is its value.
Holds(P, b, s) == s.env[Last(P.blk[Last(P.lists[<<"cond", b>>])].code)] # 0

RECURSIVE RunWhile(_, _, _)
RunWhile(P, b, s) ==
    LET c == RunList(P, P.lists[<<"cond", b>>], [s EXCEPT !.rounds = @ - 1])
    IN  CASE s.rounds = 0 -> [s EXCEPT !.mode = "long"]
          [] s.rounds > 0 /\ c.mode # "run" -> c
          [] OTHER -> IF ~Holds(P, b, c) THEN c
                      ELSE LET t == RunList(P, P.lists[<<"body", b>>], c)
                           IN  CASE t.mode = "break" -> [t EXCEPT !.mode = "run"]
                                 [] t.mode \in {"run", "continue"} ->
                                      RunWhile(P, b, [t EXCEPT !.mode = "run"])
                                 [] OTHER -> t

RunIf(P, b, s) ==
    LET c == RunList(P, P.lists[<<"cond", b>>], s)
    IN  IF c.mode # "run" THEN c
        ELSE RunList(P, P.lists[IF Holds(P, b, c) THEN <<"body", b>> ELSE <<"else", b>>], c)

RunList(P, list, s) ==
    FoldLeft(LAMBDA t, b : IF t.mode # "run" THEN t
                           ELSE CASE P.blk[b].kind = "while" -> RunWhile(P, b, t)
                                  [] P.blk[b].kind = "if" -> RunIf(P, b, t)
                                  [] OTHER -> FoldLeft(LAMBDA u, i : Step(P, i, u), t, P.blk[b].code),
             s, list)

GlobalMemory(globals) ==
    LET places == UNION {{<<x, k>> : k \in 1 .. Len(globals[x].init)} : x \in DOMAIN globals}
    IN  [p \in {<< <<"global", q[1], 0>>, q[2] - 1>> : q \in places} |->
           globals[p[1][2]].init[p[2] + 1]]

\* What can be seen of a run.
Outcome(s) == [out |-> s.out, val |-> s.val, mode |-> s.mode]

Meaning(P, input) == Outcome(CallTo(P, "main", <<>>, Begin(GlobalMemory(P.globals), input)))
=============================================================================
