----------------------------- MODULE ProgramCode -----------------------------
(***************************************************************************)
(* A module of the IR as the passes over whole programs see it, and what   *)
(* the program it stands for does.  A program P has                        *)
(*   funcs      the names of its functions, in the order of the module     *)
(*   args       the parameters of each function                            *)
(*   order      the blocks of each function, the entry first; <<>> is an   *)
(*              external function                                          *)
(*   code       the instructions of each block                             *)
(*   globals    the global variables, [name, base, init], init a sequence  *)
(*   erased     the calls that were taken out of their blocks, or dropped  *)
(*              with them, while their operands still have them as users,  *)
(*              <<caller, function>>; likewise users of globals            *)
(*   nest       for each block the functions it was copied from, innermost *)
(*              last                                                       *)
(*   types      the parameters of each function, [ptr, row], row the last  *)
(*              dimension of an array and 0 if it has only the first       *)
(*   multi      the functions marked for multithreading                    *)
(*   input      what getint() returns                                      *)
(* Names are unique over the program, so that a copy has new ones; the     *)
(* predecessors and the uses are what the code says.                       *)
(***************************************************************************)
EXTENDS FlowGraph, SequencesExt

LOCAL INSTANCE Bitwise

CONSTANTS WordBits,    \* bits of a word, 32
          Lanes        \* products a round of CodeGen::vv adds up, 8

V(id) == <<"value", id>>
C(n) == <<"const", n>>
G(name) == <<"global", name>>
IsConst(v) == v[1] = "const"
IsValue(v) == v[1] = "value"

Inst(id, op, ops) == [id |-> id, op |-> op, ops |-> ops, to |-> <<>>, fn |-> ""]
CallTo(id, fn, ops) == [Inst(id, "call", ops) EXCEPT !.fn = fn]
Phi(id, vals, labels) == [Inst(id, "phi", vals) EXCEPT !.to = labels]
Br(b) == [Inst("", "br", <<>>) EXCEPT !.to = <<b>>]
CondBr(c, b1, b2) == [Inst("", "br", <<c>>) EXCEPT !.to = <<b1, b2>>]
Ret(ops) == Inst("", "ret", ops)
StoreTo(id, val, ptr) == Inst(id, "store", <<val, ptr>>)

IsA(op, i) == i.op = op
With(fn, x, v) == (x :> v) @@ fn

-----------------------------------------------------------------------------
Blocks(P, f) == ToSet(P.order[f])
Functions(P) == ToSet(P.funcs)
External(P, f) == P.order[f] = <<>>
Entry(P, f) == Head(P.order[f])
Terminator(P, b) == Last(P.code[b])
Targets(P, b) == Terminator(P, b).to
FlowOf(P, f) == [b \in Blocks(P, f) |-> Targets(P, b)]
Preds(P, f, b) == SelectSeq(P.order[f], LAMBDA p : Contains(Targets(P, p), b))
InstsOf(P, f) == UNION {ToSet(P.code[b]) : b \in Blocks(P, f)}
OwnerOf(P, b) == CHOOSE f \in DOMAIN P.order : b \in Blocks(P, f)
BlockOf(P, f, id) == CHOOSE b \in Blocks(P, f) : \E i \in ToSet(P.code[b]) : i.id = id

Replace(ops, v, w) == [n \in DOMAIN ops |-> IF ops[n] = v THEN w ELSE ops[n]]

\* replaceAllUseWith, for a value of the function f.
ReplaceAllUse(P, f, v, w) ==
    [P EXCEPT !.code = [b \in DOMAIN @ |->
        IF b \in Blocks(P, f)
        THEN [n \in DOMAIN @[b] |-> [@[b][n] EXCEPT !.ops = Replace(@, v, w)]]
        ELSE @[b]]]

Used(P, f, id) == \E i \in InstsOf(P, f) : V(id) \in ToSet(i.ops)

\* The users of a function: calls in functions of the module, in functions a
\* pass has dropped from it, and calls that stand in no block any more.
Callers(P, f) == {g \in DOMAIN P.order : \E i \in InstsOf(P, g) : IsA("call", i) /\ i.fn = f}
                   \cup {e[1] : e \in {e \in P.erased : e[2] = f}}

-----------------------------------------------------------------------------
(* The machine.  A state m has the functions at work, the last called      *)
(* first, each with its block, the place in it and what its values are;    *)
(* the memory and the next free address; what was passed to and asked of   *)
(* the outside, and the result of main, once it has one.                   *)

Garbage == 77
Undefined == -99

ValueIn(P, env, v) ==
    CASE v[1] = "const" -> v[2]
      [] v[1] = "global" -> (CHOOSE k \in Range(P.globals) : k.name = v[2]).base
      [] OTHER -> IF v[2] \in DOMAIN env THEN env[v[2]] ELSE Undefined

InMemory(m, a) == IF a \in DOMAIN m THEN m[a] ELSE Garbage
Truth(b) == IF b THEN 1 ELSE 0

Quotient(a, b) == LET size == (IF a < 0 THEN -a ELSE a) \div (IF b < 0 THEN -b ELSE b)
                  IN  IF (a < 0) = (b < 0) THEN size ELSE -size

\* A word as bits, and bits as a word; a shift by a register looks at its lowest
\* byte.
Bits(x) == x % 2 ^ WordBits
Word(x) == IF Bits(x) < 2 ^ (WordBits - 1) THEN Bits(x) ELSE Bits(x) - 2 ^ WordBits
Amount(b) == LET n == b % (8 * WordBits) IN IF n < WordBits THEN n ELSE WordBits

Computed(op, a, b) ==
    CASE op \in {"add", "gep"} -> a + b
      [] op = "sub" -> a - b
      [] op = "rsub" -> b - a
      [] op = "mul" -> a * b
      [] op = "div" -> IF b = 0 THEN 0 ELSE Quotient(a, b)
      [] op = "rem" -> IF b = 0 THEN a ELSE a - b * Quotient(a, b)
      [] op = "shl" -> Word(a * 2 ^ Amount(b))
      [] op = "ashr" -> a \div 2 ^ Amount(b)
      [] op = "and" -> Word(Bits(a) & Bits(b))
      [] op = "or" -> Word(Bits(a) | Bits(b))
      [] op = "lt" -> Truth(a < b)
      [] op = "le" -> Truth(a <= b)
      [] op = "gt" -> Truth(a > b)
      [] op = "ge" -> Truth(a >= b)
      [] op = "eq" -> Truth(a = b)
      [] op = "ne" -> Truth(a # b)

Top(m) == Head(m.stack)
Ended(m) == m.stack = <<>>
WithTop(m, t) == [m EXCEPT !.stack = <<t>> \o Tail(@)]
Defines(m, id, val) == WithTop(m, [Top(m) EXCEPT !.env = With(@, id, val), !.k = @ + 1])
Passes(m) == WithTop(m, [Top(m) EXCEPT !.k = @ + 1])

Incoming(i, p) == LET pairs == {n \in DOMAIN i.to : i.to[n] = p}
                  IN  IF pairs = {} THEN C(Garbage) ELSE i.ops[CHOOSE n \in pairs : TRUE]

Jump(P, m, b) ==
    LET t == Top(m)
        phis == {i \in ToSet(P.code[b]) : IsA("phi", i)}
        PhiOf(id) == CHOOSE i \in phis : i.id = id
        after == [id \in {i.id : i \in phis} |-> ValueIn(P, t.env, Incoming(PhiOf(id), t.b))]
    IN  WithTop(m, [b |-> b, k |-> 1, env |-> after @@ t.env])

Called(P, m, f, vals) ==
    LET env == [id \in ToSet(P.args[f]) |-> vals[CHOOSE n \in DOMAIN vals : P.args[f][n] = id]]
    IN  [m EXCEPT !.stack = <<[b |-> Entry(P, f), k |-> 1, env |-> env]>> \o @]

\* An external function: what it is passed is seen, getint() answers.
Outside(P, m, i, vals) ==
    Defines([m EXCEPT !.out = Append(@, <<i.fn, vals>>)], i.id, P.input)

Returned(P, m, val) ==
    LET caller == [m EXCEPT !.stack = Tail(@)]
        t == Top(caller)
    IN  IF Ended(caller) THEN [caller EXCEPT !.val = val]
        ELSE Defines(caller, P.code[t.b][t.k].id, val)

\* An alloca has its place for as long as the function runs; setInit() has it
\* set to 0 each time it is passed.
Allocated(m, i) ==
    LET size == i.ops[1][2]
        old == i.id \in DOMAIN Top(m).env
        base == IF old THEN Top(m).env[i.id] ELSE m.next
        zeros == [a \in (base .. base + size - 1) |-> 0]
    IN  Defines([m EXCEPT !.next = IF old THEN @ ELSE @ + size,
                          !.mem = IF i.op = "allocaInit" THEN zeros @@ @ ELSE @], i.id, base)

\* CodeGen::vv: the sum of the products of two rows of n words, in rounds of
\* Lanes words, one round at the least.
RowProduct(m, p, q, n) ==
    LET rounds == IF n <= Lanes THEN 1 ELSE (n + Lanes - 1) \div Lanes
    IN  MapThenSumSet(LAMBDA k : InMemory(m, p + k) * InMemory(m, q + k), 0 .. rounds * Lanes - 1)

Stored(m, a, v) ==
    [m EXCEPT !.mem = IF a \in DOMAIN @ THEN [@ EXCEPT ![a] = v] ELSE With(@, a, v)]

Step(P, m) ==
    LET t == Top(m)
        i == P.code[t.b][t.k]
        vals == [n \in DOMAIN i.ops |-> ValueIn(P, t.env, i.ops[n])]
    IN  CASE i.op = "phi" -> Passes(m)
          [] i.op = "load" -> Defines(m, i.id, InMemory(m.mem, vals[1]))
          [] i.op = "store" -> Passes(Stored(m, vals[2], vals[1]))
          [] i.op \in {"alloca", "allocaInit"} -> Allocated(m, i)
          [] i.op = "call" /\ External(P, i.fn) -> Outside(P, m, i, vals)
          [] i.op = "call" /\ ~External(P, i.fn) -> Called(P, m, i.fn, vals)
          [] i.op = "ret" -> Returned(P, m, IF vals = <<>> THEN 0 ELSE vals[1])
          [] i.op = "not" -> Defines(m, i.id, -1 - vals[1])
          [] i.op = "gep" /\ Len(vals) = 3 -> Defines(m, i.id, vals[1] + vals[2] * vals[3])
          [] i.op = "vv" -> Defines(m, i.id, RowProduct(m.mem, vals[1], vals[2], vals[3]))
          [] i.op = "br" -> Jump(P, m, IF Len(i.to) = 1 \/ vals[1] # 0 THEN i.to[1] ELSE i.to[2])
          [] OTHER -> Defines(m, i.id, Computed(i.op, vals[1], vals[2]))

\* 2 ^ n steps, or as many as there are.
RECURSIVE Steps(_, _, _)
Steps(P, m, n) ==
    IF Ended(m) THEN m
    ELSE IF n = 0 THEN Step(P, m)
    ELSE LET half == Steps(P, m, n - 1) IN Steps(P, half, n - 1)

CONSTANT Patience     \* a program that takes 2 ^ Patience steps is said to spin

GlobalMemory(P) ==
    LET at(k, a) == a - k.base + 1
    IN  [a \in UNION {k.base .. k.base + Len(k.init) - 1 : k \in Range(P.globals)} |->
           LET k == CHOOSE k \in Range(P.globals) : at(k, a) \in DOMAIN k.init
           IN  k.init[at(k, a)]]

Started(P) ==
    Called(P, [stack |-> <<>>, mem |-> GlobalMemory(P), next |-> 1000, out |-> <<>>, val |-> 0],
           "main", <<>>)

\* What is seen of the program from outside.
Outcome(P) ==
    LET end == Steps(P, Started(P), Patience)
    IN  IF Ended(end) THEN <<end.out, end.val>> ELSE <<"spins">>

-----------------------------------------------------------------------------
\* IRCheck::CheckOperandExit, for the operand 0 of a call.
CallsExist(P) ==
    \A f \in Functions(P) : \A i \in InstsOf(P, f) : IsA("call", i) => i.fn \in Functions(P)

\* What code in SSA form means to its readers, beyond what IRCheck looks at:
\* a phi has a pair for each predecessor, and a value is there where it is used.
PhisFollowEdges(P, f) ==
    \A b \in Blocks(P, f) : \A i \in ToSet(P.code[b]) :
      IsA("phi", i) => ToSet(i.to) = ToSet(Preds(P, f, b)) /\ IsInjective(i.to)

AvailableAt(P, f, id, b, k) ==
    \/ Contains(P.args[f], id)
    \/ \E n \in 1 .. k - 1 : P.code[b][n].id = id
    \/ \E d \in Blocks(P, f) \ {b} :
         /\ \E i \in ToSet(P.code[d]) : i.id = id
         /\ DominatesIn(FlowOf(P, f), Entry(P, f), d, b)

ValuesAvailable(P, f) ==
    \A b \in Blocks(P, f) : \A k \in DOMAIN P.code[b] :
      LET i == P.code[b][k] IN
      \A n \in DOMAIN i.ops :
        IsValue(i.ops[n]) =>
          IF IsA("phi", i)
          THEN AvailableAt(P, f, i.ops[n][2], i.to[n], Len(P.code[i.to[n]]) + 1)
          ELSE AvailableAt(P, f, i.ops[n][2], b, k)
=============================================================================
