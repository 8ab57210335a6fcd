-------------------------- MODULE StructuredBlocks --------------------------
(***************************************************************************)
(* From the statements of a function to its flow graph.  SYSYCBuilder puts *)
(* the statements in a tree of base blocks, HighIRsimplyCFG merges basic   *)
(* blocks that stand side by side in it, and HIRToMIR flattens the tree    *)
(* into basic blocks that branch to each other.                            *)
(*                                                                         *)
(* A statement has a number of its own, which its block and its            *)
(* instruction bear too.  Those in statement n are numbered from 10 * n,   *)
(* those of its else branch from 10 * n + 5.                               *)
(***************************************************************************)
EXTENDS IRFunction

Simple(op, n) == [op |-> op, id |-> n]
If(n, cond, then, else) == [op |-> "if", id |-> n, cond |-> cond, then |-> then, else |-> else]
While(n, cond, body) == [op |-> "while", id |-> n, cond |-> cond, then |-> body, else |-> <<>>]

EntryBlock == 9     \* holds the parameter
LastBlock == 8      \* the block HIRToMIR adds when the function ends in a statement
NoBlock == 0        \* nullptr

Basic(b) == [kind |-> "basic", bb |-> b]
Nested(stmt, then, else) == [kind |-> stmt.op, bb |-> stmt.id, then |-> then, else |-> else]

-----------------------------------------------------------------------------
(* SYSYCBuilder *)

InstOf(op) == CASE op = "act" -> "act" [] op = "zero" -> "set"
                [] op = "return" -> "ret" [] OTHER -> op

OperandsOf(op) == IF op = "zero" THEN <<ConstInt(0)>> ELSE <<>>

\* A condition is "x", or a number as it is written.
Number(cond) == ConstInt(IF cond = "0" THEN 0 ELSE 1)
CondOperands(cond) == IF cond = "x" THEN <<>> ELSE <<Number(cond)>>

\* visit(SyntaxBlock): a simple statement gets a block of its own, except that
\* at the top it goes on in the current block, if that is not within another.
BuildSimple(acc, stmt, top) ==
    LET joins == top /\ acc.blocks # <<>> /\ Last(acc.blocks).kind = "basic"
        b == IF joins THEN Last(acc.blocks).bb ELSE stmt.id
    IN  [f |-> AddInst(IF joins THEN acc.f ELSE CreateBlock(acc.f, b),
                       b, Inst(InstOf(stmt.op), stmt.id), OperandsOf(stmt.op)),
         blocks |-> IF joins THEN acc.blocks ELSE Append(acc.blocks, Basic(b))]

RECURSIVE Build(_, _)

\* visit(SyntaxSelectStmt) and visit(SyntaxIterationStmt)
BuildNested(acc, stmt) ==
    LET cond == AddInst(CreateBlock(acc.f, stmt.id), stmt.id,
                        Inst("cmp", stmt.id), CondOperands(stmt.cond))
        then == Build([f |-> cond, blocks |-> <<>>], stmt.then)
        else == Build([f |-> then.f, blocks |-> <<>>], stmt.else)
    IN  [f |-> else.f,
         blocks |-> Append(acc.blocks, Nested(stmt, then.blocks, else.blocks))]

Build(start, stmts) ==
    FoldLeft(LAMBDA acc, stmt : IF stmt.op \in {"if", "while"}
                                THEN BuildNested(acc, stmt)
                                ELSE BuildSimple(acc, stmt, stmt.id < 10),
             start, stmts)

\* visit(SyntaxFuncDef)
BuildFunction(stmts) ==
    Build([f |-> AddInst(CreateBlock(NoFunction, EntryBlock), EntryBlock,
                         Inst("set", EntryBlock), <<Arg>>),
           blocks |-> <<Basic(EntryBlock)>>],
          stmts)

-----------------------------------------------------------------------------
(* HighIRsimplyCFG *)

RECURSIVE MergeBasicBlocks(_, _)

MergeInto(acc, base) ==
    IF base.kind # "basic"
    THEN LET then == MergeBasicBlocks(acc.f, base.then)
             else == MergeBasicBlocks(then.f, base.else)
         IN  [f |-> else.f,
              blocks |-> Append(acc.blocks,
                                [base EXCEPT !.then = then.blocks, !.else = else.blocks])]
    ELSE IF acc.blocks # <<>> /\ Last(acc.blocks).kind = "basic"
    THEN [acc EXCEPT !.f = FoldLeft(LAMBDA g, i : AddInstruction(g, Last(acc.blocks).bb, i),
                                    acc.f, acc.f.insts[base.bb])]
    ELSE [acc EXCEPT !.blocks = Append(@, base)]

MergeBasicBlocks(f, blocks) == FoldLeft(MergeInto, [f |-> f, blocks |-> <<>>], blocks)

-----------------------------------------------------------------------------
(* HIRToMIR *)

PushFront(f, b) == [f EXCEPT !.order = <<b>> \o @]

CreateReturn(f, b) == AddInst(f, b, Inst("ret", b), <<ConstInt(0)>>)

GenBasicBlock(f, b, next, while_entry, while_exit) ==
    LET inst == Last(f.insts[b])
        jumps == IsA("break", inst) \/ IsA("continue", inst)
        target == IF IsA("break", inst) THEN while_exit
                  ELSE IF IsA("continue", inst) THEN while_entry ELSE next
    IN  IF ~IsA("none", Terminator(f, b)) THEN f
        ELSE IF next = NoBlock /\ f.order = <<>> THEN CreateReturn(f, b)
        ELSE CreateBr(IF jumps THEN DeleteInstr(f, b, inst) ELSE f, b, target)

\* The block that follows a statement, added when there is none.
WithNext(f, next) ==
    IF next # NoBlock
    THEN f
    ELSE CreateReturn([CreateBlock(f, LastBlock) EXCEPT !.order = Append(@, LastBlock)], LastBlock)

NextOr(next) == IF next # NoBlock THEN next ELSE LastBlock

\* genBaseBlock: the graph with the block added, and the basic block it starts with.
RECURSIVE GenBaseBlock(_, _, _, _, _)

GenList(f, blocks, next, while_entry, while_exit) ==
    FoldRight(LAMBDA base, acc : GenBaseBlock(acc.f, base, acc.bb, while_entry, while_exit),
              blocks, [f |-> f, bb |-> next])

GenIf(f, base, next, while_entry, while_exit) ==
    LET after == NextOr(next)
        else == GenList(WithNext(f, next), base.else, after, while_entry, while_exit)
        then == GenList(else.f, base.then, after, while_entry, while_exit)
    IN  CreateCondBr(then.f, base.bb, Last(then.f.insts[base.bb]), then.bb, else.bb)

GenWhile(f, base, next) ==
    LET after == NextOr(next)
        body == GenList(WithNext(f, next), base.then, base.bb, base.bb, after)
    IN  CreateCondBr(body.f, base.bb, Last(body.f.insts[base.bb]), body.bb, after)

GenBaseBlock(f, base, next, while_entry, while_exit) ==
    LET g == CASE base.kind = "basic" -> GenBasicBlock(f, base.bb, next, while_entry, while_exit)
               [] base.kind = "if" -> GenIf(f, base, next, while_entry, while_exit)
               [] OTHER -> GenWhile(f, base, next)
    IN  [f |-> PushFront(g, base.bb), bb |-> base.bb]

Lower(f, blocks) == GenList(f, blocks, NoBlock, NoBlock, NoBlock).f

-----------------------------------------------------------------------------
(***************************************************************************)
(* What a function does: its statements executed as the language has it,   *)
(* and its flow graph executed by a machine.  An execution is the list of  *)
(* the calls, the comparisons that are not settled, and the return, each   *)
(* with the value of the variable it sees.  A value other than a constant  *)
(* is named by the event that made it, so that an old one is told from a   *)
(* new one; the outcomes of comparisons are given.                         *)
(***************************************************************************)
CONSTANTS Horizon,     \* the number of events that are looked at
          Patience     \* jumps without an event after which an execution spins

Event(kind, n, v) == <<kind, n, v>>
Returned(v) == Event("ret", 0, v)
Spins == Event("spins", 0, Arg)
Unknown == Event("unknown", 0, Arg)    \* no more outcomes are given
Falls == Event("falls", 0, Arg)        \* there is no instruction left in the block
Made(events) == <<"event", Len(events) + 1>>

IsConst(v) == IsA("const", v)
Truth(v) == v # ConstInt(0)

-----------------------------------------------------------------------------
(* Statements.  todo is what is left to do; the statement "again" stands   *)
(* for the end of the body of a loop.                                      *)

Again(stmt) == [stmt EXCEPT !.op = "again"]

\* What is left after a break, that is behind the innermost loop, and at its test.
AfterLoop(todo) ==
    LET n == SelectInSeq(todo, LAMBDA s : s.op = "again")
    IN  SubSeq(todo, n + 1, Len(todo))
AtTest(todo) ==
    LET n == SelectInSeq(todo, LAMBDA s : s.op = "again")
    IN  SubSeq(todo, n, Len(todo))

RECURSIVE Continue(_, _, _, _, _)

Branches(stmt, rest, taken) ==
    CASE stmt.op = "if" -> (IF taken THEN stmt.then ELSE stmt.else) \o rest
      [] OTHER -> IF taken THEN stmt.then \o <<Again(stmt)>> \o rest ELSE rest

\* A test of x, which a constant settles.
Test(stmt, rest, x, events, outcomes, left) ==
    LET v == IF stmt.cond = "x" THEN x ELSE Number(stmt.cond)
    IN  IF IsConst(v) THEN Continue(Branches(stmt, rest, Truth(v)), x, events, outcomes, left - 1)
        ELSE IF outcomes = <<>> THEN Append(events, Unknown)
        ELSE Continue(Branches(stmt, rest, Head(outcomes)), x,
                      Append(events, Event("cmp", stmt.id, v)), Tail(outcomes), Patience)

Continue(todo, x, events, outcomes, left) ==
    IF Len(events) = Horizon THEN events
    ELSE IF left = 0 THEN Append(events, Spins)
    ELSE IF todo = <<>> THEN Append(events, Returned(ConstInt(0)))
    ELSE LET s == Head(todo)
             rest == Tail(todo)
         IN  CASE s.op = "act" -> Continue(rest, Made(events),
                                           Append(events, Event("act", s.id, x)), outcomes, Patience)
               [] s.op = "zero" -> Continue(rest, ConstInt(0), events, outcomes, left)
               [] s.op = "return" -> Append(events, Returned(x))
               [] s.op = "break" -> Continue(AfterLoop(rest), x, events, outcomes, left)
               [] s.op = "continue" -> Continue(AtTest(rest), x, events, outcomes, left)
               [] OTHER -> Test([s EXCEPT !.op = IF @ = "again" THEN "while" ELSE @],
                                rest, x, events, outcomes, left)

Execution(stmts, outcomes) == Continue(stmts, Arg, <<>>, outcomes, Patience)

-----------------------------------------------------------------------------
(* The flow graph.  env is what the instructions have for values, x what   *)
(* the variable has in memory.                                             *)

Undefined == <<"undefined", 0>>

ValueIn(env, v) == IF v[1] \in {"const", "arg"} THEN v
                   ELSE IF v \in DOMAIN env THEN env[v] ELSE Undefined

Reads(f, i, env, x) == IF f.ops[i] = <<>> THEN x ELSE ValueIn(env, f.ops[i][1])

\* The operand of a phi for the edge from p.
Incoming(f, phi, p) ==
    LET pairs == {n \in DOMAIN f.ops[phi] : n % 2 = 0 /\ f.ops[phi][n] = BB(p)}
    IN  IF pairs = {} THEN Undefined ELSE f.ops[phi][(CHOOSE n \in pairs : TRUE) - 1]

RECURSIVE Machine(_, _, _, _, _, _, _, _)

Enter(f, p, b, env, x, events, outcomes, left) ==
    IF left = 0 THEN Append(events, Spins)
    ELSE LET phis == {i \in ToSet(f.insts[b]) : IsPhi(i)}
             after == [i \in DOMAIN env \cup phis |->
                         IF i \in phis THEN ValueIn(env, Incoming(f, i, p)) ELSE env[i]]
         IN  Machine(f, b, 1, after, x, events, outcomes, left - 1)

Jump(f, b, br, env, x, events, outcomes, left) ==
    LET target == IF IsUncondBr(f, br) THEN f.ops[br][1]
                  ELSE f.ops[br][IF Truth(ValueIn(env, f.ops[br][1])) THEN 2 ELSE 3]
    IN  Enter(f, b, target[2], env, x, events, outcomes, left)

Compare(f, b, n, env, x, events, outcomes, left) ==
    LET i == f.insts[b][n]
        v == Reads(f, i, env, x)
        Result(truth) == With(env, i, ConstInt(IF truth THEN 1 ELSE 0))
    IN  IF IsConst(v) THEN Machine(f, b, n + 1, Result(Truth(v)), x, events, outcomes, left)
        ELSE IF outcomes = <<>> THEN Append(events, Unknown)
        ELSE Machine(f, b, n + 1, Result(Head(outcomes)), x,
                     Append(events, Event("cmp", i[2], v)), Tail(outcomes), Patience)

Machine(f, b, n, env, x, events, outcomes, left) ==
    IF Len(events) = Horizon THEN events
    ELSE IF n > Len(f.insts[b]) THEN Append(events, Falls)
    ELSE LET i == f.insts[b][n]
         IN  CASE i[1] = "act" -> Machine(f, b, n + 1, With(env, i, Made(events)), Made(events),
                                          Append(events, Event("act", i[2], Reads(f, i, env, x))),
                                          outcomes, Patience)
               [] i[1] = "set" -> Machine(f, b, n + 1, env, ValueIn(env, f.ops[i][1]),
                                          events, outcomes, left)
               [] i[1] = "ret" -> Append(events, Returned(Reads(f, i, env, x)))
               [] i[1] = "cmp" -> Compare(f, b, n, env, x, events, outcomes, left)
               [] i[1] = "br" -> Jump(f, b, i, env, x, events, outcomes, left)
               [] OTHER -> Machine(f, b, n + 1, env, x, events, outcomes, left)

MachineExecution(f, outcomes) ==
    Enter(f, NoBlock, Entry(f), <<>>, Undefined, <<>>, outcomes, Patience)
=============================================================================
