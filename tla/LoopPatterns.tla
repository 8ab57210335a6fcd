---------------------------- MODULE LoopPatterns ----------------------------
(***************************************************************************)
(* What LoopMerge and AccumulatePattern see of a program: BBExps gives the *)
(* expressions of each basic block, and the patterns are looked for in     *)
(* them.                                                                   *)
(*                                                                         *)
(* An expression is [lval, level, sub, ok]: a variable or constant alone   *)
(* has an lval; others a sequence sub of [op, exp]; it is not ok when the  *)
(* analysis fails.  The answer to a question is "yes", "no", or "stop":    *)
(* the compiler stops on an assertion or a null pointer.                   *)
(***************************************************************************)
EXTENDS SYSYCBuilder

Answer(cond) == IF cond THEN "yes" ELSE "no"
And(p, q) == IF p = "yes" THEN q ELSE p
Or(p, q) == IF p = "no" THEN q ELSE p
Not(p) == IF p = "stop" THEN p ELSE Answer(p = "no")

\* The first answer in a sequence that is not "yes".
All(answers) == FoldLeft(LAMBDA p, q : And(p, q), "yes", answers)

-----------------------------------------------------------------------------
(* BBExpsAnalysis_hir *)

Leaf(v) == [lval |-> v, level |-> "nop", sub |-> <<>>, ok |-> TRUE]
Failed == [Leaf(Null) EXCEPT !.ok = FALSE]
Layer(level, sub) == [lval |-> Null, level |-> level, sub |-> sub,
                      ok |-> \A n \in DOMAIN sub : sub[n].exp.ok]
Item(op, exp) == [op |-> op, exp |-> exp]

\* opMap: what an operator is below another one.
determineOP(upper, cur) == CASE upper = "nop" -> cur
                             [] cur = "nop" -> upper
                             [] OTHER -> IF upper = cur THEN "add" ELSE "sub"

RECURSIVE GetExp(_, _)

\* The summands below an addition, with their signs.
RECURSIVE Summands(_, _, _)
Summands(P, op, v) ==
    IF IsOp(P, "add", v) \/ IsOp(P, "sub", v)
    THEN Summands(P, determineOP(op, "nop"), Inst(P, v).ops[1])
           \o Summands(P, determineOP(op, Inst(P, v).op), Inst(P, v).ops[2])
    ELSE <<Item(op, GetExp(P, v))>>

\* The factors: only the left side of a product is taken apart, and a product
\* on the right side of one is not known.
Products == {"mul", "div", "rem"}

RECURSIVE Factors(_, _, _)
Factors(P, op, v) ==
    LET x == Inst(P, v)
        plain == IF IsIns(v) THEN x.op \in {"load", "call"} ELSE TRUE
    IN  CASE plain -> <<Item(op, GetExp(P, v))>>
          [] ~plain /\ x.op \notin Products \cup {"add", "sub"} -> <<Item(op, Failed)>>
          [] ~plain /\ x.op \in Products /\ op = "nop" ->
               Factors(P, "nop", x.ops[1]) \o Factors(P, x.op, x.ops[2])
          [] ~plain /\ x.op = "mul" /\ op = "mul" -> <<Item(op, Failed)>>
          [] OTHER -> <<Item(op, GetExp(P, v))>>

\* The operands of a tree of && or ||: a constant is not known; || within ||
\* stands before its operands as well.
RECURSIVE Conjuncts(_, _, _)
Conjuncts(P, op, v) ==
    IF IsOp(P, op, v)
    THEN (IF op = "or" THEN <<Item("nop", GetExp(P, v))>> ELSE <<>>)
           \o Conjuncts(P, op, Inst(P, v).ops[1]) \o Conjuncts(P, op, Inst(P, v).ops[2])
    ELSE <<Item("nop", IF IsIns(v) THEN GetExp(P, v) ELSE Failed)>>

GetExp(P, v) ==
    LET x == Inst(P, v)
        arg(n) == Item("call", IF ~IsIns(x.ops[n]) \/ IsOp(P, "gep", x.ops[n]) THEN Leaf(x.ops[n])
                               ELSE GetExp(P, x.ops[n]))
    IN  CASE ~IsIns(v) -> Leaf(v)
          [] IsOp(P, "load", v) -> Leaf(x.ops[1])
          [] IsOp(P, "zext", v) -> GetExp(P, x.ops[1])
          [] IsOp(P, "and", v) \/ IsOp(P, "or", v) ->
               Layer(x.op, Conjuncts(P, x.op, x.ops[1]) \o Conjuncts(P, x.op, x.ops[2]))
          [] IsOp(P, "add", v) \/ IsOp(P, "sub", v) ->
               Layer("plus", Summands(P, "nop", x.ops[1]) \o Summands(P, x.op, x.ops[2]))
          [] IsIns(v) /\ x.op \in Products ->
               Layer("multiple", Factors(P, "nop", x.ops[1]) \o Factors(P, x.op, x.ops[2]))
          [] IsIns(v) /\ x.op \in Compares ->
               Layer("cmp", <<Item("nop", GetExp(P, x.ops[1])), Item(x.op, GetExp(P, x.ops[2]))>>)
          [] IsOp(P, "call", v) ->
               Layer("call", <<Item("nop", Leaf(x.ops[1]))>> \o [n \in 1 .. Len(x.ops) - 1 |-> arg(n + 1)])
          [] OTHER -> Failed

\* What a block does: [addr, ins, exp].  A comparison is given the expression
\* of the last instruction of the block, a call that returns nothing its
\* first argument in the place of all of them.
handleLogicalExp(P, b, i) == [addr |-> Null, ins |-> i, exp |-> GetExp(P, Ins(Last(P.blk[b].code)))]
handleAssignment(P, i) == [addr |-> P.ins[i].ops[2], ins |-> i, exp |-> GetExp(P, P.ins[i].ops[1])]
handleCall(P, i) ==
    [addr |-> Null, ins |-> i,
     exp |-> LET ops == P.ins[i].ops
             IN  Layer("call", <<Item("nop", Leaf(ops[1]))>>
                                 \o [n \in 1 .. Len(ops) - 1 |-> Item("call", GetExp(P, ops[2]))])]
handleRet(P, i) ==
    [addr |-> Null, ins |-> i,
     exp |-> IF P.ins[i].ops = <<>> THEN Leaf(Null) ELSE GetExp(P, P.ins[i].ops[1])]

ExpOf(P, b, i) ==
    LET x == P.ins[i]
    IN  CASE x.op \in Compares -> <<handleLogicalExp(P, b, i)>>
          [] x.op = "store" -> <<handleAssignment(P, i)>>
          [] x.op = "call" /\ x.ty = VoidTy -> <<handleCall(P, i)>>
          [] x.op = "ret" -> <<handleRet(P, i)>>
          [] x.op \in {"break", "continue"} -> <<[addr |-> Null, ins |-> i, exp |-> Leaf(Null)]>>
          [] OTHER -> <<>>

analysisExps(P, b) == FlattenSeq([n \in DOMAIN P.blk[b].code |-> ExpOf(P, b, P.blk[b].code[n])])

BBExps(P) == [b \in ToSet(BasicBlocks(P)) |-> analysisExps(P, b)]

runFailed(exps) == \E b \in DOMAIN exps : \E n \in DOMAIN exps[b] : ~exps[b][n].exp.ok

Stores(P, exps) == SelectSeq(exps, LAMBDA e : P.ins[e.ins].op = "store")

-----------------------------------------------------------------------------
(* The questions both passes ask, with code of their own each *)

\* ins2->isLoad() without a look whether there is an ins2.
RECURSIVE isSameAddr(_, _, _), isSameOffsetPattern(_, _, _)
isSameAddr(P, v, w) ==
    CASE ~IsPointer(P, v) \/ ~IsPointer(P, w) -> "stop"
      [] IsPointer(P, v) /\ IsPointer(P, w) ->
           IF ~IsIns(v) \/ IsOp(P, "alloca", v) THEN Answer(v = w)
           ELSE IF ~IsIns(w) THEN "stop"
           ELSE IF Inst(P, v).op # Inst(P, w).op THEN "no"
           ELSE IF IsOp(P, "load", v) THEN isSameAddr(P, Inst(P, v).ops[1], Inst(P, w).ops[1])
           ELSE And(isSameAddr(P, Inst(P, v).ops[1], Inst(P, w).ops[1]),
                    isSameOffsetPattern(P, Inst(P, v).ops[2], Inst(P, w).ops[2]))

isSameOffsetPattern(P, v, w) ==
    LET x == Inst(P, v)
        y == Inst(P, w)
        pair(m, n) == And(isSameOffsetPattern(P, x.ops[1], y.ops[m]),
                          isSameOffsetPattern(P, x.ops[2], y.ops[n]))
    IN  CASE ~IsIns(v) \/ ~IsIns(w) -> Answer(v = w)
          [] IsIns(v) /\ IsIns(w) ->
               CASE x.op = "call" -> "no"
                 [] x.op \in {"load", "add", "mul", "sub", "div", "rem"} /\ x.op # y.op -> "no"
                 [] x.op = "load" /\ y.op = "load" -> isSameAddr(P, x.ops[1], y.ops[1])
                 [] x.op \in {"add", "mul"} /\ x.op = y.op -> Or(pair(1, 2), pair(2, 1))
                 [] x.op \in {"sub", "div", "rem"} /\ x.op = y.op -> pair(1, 2)
                 [] OTHER -> "stop"

\* No part of an expression is what stands at addr.
RECURSIVE hasNot(_, _, _)
hasNot(P, exp, addr) ==
    CASE exp.lval # Null -> IF IsConst(exp.lval) THEN "yes" ELSE Not(isSameAddr(P, exp.lval, addr))
      [] OTHER -> All([n \in DOMAIN exp.sub |-> hasNot(P, exp.sub[n].exp, addr)])

\* A store of a sum in which what is stored to stands once, added.
RECURSIVE AccuFrom(_, _, _, _)
AccuFrom(P, addr, sub, once) ==
    IF sub = <<>> THEN Answer(once)
    ELSE LET e == Head(sub).exp
             added == Head(sub).op \in {"nop", "add"} /\ e.level = "nop"
             same == isSameAddr(P, addr, e.lval)
         IN  CASE added /\ IsConst(e.lval) -> AccuFrom(P, addr, Tail(sub), once)
               [] added /\ ~IsConst(e.lval) ->
                    CASE same = "stop" -> "stop"
                      [] same = "yes" -> IF once THEN "no" ELSE AccuFrom(P, addr, Tail(sub), TRUE)
                      [] OTHER -> AccuFrom(P, addr, Tail(sub), once)
               [] OTHER -> And(hasNot(P, e, addr), AccuFrom(P, addr, Tail(sub), once))

isAssignPlus(P, e) == IF e.exp.level # "plus" THEN "no" ELSE AccuFrom(P, e.addr, e.exp.sub, FALSE)

\* The condition of a loop, if it is a single i < n.
LoopCond(P, exps, w) ==
    LET cond == P.lists[<<"cond", w>>]
        es == exps[cond[1]]
    IN  IF Len(cond) # 1 \/ Len(es) # 1 THEN <<>>
        ELSE IF P.ins[es[1].ins].op # "lt" THEN <<>>
        ELSE LET lvals == [n \in {1, 2} |-> es[1].exp.sub[n].exp.lval]
             IN  IF Null \in {lvals[1], lvals[2]} \/ IsOp(P, "gep", lvals[1]) THEN <<>>
                 ELSE <<lvals[1], lvals[2]>>

\* A store to the iterator adds a 1 to it.
PlusOne(P, exp, iter) ==
    LET one == IF IsConst(exp.sub[1].exp.lval) THEN 1 ELSE 2
        other == exp.sub[3 - one].exp
    IN  IF \/ exp.level # "plus"
           \/ Len(exp.sub) # 2
           \/ exp.sub[2].op # "add"
           \/ \E n \in {1, 2} : exp.sub[n].exp.level # "nop"
           \/ exp.sub[one].exp.lval # Const(1)
        THEN "no"
        ELSE isSameAddr(P, other.lval, iter)

\* The iterator is stored to once at most, to add 1.
RECURSIVE IterFrom(_, _, _, _)
IterFrom(P, stores, iter, once) ==
    IF stores = <<>> THEN "yes"
    ELSE LET same == isSameAddr(P, iter, Head(stores).addr)
         IN  CASE same = "stop" -> "stop"
               [] same = "no" -> IterFrom(P, Tail(stores), iter, once)
               [] OTHER -> And(And(PlusOne(P, Head(stores).exp, iter), Answer(~once)),
                               IterFrom(P, Tail(stores), iter, TRUE))

\* An instruction and what it is computed from, down to the variables, in the
\* order of its block.
RECURSIVE Needed(_, _)
Needed(P, i) ==
    {i} \cup UNION {Needed(P, v[2]) : v \in {x \in ToSet(P.ins[i].ops) : IsIns(x) /\ ~IsOp(P, "alloca", x)}}

\* Slip: only the operands themselves.
getRelatedInsSlip(P, i) ==
    SelectSeq(P.blk[P.ins[i].at].code, LAMBDA j : j = i \/ Ins(j) \in ToSet(P.ins[i].ops))

getRelatedIns(P, i) == SelectSeq(P.blk[P.ins[i].at].code, LAMBDA j : j \in Needed(P, i))
=============================================================================
