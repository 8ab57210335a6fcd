----------------------------- MODULE IRFunction -----------------------------
(***************************************************************************)
(* A function of the IR as the passes hold it: blocks with the lists of    *)
(* their neighbours, instructions with their operands, and for each value  *)
(* the list of its uses.  Nothing ties them together but the calls         *)
(* the passes make; IRCheck is what the compiler itself expects of them.   *)
(*                                                                         *)
(* A function f has                                                        *)
(*   order        basic_blocks_, the entry first                           *)
(*   pre, succ    the neighbours of each block, removed ones included      *)
(*   insts        the instructions of each block                           *)
(*   parent       the block of each instruction                            *)
(*   ops          the operands of each instruction                         *)
(*   uses         the uses of each value, pairs <<user, index>>            *)
(*   fault        "none", or how the compiler ended: it called exit() or   *)
(*                it walks a list for ever                                 *)
(* A block, a constant and an instruction are values, <<kind, number>>; an *)
(* operand the source numbers i is entry i + 1.                            *)
(*                                                                         *)
(* One scalar variable is modelled.  Its instructions: "act" passes it to  *)
(* a function and stores the result, "set" stores 0, "cmp" compares it,    *)
(* or a constant.  While it is in memory they have no operand for it.      *)
(***************************************************************************)
EXTENDS Integers, SequencesExt

BB(b) == <<"bb", b>>
ConstInt(c) == <<"const", c>>
Arg == <<"arg", 0>>      \* the parameter of the function
Inst(kind, b) == <<kind, b>>
IsA(kind, i) == i[1] = kind
IsPhi(i) == IsA("phi", i)

With(fn, x, v) == (x :> v) @@ fn
Without(s, x) == SelectSeq(s, LAMBDA y : y # x)

NoFunction == [order |-> <<>>, pre |-> <<>>, succ |-> <<>>, insts |-> <<>>,
               parent |-> <<>>, ops |-> <<>>, uses |-> <<>>, fault |-> "none"]

Fails(f, how) == IF f.fault = "none" THEN [f EXCEPT !.fault = how] ELSE f
Runs(f) == f.fault = "none"

UsesOf(f, v) == IF v \in DOMAIN f.uses THEN f.uses[v] ELSE <<>>
Entry(f) == Head(f.order)

-----------------------------------------------------------------------------
(* Values and users *)

AddUse(f, v, u) == [f EXCEPT !.uses = With(@, v, Append(UsesOf(f, v), u))]

RemoveUse(f, v, u) ==
    IF Contains(UsesOf(f, v), u)
    THEN [f EXCEPT !.uses[v] = RemoveFirst(@, u)]
    ELSE Fails(f, "exit")

SetOperand(f, i, n, v) == AddUse([f EXCEPT !.ops[i][n] = v], v, <<i, n>>)

AddOperand(f, i, v) ==
    AddUse([f EXCEPT !.ops[i] = Append(@, v)], v, <<i, Len(f.ops[i]) + 1>>)

RemoveUseOfOps(f, i) ==
    FoldLeftDomain(LAMBDA g, n : RemoveUse(g, f.ops[i][n], <<i, n>>), f, f.ops[i])

\* Slip: the operands behind move up, their uses keep the old numbers.
RemoveOperandsSlip(f, i, n, m) ==
    [RemoveUse(RemoveUse(f, f.ops[i][n], <<i, n>>), f.ops[i][m], <<i, m>>)
       EXCEPT !.ops[i] = SubSeq(@, 1, n - 1) \o SubSeq(@, m + 1, Len(@))]

\* removeOperand: the operands but the n-th and the m-th are taken off and put
\* back, so that those behind move up.
RemoveOperands(f, i, n, m) ==
    FoldLeftDomain(LAMBDA g, k : IF k \in {n, m} THEN g ELSE AddOperand(g, i, f.ops[i][k]),
                   [RemoveUseOfOps(f, i) EXCEPT !.ops[i] = <<>>],
                   f.ops[i])

\* replaceAllUseWith and its copies in the passes.  The list of uses is walked
\* while setOperand appends to that of w: when they are one list there is no end.
ReplaceUses(f, v, w, Replaced(_)) ==
    LET users == SelectSeq(UsesOf(f, v), LAMBDA u : Replaced(u[1]))
    IN  IF v = w /\ users # <<>>
        THEN Fails(f, "loops")
        ELSE FoldLeft(LAMBDA g, u : SetOperand(g, u[1], u[2], w), f, users)

-----------------------------------------------------------------------------
(* Blocks and instructions *)

CreateBlock(f, b) ==
    [f EXCEPT !.pre = With(@, b, <<>>), !.succ = With(@, b, <<>>), !.insts = With(@, b, <<>>)]

AddPre(f, b, p) == [f EXCEPT !.pre[b] = Append(@, p)]
RemovePre(f, b, p) == [f EXCEPT !.pre[b] = Without(@, p)]
AddSucc(f, b, s) == [f EXCEPT !.succ[b] = Append(@, s)]
RemoveSucc(f, b, s) == [f EXCEPT !.succ[b] = Without(@, s)]

Terminator(f, b) ==
    IF f.insts[b] # <<>> /\ Last(f.insts[b])[1] \in {"ret", "br"}
    THEN Last(f.insts[b])
    ELSE <<"none", 0>>

IsCondBr(f, i) == IsA("br", i) /\ Len(f.ops[i]) = 3
IsUncondBr(f, i) == IsA("br", i) /\ Len(f.ops[i]) = 1

\* An instruction with these operands, not yet in a block.
CreateInst(f, i, operands) ==
    FoldLeftDomain(LAMBDA g, n : AddUse(g, operands[n], <<i, n>>),
                   [f EXCEPT !.ops = With(@, i, operands)],
                   operands)

AddInstruction(f, b, i) == [f EXCEPT !.insts[b] = Append(@, i), !.parent = With(@, i, b)]
AddInst(f, b, i, operands) == AddInstruction(CreateInst(f, i, operands), b, i)
DeleteInstr(f, b, i) == RemoveUseOfOps([f EXCEPT !.insts[b] = Without(@, i)], i)

\* A branch is numbered by its block, negated when it replaces another.
BranchOf(f, b) == IF Inst("br", b) \in DOMAIN f.ops THEN Inst("br", -b) ELSE Inst("br", b)

CreateBr(f, b, target) ==
    AddInst(AddSucc(AddPre(f, target, b), b, target), b, BranchOf(f, b), <<BB(target)>>)

CreateCondBr(f, b, cond, if_true, if_false) ==
    LET g == AddPre(AddPre(f, if_true, b), if_false, b)
    IN  AddInst(AddSucc(AddSucc(g, b, if_false), b, if_true), b, BranchOf(f, b),
                <<cond, BB(if_true), BB(if_false)>>)

RemoveBasicBlock(f, b) ==
    LET g == FoldLeft(LAMBDA h, p : RemoveSucc(h, p, b), [f EXCEPT !.order = Without(@, b)], f.pre[b])
    IN  FoldLeft(LAMBDA h, s : RemovePre(h, s, b), g, f.succ[b])

RemoveBlocks(f, blocks) == FoldLeft(RemoveBasicBlock, f, blocks)

-----------------------------------------------------------------------------
(* IRCheck *)

InstsOf(f) == UNION {ToSet(f.insts[b]) : b \in ToSet(f.order)}
Defined(f) == InstsOf(f) \cup {BB(b) : b \in ToSet(f.order)} \cup {Arg}

\* A block's function is not modelled: there is only one.
CheckParent(f) == \A b \in ToSet(f.order) : \A i \in ToSet(f.insts[b]) : f.parent[i] = b

CheckPhiPosition(f) ==
    \A b \in ToSet(f.order) : \A n \in 2 .. Len(f.insts[b]) :
      IsPhi(f.insts[b][n]) => IsPhi(f.insts[b][n - 1])

CheckRetBrPosition(f) ==
    \A b \in ToSet(f.order) : \A i \in ToSet(f.insts[b]) :
      i[1] \in {"ret", "br"} => i = Terminator(f, b)

CheckTerminate(f) == \A b \in ToSet(f.order) : ~IsA("none", Terminator(f, b))

CheckPredSucc(f) ==
    \A b \in ToSet(f.order) :
      /\ \A p \in ToSet(f.pre[b]) : Contains(f.succ[p], b)
      /\ \A s \in ToSet(f.succ[b]) : Contains(f.pre[s], b)

CheckUseList(f) ==
    /\ \A v \in Defined(f) :
         /\ IsInjective(UsesOf(f, v))
         /\ \A u \in ToSet(UsesOf(f, v)) : u[2] \in DOMAIN f.ops[u[1]] /\ f.ops[u[1]][u[2]] = v
    /\ \A i \in InstsOf(f) : \A n \in DOMAIN f.ops[i] : Contains(UsesOf(f, f.ops[i][n]), <<i, n>>)

CheckOperandExit(f) ==
    \A i \in InstsOf(f) : \A v \in ToSet(f.ops[i]) :
      IsA("const", v) \/ v \in Defined(f)

IRCheck(f) ==
    /\ CheckParent(f) /\ CheckPhiPosition(f) /\ CheckRetBrPosition(f) /\ CheckTerminate(f)
    /\ CheckPredSucc(f) /\ CheckUseList(f) /\ CheckOperandExit(f)
=============================================================================
