---------------------------- MODULE SimplifyCFG ----------------------------
(***************************************************************************)
(* The steps of the pass SimplifyCFG.  Each walks basic_blocks_ and keeps  *)
(* the blocks to remove in wait_delete until the walk is over, so that     *)
(* later blocks of the walk see neighbours that are gone already.          *)
(***************************************************************************)
EXTENDS IRFunction

PhisOf(f, b) == SelectSeq(f.insts[b], IsPhi)

\* for (i = 1; i < getNumOperand(); i += 2): the pair behind one that is removed
\* moves up and is not looked at.
RECURSIVE RemovePairs(_, _, _, _)
RemovePairs(f, phi, b, n) ==
    IF n > Len(f.ops[phi]) THEN f
    ELSE RemovePairs(IF f.ops[phi][n] = BB(b) THEN RemoveOperands(f, phi, n - 1, n) ELSE f,
                     phi, b, n + 2)

\* Slip: the phis keep the operands of the block that goes.
RemoveFromPhisSlip(f, s, b) == f

RemoveFromPhis(f, s, b) ==
    FoldLeft(LAMBDA g, phi : RemovePairs(g, phi, b, 2), f, PhisOf(f, s))

\* A walk over the blocks of f, which ends with the removal of wait_delete.
Walk(f, Step(_, _)) ==
    LET start == [f |-> f, wait_delete |-> <<>>]
        end == FoldLeft(LAMBDA acc, b : IF Runs(acc.f) THEN Step(acc, b) ELSE acc, start, f.order)
    IN  RemoveBlocks(end.f, end.wait_delete)

Delete(acc, f, b) == [f |-> f, wait_delete |-> Append(acc.wait_delete, b)]

-----------------------------------------------------------------------------

RemoveNoPredecessor(acc, b) ==
    IF acc.f.pre[b] = <<>> /\ b # Entry(acc.f)
    THEN Delete(acc, FoldLeft(LAMBDA g, s : RemoveFromPhis(RemovePre(g, s, b), s, b),
                              acc.f, acc.f.succ[b]), b)
    ELSE acc

RemoveNoPredecessorBB(f) == Walk(f, RemoveNoPredecessor)

-----------------------------------------------------------------------------

\* The phi is replaced by its first operand, which must come from the predecessor.
ReplacePhi(f, b, phi) ==
    IF ~Runs(f) THEN f
    ELSE IF Len(f.ops[phi]) < 2 THEN Fails(f, "undefined")
    ELSE IF b # Entry(f) /\ f.ops[phi][2] # BB(Head(f.pre[b])) THEN Fails(f, "exit")
    ELSE ReplaceUses(f, phi, f.ops[phi][1], LAMBDA user : TRUE)

EliminateSinglePredecessorPhi(f) ==
    FoldLeft(LAMBDA g, b :
               IF Len(g.pre[b]) = 1 \/ b = Entry(g)
               THEN LET replaced == FoldLeft(LAMBDA h, phi : ReplacePhi(h, b, phi), g, PhisOf(g, b))
                    IN  FoldLeft(LAMBDA h, phi : IF Runs(h) THEN DeleteInstr(h, b, phi) ELSE h,
                                 replaced, PhisOf(g, b))
               ELSE g,
             f, f.order)

-----------------------------------------------------------------------------

\* The instructions of b are added to those of p, which walks a list that grows
\* when the two are one block.
MergeBlock(f, p, b) ==
    LET cut == DeleteInstr(f, p, Terminator(f, p))
        moved == FoldLeft(LAMBDA g, i : AddInstruction(g, p, i),
                          IF p = b /\ cut.insts[b] # <<>> THEN Fails(cut, "loops") ELSE cut,
                          cut.insts[b])
        linked == FoldLeft(LAMBDA g, s : AddPre(RemovePre(AddSucc(g, p, s), s, b), s, p),
                           [moved EXCEPT !.succ[p] = <<>>],
                           IF p = b THEN <<>> ELSE f.succ[b])
    IN  ReplaceUses(linked, BB(b), BB(p), LAMBDA user : TRUE)

MergeSinglePredecessor(acc, b) ==
    IF Len(acc.f.pre[b]) # 1 THEN acc
    ELSE LET p == Head(acc.f.pre[b])
             br == Terminator(acc.f, p)
         IN  IF ~IsA("br", br) THEN [acc EXCEPT !.f = Fails(@, "exit")]
             ELSE IF IsUncondBr(acc.f, br) THEN Delete(acc, MergeBlock(acc.f, p, b), b)
             ELSE acc

MergeSinglePredecessorBB(f) == Walk(f, MergeSinglePredecessor)

-----------------------------------------------------------------------------

\* Slip: only the block that is branched to if the condition holds is seen.
KeepsSlip(f, b) ==
    \E p \in ToSet(f.pre[b]) :
      LET br == Terminator(f, p)
          target == f.ops[Terminator(f, b)][1]
      IN  IsCondBr(f, br) /\ f.ops[br][2] = BB(b) /\ f.ops[br][3] = target

\* A block that only branches is kept when a predecessor branches to its target
\* as well: a phi there could not tell the two edges apart.
Keeps(f, b) ==
    \E p \in ToSet(f.pre[b]) :
      LET br == Terminator(f, p)
          target == f.ops[Terminator(f, b)][1]
      IN  IsCondBr(f, br) /\ {BB(b), target} = {f.ops[br][2], f.ops[br][3]}

\* The first predecessor takes the place of b in the phi, the others are added.
ForwardPair(f, phi, n, b) ==
    FoldLeftDomain(LAMBDA g, k :
                     LET p == BB(f.pre[b][k])
                     IN  IF k = 1
                         THEN RemoveUse(SetOperand(g, phi, n, p), BB(b), <<phi, n>>)
                         ELSE AddOperand(AddOperand(g, phi, f.ops[phi][n - 1]), phi, p),
                   f, f.pre[b])

RECURSIVE ForwardPairs(_, _, _, _)
ForwardPairs(f, phi, b, n) ==
    IF n > Len(f.ops[phi]) THEN f
    ELSE ForwardPairs(IF f.ops[phi][n] = BB(b) THEN ForwardPair(f, phi, n, b) ELSE f, phi, b, n + 2)

ForwardBlock(f, b) ==
    LET s == Head(f.succ[b])
        phis == FoldLeft(LAMBDA g, phi : ForwardPairs(g, phi, b, 2), f, PhisOf(f, s))
        branches == ReplaceUses(phis, BB(b), BB(s), LAMBDA user : IsA("br", user))
    IN  FoldLeft(LAMBDA g, p : AddPre(AddSucc(RemoveSucc(g, p, b), p, s), s, p),
                 RemovePre(branches, s, b), f.pre[b])

EliminateSingleUnCondBr(acc, b) ==
    LET f == acc.f
    IN  IF Len(f.insts[b]) # 1 \/ b = Entry(f) THEN acc
        ELSE IF IsA("none", Terminator(f, b)) THEN [acc EXCEPT !.f = Fails(f, "exit")]
        ELSE IF IsUncondBr(f, Terminator(f, b)) /\ ~Keeps(f, b)
        THEN Delete(acc, ForwardBlock(f, b), b)
        ELSE acc

EliminateSingleUnCondBrBB(f) == Walk(f, EliminateSingleUnCondBr)

-----------------------------------------------------------------------------

RemoveSelfLoopBB(f) == RemoveBlocks(f, SelectSeq(f.order, LAMBDA b : f.pre[b] = <<b>>))
=============================================================================
