----------------------------- MODULE CFGPasses -----------------------------
(***************************************************************************)
(* A function on its way through the compiler, as far as its flow graph is *)
(* concerned: from its statements to basic blocks, to SSA form, and        *)
(* through the passes that fold branches and simplify the graph, in the    *)
(* order of main.  After each pass the compiler runs IRCheck.              *)
(***************************************************************************)
EXTENDS StructuredBlocks, SimplifyCFG, FlowGraph

CONSTANTS Programs,     \* lists of statements
          Outcomes      \* of comparisons: lists of truth values

VARIABLES source,      \* the statements
          tree,        \* the base blocks
          f,
          methods,     \* what is left of the pass,
          passes       \* and the passes to come

vars == <<source, tree, f, methods, passes>>

Simplify == <<"nopred", "singlephi", "merge", "forward", "selfloop", "nopred", "singlephi">>

\* Up to the second BBConstPropagation and the SimplifyCFG after it, without the
\* passes that are not modelled.
Schedule == << <<"build">>, <<"highir">>, <<"highir">>, <<"lower">>, Simplify,
               <<"deadinst">>, <<"deadinst">>, Simplify, <<"ssa">>, <<"deadinst">>,
               <<"const", "fold">>, <<"deadinst">>, Simplify, <<"deadinst">>, Simplify, Simplify,
               <<"const", "fold">>, <<"deadinst">>, Simplify >>

-----------------------------------------------------------------------------
(* Dominators and Mem2Reg *)

Graph(g) == [b \in ToSet(g.order) |-> g.succ[b]]

Reachable(g) == Avoiding(Graph(g), Entry(g), NoBlock)

StoresTo(g, b) == \E i \in ToSet(g.insts[b]) : i[1] \in {"act", "set"}

\* What Dominators has found: the parent and the frontier of each block.
Parents(g) ==
    FoldLeft(LAMBDA fn, b : With(fn, b, ClosestDominator(Graph(g), Entry(g), b)),
             <<>>, Tail(g.order))
Frontiers(g) ==
    FoldLeft(LAMBDA fn, b : With(fn, b, FrontierOf(Graph(g), Entry(g), b)), <<>>, g.order)

\* The iterated dominance frontier of the stores: every variable that is stored to is
\* in globals.
PhiBlocks(g, frontiers) ==
    LET placed[n \in 0 .. Len(g.order)] ==
          IF n = 0 THEN {}
          ELSE LET before == placed[n - 1]
               IN  UNION {frontiers[b] : b \in before \cup {c \in ToSet(g.order) : StoresTo(g, c)}}
    IN  placed[Len(g.order)]

\* insertInstr puts the phi in front of the first instruction, whose parent it gets.
PlacePhi(g, b) ==
    LET phi == Inst("phi", b)
    IN  [CreateInst(g, phi, <<>>)
           EXCEPT !.insts[b] = <<phi>> \o @, !.parent = With(@, phi, g.parent[Head(g.insts[b])])]

\* The blocks in the order ReName visits them.
RECURSIVE Preorder(_, _, _)
Preorder(parents, b, up) ==
    LET children == {c \in DOMAIN parents : parents[c] = b}
        sorted == SetToSortSeq(children, LAMBDA x, y : IF up THEN x < y ELSE x > y)
    IN  FoldLeft(LAMBDA visited, c : visited \o Preorder(parents, c, up), <<b>>, sorted)

\* The top of newest_live_var behind the instructions of b.
Newest(g, insts, before) ==
    FoldLeft(LAMBDA v, i : CASE i[1] \in {"act", "phi"} -> i
                             [] IsA("set", i) -> g.ops[i][1]
                             [] OTHER -> v,
             before, insts)

\* Loads are replaced by the newest value, the phis of the successors get it.  The
\* value the block starts with is that at the end of its parent.
RenameBlock(acc, b, parents) ==
    LET insts == acc.f.insts[b]
        before == IF b \in DOMAIN parents THEN acc.newest[parents[b]] ELSE Arg
        after == Newest(acc.f, insts, before)
        loads == FoldLeftDomain(
                   LAMBDA g, n :
                     IF insts[n][1] \in {"act", "cmp", "ret"} /\ g.ops[insts[n]] = <<>>
                     THEN AddOperand(g, insts[n], Newest(acc.f, SubSeq(insts, 1, n - 1), before))
                     ELSE g,
                   acc.f, insts)
        params == FoldLeft(
                    LAMBDA g, phi : AddOperand(AddOperand(g, phi, after), phi, BB(b)),
                    loads, FlattenSeq([n \in DOMAIN acc.f.succ[b] |-> PhisOf(acc.f, acc.f.succ[b][n])]))
    IN  [f |-> FoldLeft(LAMBDA g, i : DeleteInstr(g, b, i),
                        params, SelectSeq(insts, LAMBDA i : IsA("set", i))),
         newest |-> With(acc.newest, b, after)]

\* ReName takes the children of a block in the order of a set of pointers.
Mem2Reg(g, up) ==
    LET parents == Parents(g)
        phis == SetToSortSeq(PhiBlocks(g, Frontiers(g)), <)
    IN  FoldLeft(LAMBDA acc, b : RenameBlock(acc, b, parents),
                 [f |-> FoldLeft(PlacePhi, g, phis), newest |-> <<>>],
                 Preorder(parents, Entry(g), up)).f

\* Dominators follows the parent of a block that cannot be reached: a null pointer.
SSA(g, up) == IF Reachable(g) = ToSet(g.order) THEN Mem2Reg(g, up) ELSE Fails(g, "crash")

-----------------------------------------------------------------------------
(* DeadCodeEliminate *)

Marked(g) ==
    LET grown[n \in 0 .. Len(g.order) + 1] ==
          IF n = 0 THEN {i \in InstsOf(g) : ~(IsPhi(i) \/ IsA("cmp", i))}
          ELSE LET before == grown[n - 1]
               IN  before \cup (InstsOf(g) \cap UNION {ToSet(g.ops[i]) : i \in before})
    IN  grown[Len(g.order) + 1]

DeleteDeadInst(g) ==
    LET marked == Marked(g)
    IN  FoldLeft(LAMBDA h, b :
                   FoldLeft(LAMBDA acc, i : IF i \in marked THEN acc ELSE DeleteInstr(acc, b, i),
                            h, h.insts[b]),
                 g, g.order)

-----------------------------------------------------------------------------
(* BBConstPropagation *)

\* A comparison of a constant with 0 is replaced by its result.
FoldCmps(g, b) ==
    FoldLeft(LAMBDA h, i :
               IF IsA("cmp", i) /\ IsA("const", h.ops[i][1])
               THEN DeleteInstr(ReplaceUses(h, i, ConstInt(IF h.ops[i][1] = ConstInt(0) THEN 0 ELSE 1),
                                            LAMBDA user : TRUE), b, i)
               ELSE h,
             g, g.insts[b])

ConstPropagation(g) == FoldLeft(FoldCmps, g, g.order)

\* The branch to the taken target replaces the branch on a constant.  The edge
\* is taken out of both successors and added to the taken one again.
FoldBranch(g, b) ==
    LET br == Terminator(g, b)
        taken == g.ops[br][IF g.ops[br][1] = ConstInt(0) THEN 3 ELSE 2][2]
        cut == FoldLeft(LAMBDA h, s :
                          IF s = taken THEN RemovePre(h, s, b)
                          ELSE RemoveFromPhis(RemovePre(h, s, b), s, b),
                        DeleteInstr(g, b, br), g.succ[b])
    IN  IF IsCondBr(g, br) /\ IsA("const", g.ops[br][1])
        THEN [CreateBr(cut, b, taken) EXCEPT !.succ[b] = <<taken>>]
        ELSE g

FoldBranches(g) == FoldLeft(FoldBranch, g, g.order)

-----------------------------------------------------------------------------

Init == /\ source \in Programs
        /\ tree = <<>>
        /\ f = NoFunction
        /\ methods = <<>>
        /\ passes = Schedule

\* PassManager::run
NextPass == /\ methods = <<>>
            /\ passes # <<>>
            /\ Runs(f)
            /\ methods' = Head(passes)
            /\ passes' = Tail(passes)
            /\ UNCHANGED <<source, tree, f>>

Do(method) == /\ methods # <<>>
              /\ Head(methods) = method
              /\ Runs(f)
              /\ methods' = Tail(methods)
              /\ UNCHANGED <<source, passes>>

SYSYCBuilder == /\ Do("build")
                /\ LET built == BuildFunction(source)
                   IN  f' = built.f /\ tree' = built.blocks

HighIRsimplyCFG == /\ Do("highir")
                   /\ LET merged == MergeBasicBlocks(f, tree)
                      IN  f' = merged.f /\ tree' = merged.blocks

HIRToMIR == Do("lower") /\ f' = Lower(f, tree) /\ tree' = <<>>

Rewrites(method, g) == Do(method) /\ f' = g /\ UNCHANGED tree

\* All passes have run, or the compiler has come to an end otherwise.
Ended == /\ (methods = <<>> /\ passes = <<>>) \/ ~Runs(f)
         /\ UNCHANGED vars

Next == \/ NextPass
        \/ SYSYCBuilder \/ HighIRsimplyCFG \/ HIRToMIR
        \/ Rewrites("nopred", RemoveNoPredecessorBB(f))
        \/ Rewrites("singlephi", EliminateSinglePredecessorPhi(f))
        \/ Rewrites("merge", MergeSinglePredecessorBB(f))
        \/ Rewrites("forward", EliminateSingleUnCondBrBB(f))
        \/ Rewrites("selfloop", RemoveSelfLoopBB(f))
        \/ \E up \in BOOLEAN : Rewrites("ssa", SSA(f, up))
        \/ Rewrites("deadinst", DeleteDeadInst(f))
        \/ Rewrites("const", ConstPropagation(f))
        \/ Rewrites("fold", FoldBranches(f))
        \/ Ended

Spec == Init /\ [][Next]_vars

-----------------------------------------------------------------------------

\* After each pass the flow graph, the operands and the lists of uses are what
\* IRCheck demands: the neighbours of a block know each other, each operand knows
\* its user, and nothing that has been removed is still an operand.
IRConsistent == methods = <<>> /\ Runs(f) => IRCheck(f)

\* After each pass from HIRToMIR on, whatever the comparisons give, the flow graph
\* calls, compares and returns what the statements do, in their order and with
\* their values.
MeaningKept ==
    methods = <<>> /\ f.order # <<>> /\ Runs(f) =>
      \A outcomes \in Outcomes : MachineExecution(f, outcomes) = Execution(source, outcomes)

\* What the compiler is known not to survive.  A loop on a constant without a way
\* out: its blocks only branch to each other in the end, and the lists the pass
\* walks grow meanwhile.  Nested statements in a branch that is never taken, next
\* to an else: RemoveSelfLoopBB, and RemovePairs where a block comes twice, leave
\* operands of a removed block in the phi behind the statement.
RECURSIVE Leaves(_, _)
Leaves(stmts, ways) ==
    \E s \in ToSet(stmts) :
      \/ s.op \in ways
      \/ s.op = "if" /\ (Leaves(s.then, ways) \/ Leaves(s.else, ways))
      \/ s.op = "while" /\ Leaves(s.then, {"return"})

IsNested(s) == s.op \in {"if", "while"}

RECURSIVE Endless(_)
Endless(stmts) ==
    \E s \in ToSet(stmts) :
      /\ IsNested(s)
      /\ \/ s.op = "while" /\ s.cond = "1" /\ ~Leaves(s.then, {"break", "return"})
         \/ Endless(s.then)

\* In an execution, or by the look of it.
RunsForEver(stmts) ==
    Endless(stmts) \/ \E outcomes \in Outcomes : Last(Execution(stmts, outcomes)) = Spins

DeadNested(stmts) ==
    \E n \in DOMAIN stmts :
      /\ stmts[n].op = "if"
      /\ stmts[n].else # <<>>
      /\ stmts[n].cond = "0" \/ (stmts[n].cond = "x" /\ n > 1 /\ stmts[n - 1].op = "zero")
      /\ \E s \in ToSet(stmts[n].then) : IsNested(s)

\* Any other function comes through all passes: no pass walks a list that grows
\* under its feet, calls exit() or follows a null pointer.
ComesThrough ==
    \/ Runs(f)
    \/ f.fault = "loops" /\ RunsForEver(source)
    \/ f.fault = "exit" /\ DeadNested(source)

-----------------------------------------------------------------------------
(* Finite instances for TLC *)

\* Lists of at most two simple statements, the second of which may leave the list.
Simples(n, inLoop) ==
    {<<>>, <<Simple("act", n)>>, <<Simple("zero", n)>>, <<Simple("return", n)>>}
      \cup {<<Simple("act", n), Simple("return", n + 1)>>}
      \cup IF inLoop THEN {<<Simple(op, n)>> : op \in {"break", "continue"}}
                            \cup {<<Simple("act", n), Simple("break", n + 1)>>}
                    ELSE {}

Ifs(n, inLoop, conds) ==
    {If(n, c, t, e) : c \in conds, t \in Simples(10 * n + 1, inLoop),
                      e \in {<<>>, <<Simple("zero", 10 * n + 6)>>}}

Whiles(n, conds) == {While(n, c, b) : c \in conds, b \in Simples(10 * n + 1, TRUE)}

Compound(n, inLoop, conds) == Ifs(n, inLoop, conds) \cup Whiles(n, conds)

\* A statement with a compound one in it, and what may stand around that.
Bodies(n, inLoop, conds) ==
    {<<s>> : s \in Compound(n, inLoop, conds)}
      \cup {<<Simple("act", n - 1), s>> : s \in Compound(n, inLoop, conds)}
      \cup {<<s, Simple("act", n + 1)>> : s \in Compound(n, inLoop, conds)}

Deep(n, outer, inner) ==
    {If(n, c, b, e) : c \in outer, b \in Bodies(10 * n + 2, FALSE, inner),
                      e \in {<<>>, <<Simple("act", 10 * n + 6)>>}}
      \cup {While(n, c, b) : c \in outer, b \in Bodies(10 * n + 2, TRUE, inner)}

Around(s) == {<<s, Simple("act", 3)>>, <<Simple("zero", 1), s, Simple("return", 3)>>}

MCPrograms == UNION {Around(s) : s \in Deep(2, {"x", "0", "1"}, {"x"})
                                   \cup Deep(2, {"x"}, {"0", "1"})}

MCOutcomes == [1 .. 4 -> BOOLEAN]
=============================================================================
