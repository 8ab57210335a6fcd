------------------------------ MODULE Dominators ------------------------------
(***************************************************************************)
(* The pass Dominators for one function: the post order of the control     *)
(* flow graph, immediate dominators by sweeps over the reverse post order  *)
(* until nothing changes, then dominance frontiers and the dominator tree. *)
(*                                                                         *)
(* Every step of the search and of the walks up the tree is a step here,   *)
(* for the loops of the code are where it could fail: intersect climbs     *)
(* from two blocks to their common ancestor through a tree that is not yet *)
(* final, and exits the compiler where a block has no parent.  The order   *)
(* of a block's predecessor list is left open.                             *)
(***************************************************************************)
EXTENDS FlowGraph

CONSTANTS Block, root,
          None,          \* nullptr
          Graphs         \* successor lists: [Block -> Seq(Block)]

ASSUME RootAssumption == root \in Block /\ None \notin Block /\ IsFiniteSet(Block)
ASSUME GraphAssumption == Graphs \subseteq [Block -> Seq(Block)]

\* Nothing jumps to the entry.  Blocks that cannot be reached jump nowhere, since
\* SimplifyCFG has deleted them; a jump from one that it leaves behind makes the
\* frontiers' runner follow a null pointer, but does not disturb the parents.
ASSUME FlowAssumption ==
    \A g \in Graphs : \A b \in Block : /\ SuccsOf(g, b) \subseteq Block \ {root}
                                       /\ SuccsOf(g, b) # {} => b \in Avoiding(g, root, None)

VARIABLES succ,       \* the graph
          stage,      \* "visit", "sweep", "meet", "frontier", "done" or "exit"
          stack,      \* the blocks whose visit has begun and not ended
          visited,
          post,       \* the post order; its reverse is reversePostOrder_
          idom,
          i,          \* blocks of the order left in this sweep
          changed,
          todo,       \* predecessors still to be met with the new parent
          b1, b2,     \* the two fingers; b2 is new_idom when they have met
          DF,         \* dominance frontiers
          domTreeSucc

vars == <<succ, stage, stack, visited, post, idom, i, changed, todo, b1, b2, DF, domTreeSucc>>

order == <<stack, visited, post>>
fingers == <<todo, b1, b2>>
results == <<DF, domTreeSucc>>

-----------------------------------------------------------------------------
Succs(b) == {succ[b][n] : n \in DOMAIN succ[b]}
Preds(b) == {p \in Block : b \in Succs(p)}

\* postOrderID_
PostOrderID(b) == CHOOSE n \in DOMAIN post : post[n] = b

Parent(b) == idom[b]

-----------------------------------------------------------------------------
(* createReversePostOrder *)

\* The visit goes on with the first successor that has not been visited.
Descend ==
    /\ stage = "visit"
    /\ stack # <<>>
    /\ LET b == Head(stack) IN
       \E n \in DOMAIN succ[b] :
          /\ succ[b][n] \notin visited
          /\ \A m \in 1 .. n - 1 : succ[b][m] \in visited
          /\ stack' = <<succ[b][n]>> \o stack
          /\ visited' = visited \cup {succ[b][n]}
    /\ UNCHANGED <<succ, stage, post, idom, i, changed, fingers, results>>

Finish ==
    /\ stage = "visit"
    /\ stack # <<>>
    /\ Succs(Head(stack)) \subseteq visited
    /\ post' = Append(post, Head(stack))
    /\ stack' = Tail(stack)
    /\ UNCHANGED <<succ, stage, visited, idom, i, changed, fingers, results>>

-----------------------------------------------------------------------------
(* createIDom *)

StartIDom ==
    /\ stage = "visit"
    /\ stack = <<>>
    /\ stage' = "sweep"
    /\ idom' = [b \in Block |-> IF b = root THEN root ELSE None]
    /\ i' = Len(post)
    /\ changed' = FALSE
    /\ UNCHANGED <<succ, order, fingers, results>>

\* A block of the sweep: a predecessor that has a parent is the first
\* candidate; the others are to be met with it.
NextBlock ==
    /\ stage = "sweep"
    /\ i > 0
    /\ post[i] # root
    /\ LET known == {p \in Preds(post[i]) : Parent(p) # None} IN
       IF known = {} THEN stage' = "exit" /\ UNCHANGED fingers
       ELSE \E pred \in known : /\ stage' = "meet"
                                /\ b1' = pred /\ b2' = pred
                                /\ todo' = known \ {pred}
    /\ UNCHANGED <<succ, order, idom, i, changed, results>>

SkipRoot == /\ stage = "sweep"
            /\ i > 0
            /\ post[i] = root
            /\ i' = i - 1
            /\ UNCHANGED <<succ, stage, order, idom, changed, fingers, results>>

\* Slip: both fingers climb.
ClimbBothSlip ==
    /\ stage = "meet"
    /\ b1 # b2
    /\ IF Parent(b1) = None \/ Parent(b2) = None THEN stage' = "exit" /\ UNCHANGED fingers
       ELSE b1' = Parent(b1) /\ b2' = Parent(b2) /\ UNCHANGED <<stage, todo>>
    /\ UNCHANGED <<succ, order, idom, i, changed, results>>

\* Slip: the finger on the earlier block climbs.
ClimbSlip ==
    /\ stage = "meet"
    /\ b1 # b2
    /\ IF PostOrderID(b1) > PostOrderID(b2)
       THEN IF Parent(b1) = None THEN stage' = "exit" /\ UNCHANGED fingers
            ELSE b1' = Parent(b1) /\ UNCHANGED <<stage, todo, b2>>
       ELSE IF Parent(b2) = None THEN stage' = "exit" /\ UNCHANGED fingers
            ELSE b2' = Parent(b2) /\ UNCHANGED <<stage, todo, b1>>
    /\ UNCHANGED <<succ, order, idom, i, changed, results>>

\* intersect: the finger on the later block of the reverse post order climbs.
Climb ==
    /\ stage = "meet"
    /\ b1 # b2
    /\ IF PostOrderID(b1) < PostOrderID(b2)
       THEN IF Parent(b1) = None THEN stage' = "exit" /\ UNCHANGED fingers
            ELSE b1' = Parent(b1) /\ UNCHANGED <<stage, todo, b2>>
       ELSE IF Parent(b2) = None THEN stage' = "exit" /\ UNCHANGED fingers
            ELSE b2' = Parent(b2) /\ UNCHANGED <<stage, todo, b1>>
    /\ UNCHANGED <<succ, order, idom, i, changed, results>>

NextPred ==
    /\ stage = "meet"
    /\ b1 = b2
    /\ \E p \in todo : b1' = p /\ todo' = todo \ {p}
    /\ UNCHANGED <<succ, stage, order, idom, i, changed, b2, results>>

SetIDom ==
    /\ stage = "meet"
    /\ b1 = b2
    /\ todo = {}
    /\ idom' = [idom EXCEPT ![post[i]] = b2]
    /\ changed' = (changed \/ Parent(post[i]) # b2)
    /\ i' = i - 1
    /\ stage' = "sweep"
    /\ UNCHANGED <<succ, order, fingers, results>>

\* Slip: one sweep is taken to be enough.
EndSweepSlip ==
    /\ stage = "sweep"
    /\ i = 0
    /\ i' = i /\ stage' = "frontier"
    /\ changed' = FALSE
    /\ UNCHANGED <<succ, order, idom, fingers, results>>

\* Another sweep, unless this one changed nothing.
EndSweep ==
    /\ stage = "sweep"
    /\ i = 0
    /\ IF changed THEN i' = Len(post) /\ stage' = stage
                  ELSE i' = i /\ stage' = "frontier"
    /\ changed' = FALSE
    /\ UNCHANGED <<succ, order, idom, fingers, results>>

-----------------------------------------------------------------------------
(* createDominanceFrontier and createDomTreeSucc *)

\* The blocks the runner passes on its way from r to the parent of b.
Runner(b, r) ==
    LET passed[n \in 0 .. Cardinality(Block)] ==
          [x \in Block |-> IF x = Parent(b) \/ n = 0 THEN {} ELSE {x} \cup passed[n - 1][Parent(x)]]
    IN  passed[Cardinality(Block)][r]

\* Slip: a block is not in its own frontier.
CreateTreesSlip ==
    /\ stage = "frontier"
    /\ DF' = [a \in Block |->
                {b \in Block : \E p \in Preds(b) : a \in Runner(b, p) \ {b}}]
    /\ domTreeSucc' = [a \in Block |-> {b \in Block : Parent(b) = a /\ b # a}]
    /\ stage' = "done"
    /\ UNCHANGED <<succ, order, idom, i, changed, fingers>>

CreateTrees ==
    /\ stage = "frontier"
    /\ DF' = [a \in Block |->
                {b \in Block : /\ Cardinality(Preds(b)) >= 2
                               /\ \E p \in Preds(b) : a \in Runner(b, p)}]
    /\ domTreeSucc' = [a \in Block |-> {b \in Block : Parent(b) = a /\ b # a}]
    /\ stage' = "done"
    /\ UNCHANGED <<succ, order, idom, i, changed, fingers>>

-----------------------------------------------------------------------------
Init == /\ succ \in Graphs
        /\ stage = "visit"
        /\ stack = <<root>> /\ visited = {root} /\ post = <<>>
        /\ idom = [b \in Block |-> None]
        /\ i = 0 /\ changed = FALSE
        /\ todo = {} /\ b1 = root /\ b2 = root
        /\ DF = [b \in Block |-> {}] /\ domTreeSucc = [b \in Block |-> {}]

Stopped == stage \in {"done", "exit"} /\ UNCHANGED vars

Work == \/ Descend \/ Finish
        \/ StartIDom \/ NextBlock \/ SkipRoot \/ Climb \/ NextPred \/ SetIDom \/ EndSweep
        \/ CreateTrees

Next == Work \/ Stopped

\* The pass is a loop of the compiler.
Spec == Init /\ [][Next]_vars /\ WF_vars(Work)

-----------------------------------------------------------------------------
(* Properties *)

TypeOK == /\ succ \in Graphs
          /\ stage \in {"visit", "sweep", "meet", "frontier", "done", "exit"}
          /\ stack \in Seq(Block) /\ visited \subseteq Block /\ post \in Seq(Block)
          /\ idom \in [Block -> Block \cup {None}]
          /\ i \in 0 .. Len(post) /\ changed \in BOOLEAN
          /\ todo \subseteq Block /\ b1 \in Block /\ b2 \in Block
          /\ DF \in [Block -> SUBSET Block]
          /\ domTreeSucc \in [Block -> SUBSET Block]

\* intersect never climbs from a block without a parent, and every block of a
\* sweep has a predecessor the sweep, or an earlier one, has given a parent: the
\* compiler does not exit.
NeverExits == stage # "exit"

Dominates(a, b) == DominatesIn(succ, root, a, b)

\* When the sweeps are over, the parent of a block is its closest strict
\* dominator: every path from the entry passes through it, and it is below all
\* other strict dominators.
IDomIsClosest ==
    stage = "frontier" =>
      \A b \in InUse(succ, root) \ {root} :
        /\ Parent(b) # b /\ Dominates(Parent(b), b)
        /\ \A a \in Block \ {b} : Dominates(a, b) => Dominates(a, Parent(b))

\* During the sweeps the parent of a block is never too far up: what strictly
\* dominates the block dominates its parent as well.
NeverTooFarUp ==
    stage = "sweep" =>
      \A b \in Block \ {root} :
        Parent(b) # None =>
          \A a \in Block \ {b} : Dominates(a, b) => Dominates(a, Parent(b))

\* The frontier of a is where its dominance ends: the blocks it does not
\* strictly dominate although it dominates one of their predecessors.
FrontierIsExact ==
    stage = "done" =>
      \A a \in Block : DF[a] = FrontierOf(succ, root, a)

\* The sweeps come to an end, and with them the pass.
Terminates == <>(stage = "done")
=============================================================================
