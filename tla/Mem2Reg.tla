------------------------------- MODULE Mem2Reg -------------------------------
(***************************************************************************)
(* The pass Mem2Reg for one function, and the function run before and      *)
(* after it side by side.                                                  *)
(*                                                                         *)
(* GenPhi gives a variable a phi in every block of the iterated dominance  *)
(* frontier of its stores.  ReName walks the dominator tree with a stack   *)
(* of values per variable, newest_live_var: a load is replaced by the top  *)
(* of the stack, a store pushes its operand, and the phis of a successor   *)
(* get the top for the edge.                                               *)
(*                                                                         *)
(* A function has succ, its flow graph, blocks numbered from the entry, 1, *)
(* and code, for each block the loads and stores of its scalar variables   *)
(* (the others, of globals and array elements, the pass leaves alone).  A  *)
(* load names its own value; a store has a constant or a load's value for  *)
(* operand.  Dominators has been run before.                               *)
(***************************************************************************)
EXTENDS FlowGraph, SequencesExt

CONSTANTS Var, Const, LoadId, Uninit,
          Functions       \* records [succ, code]

Instruction == [isStore : BOOLEAN, var : Var, val : Const \cup LoadId]
Load(x, l) == [isStore |-> FALSE, var |-> x, val |-> l]
Store(x, v) == [isStore |-> TRUE, var |-> x, val |-> v]
Phi(b, x) == <<"phi", b, x>>

ASSUME NameAssumption == /\ Const \cap LoadId = {} /\ Uninit \notin Const \cup LoadId
                         /\ Var \cap (Const \cup LoadId) = {}

\* Instruction i of block c comes before instruction k of block b on every path.
Precedes(g, c, i, b, k) == IF c = b THEN i < k ELSE DominatesIn(g.succ, 1, c, b)

\* Every block can be reached, SimplifyCFG having deleted the others; a load names
\* one value, and what is stored is a constant or has been loaded: the function is
\* in SSA form but for its variables.
ASSUME FunctionAssumption ==
    \A g \in Functions :
      LET Loads(b) == {i \in DOMAIN g.code[b] : ~g.code[b][i].isStore} IN
      /\ g.succ \in Seq(Seq(Nat)) /\ g.code \in Seq(Seq(Instruction))
      /\ Len(g.succ) > 0 /\ Len(g.code) = Len(g.succ)
      /\ \A b \in DOMAIN g.succ : /\ SuccsOf(g.succ, b) \subseteq DOMAIN g.succ
                                  /\ b \in Avoiding(g.succ, 1, 0)
      /\ \A b \in DOMAIN g.succ : \A x \in Var : Phi(b, x) \notin Const \cup LoadId \cup {Uninit}
      /\ \A b, c \in DOMAIN g.code : \A i \in Loads(b) : \A j \in Loads(c) :
           g.code[b][i].val = g.code[c][j].val => b = c /\ i = j
      /\ \A b \in DOMAIN g.code : \A i \in Loads(b) : g.code[b][i].val \in LoadId
      /\ \A b \in DOMAIN g.code : \A i \in DOMAIN g.code[b] \ Loads(b) :
           g.code[b][i].val \in LoadId =>
             \E c \in DOMAIN g.code : \E j \in Loads(c) :
               g.code[c][j].val = g.code[b][i].val /\ Precedes(g, c, j, b, i)

VARIABLES f,
          stage,        \* "genphi", "rename" or "run"
          phis,         \* [block -> the variables it has a phi of]
          walk,         \* the calls of ReName to come, and those to be ended
          newest_live_var,
          replaced,     \* what each load has been replaced by
          params,       \* for a block, a variable and a predecessor, the operand
          bb, k,        \* the run: the block and the instruction
          mem,          \* what each variable contains,
          loaded,       \* each load has read,
          ssa           \* and each phi holds

vars == <<f, stage, phis, walk, newest_live_var, replaced, params, bb, k, mem, loaded, ssa>>

run == <<bb, k, mem, loaded, ssa>>

Blocks == DOMAIN f.succ
IDom(b) == ClosestDominator(f.succ, 1, b)
DomTreeSucc(b) == {c \in Blocks \ {1} : IDom(c) = b}
DF(b) == FrontierOf(f.succ, 1, b)

Phis == {Phi(b, x) : b \in Blocks, x \in Var}

-----------------------------------------------------------------------------
(* GenPhi *)

Stores(b, x) == \E i \in DOMAIN f.code[b] : f.code[b][i].isStore /\ f.code[b][i].var = x

\* A variable is global when it is stored and the operand of the store is not
\* among the variables the block has stored to: that is, when it is stored.
Global(x) == \E b \in Blocks : \E i \in DOMAIN f.code[b] :
               /\ f.code[b][i].isStore /\ f.code[b][i].var = x
               /\ f.code[b][i].val \notin
                    {f.code[b][j].var : j \in {h \in 1 .. i - 1 : f.code[b][h].isStore}}

\* Slip: a block with a phi is not a block with a definition.
PhiBlocksSlip(x) == UNION {DF(b) : b \in {c \in Blocks : Stores(c, x)}}

\* The work list starts with the blocks that store x; a block that gets a phi
\* is put at its end.
PhiBlocks(x) ==
    LET dominance_frontier == [b \in Blocks |-> DF(b)]
        defs == {b \in Blocks : Stores(b, x)}
        work_list[n \in 0 .. Len(f.succ)] ==
          IF n = 0 THEN defs
          ELSE LET before == work_list[n - 1]
               IN  before \cup UNION {dominance_frontier[b] : b \in before}
    IN  UNION {dominance_frontier[b] : b \in work_list[Len(f.succ)]}

GenPhi ==
    /\ stage = "genphi"
    /\ LET blocks == [x \in Var |-> IF Global(x) THEN PhiBlocks(x) ELSE {}]
       IN  phis' = [b \in Blocks |-> {x \in Var : b \in blocks[x]}]
    /\ walk' = <<[call |-> TRUE, block |-> 1]>>
    /\ stage' = "rename"
    /\ UNCHANGED <<f, newest_live_var, replaced, params, run>>

-----------------------------------------------------------------------------
(* ReName *)

Pushed(newest, x, v) == [newest EXCEPT ![x] = Append(@, v)]

\* The operand of a store: a load has been replaced wherever it was used.
Operand(rep, v) == IF v \in LoadId THEN rep[v] ELSE v

\* Renaming a load or a store.  A load with nothing on the stack comes before
\* any assignment; what its uses get is not modelled.
Renamed(st, inst) ==
    IF inst.isStore
    THEN [st EXCEPT !.newest = Pushed(st.newest, inst.var, Operand(st.rep, inst.val))]
    ELSE IF st.newest[inst.var] = <<>> THEN st
         ELSE [st EXCEPT !.rep[inst.val] = Last(st.newest[inst.var])]

AfterPhis(b) ==
    [x \in Var |-> IF x \in phis[b] THEN Append(newest_live_var[x], Phi(b, x))
                   ELSE newest_live_var[x]]

\* The children in the dominator tree, in any order.
Calls(b) == {[n \in DOMAIN o |-> [call |-> TRUE, block |-> o[n]]] :
               o \in SetToSeqs(DomTreeSucc(b))}

ReName ==
    /\ stage = "rename"
    /\ walk # <<>> /\ Head(walk).call
    /\ LET b  == Head(walk).block
           st == FoldLeft(Renamed, [newest |-> AfterPhis(b), rep |-> replaced], f.code[b])
       IN  /\ newest_live_var' = st.newest
           /\ replaced' = st.rep
           /\ params' = [p \in DOMAIN params |->
                           IF /\ p[3] = b /\ p[1] \in SuccsOf(f.succ, b)
                              /\ p[2] \in phis[p[1]] /\ st.newest[p[2]] # <<>>
                           THEN Last(st.newest[p[2]]) ELSE params[p]]
           /\ \E calls \in Calls(b) :
                walk' = calls \o <<[call |-> FALSE, block |-> b]>> \o Tail(walk)
    /\ UNCHANGED <<f, stage, phis, run>>

\* How many values the block pushed for x.
Pushes(b, x) ==
    Cardinality({i \in DOMAIN f.code[b] : f.code[b][i].isStore /\ f.code[b][i].var = x})
      + (IF x \in phis[b] THEN 1 ELSE 0)

\* Slip: phis are not popped.
EndReNameSlip ==
    /\ stage = "rename"
    /\ walk # <<>> /\ ~Head(walk).call
    /\ LET b == Head(walk).block IN
       newest_live_var' = [x \in Var |->
         SubSeq(newest_live_var[x], 1, Len(newest_live_var[x]) - Pushes(b, x)
                                         + (IF x \in phis[b] THEN 1 ELSE 0))]
    /\ walk' = Tail(walk)
    /\ UNCHANGED <<f, stage, phis, replaced, params, run>>

EndReName ==
    /\ stage = "rename"
    /\ walk # <<>> /\ ~Head(walk).call
    /\ LET b == Head(walk).block IN
       newest_live_var' = [x \in Var |->
         SubSeq(newest_live_var[x], 1, Len(newest_live_var[x]) - Pushes(b, x))]
    /\ walk' = Tail(walk)
    /\ UNCHANGED <<f, stage, phis, replaced, params, run>>

StartRun ==
    /\ stage = "rename"
    /\ walk = <<>>
    /\ stage' = "run"
    /\ UNCHANGED <<f, phis, walk, newest_live_var, replaced, params, run>>

-----------------------------------------------------------------------------
(* The function at run time, with its variables and with its phis *)

\* What a value is.
Content(v) == CASE v \in Const -> v
                [] v \in DOMAIN ssa -> ssa[v]
                [] OTHER -> Uninit

Execute ==
    /\ stage = "run"
    /\ k <= Len(f.code[bb])
    /\ LET inst == f.code[bb][k] IN
       IF inst.isStore
       THEN /\ mem' = [mem EXCEPT ![inst.var] =
                         IF inst.val \in LoadId THEN loaded[inst.val] ELSE inst.val]
            /\ UNCHANGED loaded
       ELSE /\ loaded' = [loaded EXCEPT ![inst.val] = mem[inst.var]]
            /\ UNCHANGED mem
    /\ k' = k + 1
    /\ UNCHANGED <<f, stage, phis, walk, newest_live_var, replaced, params, bb, ssa>>

Branch(s) ==
    /\ stage = "run"
    /\ k > Len(f.code[bb])
    /\ s \in SuccsOf(f.succ, bb)
    /\ ssa' = [v \in DOMAIN ssa |-> IF v[2] = s /\ v[3] \in phis[s]
                                    THEN Content(params[<<s, v[3], bb>>]) ELSE ssa[v]]
    /\ bb' = s
    /\ k' = 1
    /\ UNCHANGED <<f, stage, phis, walk, newest_live_var, replaced, params, mem, loaded>>

Return == stage = "run" /\ k > Len(f.code[bb]) /\ f.succ[bb] = <<>> /\ UNCHANGED vars

-----------------------------------------------------------------------------
Init == /\ f \in Functions
        /\ stage = "genphi"
        /\ phis = [b \in Blocks |-> {}]
        /\ walk = <<>>
        /\ newest_live_var = [x \in Var |-> <<>>]
        /\ replaced = [l \in LoadId |-> Uninit]
        /\ params = [p \in Blocks \X Var \X Blocks |-> Uninit]
        /\ bb = 1 /\ k = 1
        /\ mem = [x \in Var |-> Uninit]
        /\ loaded = [l \in LoadId |-> Uninit]
        /\ ssa = [v \in Phis |-> Uninit]

Next == \/ GenPhi \/ ReName \/ EndReName \/ StartRun
        \/ Execute \/ (\E s \in Blocks : Branch(s)) \/ Return

Spec == Init /\ [][Next]_vars

-----------------------------------------------------------------------------
(* Properties *)

\* Along every path the value a load was replaced by is what the load would
\* have read, wherever the variable has been assigned: phis are where paths
\* with different assignments meet, each has the operand of each edge, and all
\* the phis of a block change at once.
LoadsAgree ==
    stage = "run" /\ k <= Len(f.code[bb]) =>
      LET inst == f.code[bb][k] IN
      ~inst.isStore /\ mem[inst.var] # Uninit => Content(replaced[inst.val]) = mem[inst.var]

\* What a block pushes is on the stacks while the blocks it dominates are
\* renamed and no longer: a value on a stack is of a block on the way down
\* from the root, and in the end nothing is left.
StacksFollowTree ==
    LET open == {walk[n].block : n \in {m \in DOMAIN walk : ~walk[m].call}} IN
    \A x \in Var : Len(newest_live_var[x]) =
      FoldSet(LAMBDA b, n : n + Pushes(b, x), 0, open)

-----------------------------------------------------------------------------
(* An instance for TLC *)
CONSTANTS v1, v2

\* A branch that meets again, loops that test first and last, a loop around a
\* branch, a loop with two entries.
Graphs == {<<<<2, 3>>, <<4>>, <<4>>, <<>>>>,
           <<<<2>>, <<3, 4>>, <<2>>, <<>>>>,
           <<<<2>>, <<2, 3>>, <<4>>, <<>>>>,
           <<<<2>>, <<3, 4>>, <<4>>, <<2>>>>,
           <<<<2, 3>>, <<3, 4>>, <<2>>, <<>>>>}

MCUninit == <<"uninit">>
C(n) == <<"const", n>>
L(n) == <<"load", n>>
MCConst == {C(n) : n \in 0 .. 4}
MCLoadId == {L(n) : n \in 2 .. 7}

\* What a block may do: assign, copy, use, exchange.
Codes(b) == {<<>>, <<Store(v1, C(b))>>, <<Load(v1, L(b)), Store(v2, L(b))>>,
             <<Load(v2, L(b))>>,
             <<Load(v1, L(b)), Load(v2, L(b + 3)),
               Store(v1, L(b + 3)), Store(v2, L(b))>>}
Starts == {<<Store(v1, C(1))>>, <<Store(v1, C(1)), Store(v2, C(0))>>}

MCFunctions == {[succ |-> g, code |-> <<s, a, b, c>>] :
                  g \in Graphs, s \in Starts, a \in Codes(2), b \in Codes(3), c \in Codes(4)}
=============================================================================
