------------------------------ MODULE LoopFind ------------------------------
(***************************************************************************)
(* The analysis LoopFind for one function: Tarjan's search for strongly    *)
(* connected components, one loop for each component of two blocks and     *)
(* more, and the search again without the bases of the loops found, until  *)
(* no component is left; then the questions LoopInvariant asks of it.      *)
(*                                                                         *)
(* Nodes, edges and components sit in sets ordered by addresses, so every  *)
(* iteration over one of them is left open, step by step.                  *)
(***************************************************************************)
EXTENDS FlowGraph

CONSTANTS Block, root

VARIABLES succ,          \* the graph
          search,        \* "off", "components", "bases", "found" or "exit"
          nodes,         \* the blocks the search still walks
          index, lowlink,
          calls,         \* traverse: its node and the successors left, innermost first
          tarjan,        \* the search's own stack, top first
          comps,         \* the components of this round, still to be handled
          base2Loop,     \* base to loop; loop2Base is its inverse
          BB2Base

lfvars == <<search, nodes, index, lowlink, calls, tarjan, comps, base2Loop, BB2Base>>

Unset == -1
reserved == DOMAIN base2Loop
onStack(n) == \E k \in DOMAIN tarjan : tarjan[k] = n
CFGsuccs(n) == SuccsOf(succ, n) \cap nodes
CFGpreds(n) == PredsOf(succ, n) \cap nodes
Unindexed == {n \in nodes : index[n] = Unset}

-----------------------------------------------------------------------------
LFInit == /\ search = "off" /\ nodes = {} /\ calls = <<>> /\ tarjan = <<>>
          /\ index = [b \in Block |-> Unset] /\ lowlink = [b \in Block |-> Unset]
          /\ comps = {} /\ base2Loop = <<>> /\ BB2Base = <<>>

buildCFG == /\ search = "off"
            /\ search' = "components"
            /\ nodes' = InUse(succ, root)
            /\ UNCHANGED <<index, lowlink, calls, tarjan, comps, base2Loop, BB2Base>>

\* traverse(n): the node gets the next index and goes on the stack.
Enter(n) ==
    LET indexCount == Cardinality(nodes \ Unindexed)
    IN  /\ index' = [index EXCEPT ![n] = indexCount]
        /\ lowlink' = [lowlink EXCEPT ![n] = indexCount]
        /\ tarjan' = <<n>> \o tarjan

stronglyConnComponents ==
    /\ search = "components"
    /\ calls = <<>>
    /\ \E n \in Unindexed : Enter(n) /\ calls' = << [node |-> n, left |-> CFGsuccs(n)] >>
    /\ UNCHANGED <<search, nodes, comps, base2Loop, BB2Base>>

Lower(n, to) == lowlink' = [lowlink EXCEPT ![n] = IF to < @ THEN to ELSE @]

\* traverse: an edge to a new node is followed, one to a node on the stack
\* lowers the link.
Edge ==
    /\ search = "components"
    /\ calls # <<>>
    /\ LET n == Head(calls).node
           rest(su) == << [node |-> n, left |-> Head(calls).left \ {su}] >> \o Tail(calls)
       IN \E su \in Head(calls).left :
            \/ /\ index[su] = Unset
               /\ Enter(su)
               /\ calls' = << [node |-> su, left |-> CFGsuccs(su)] >> \o rest(su)
            \/ /\ index[su] # Unset
               /\ IF onStack(su) THEN Lower(n, index[su]) ELSE UNCHANGED lowlink
               /\ calls' = rest(su)
               /\ UNCHANGED <<index, tarjan>>
    /\ UNCHANGED <<search, nodes, comps, base2Loop, BB2Base>>

\* traverse returns: a node that is its own lowlink takes its component off
\* the stack; the caller's link is lowered to the one reached from here.
Return ==
    /\ search = "components"
    /\ calls # <<>> /\ Head(calls).left = {}
    /\ LET n == Head(calls).node
           depth == CHOOSE k \in DOMAIN tarjan : tarjan[k] = n
           set == {tarjan[k] : k \in 1 .. depth}
       IN IF index[n] = lowlink[n]
          THEN /\ tarjan' = SubSeq(tarjan, depth + 1, Len(tarjan))
               /\ comps' = IF Cardinality(set) = 1 THEN comps ELSE comps \cup {set}
          ELSE UNCHANGED <<tarjan, comps>>
    /\ calls' = Tail(calls)
    /\ IF Tail(calls) = <<>> THEN UNCHANGED lowlink
       ELSE Lower(Head(Tail(calls)).node, lowlink[Head(calls).node])
    /\ UNCHANGED <<search, nodes, index, base2Loop, BB2Base>>

EndSearch ==
    /\ search = "components"
    /\ calls = <<>> /\ Unindexed = {}
    /\ search' = IF comps = {} THEN "found" ELSE "bases"
    /\ UNCHANGED <<nodes, index, lowlink, calls, tarjan, comps, base2Loop, BB2Base>>

-----------------------------------------------------------------------------
\* findLoopBase: a block entered from outside the set; where only bases taken
\* out of the graph lead into it, one of the blocks they lead to.  Of several,
\* the last in the order of the set is taken.
Entered(set) == {n \in set : CFGpreds(n) \ set # {}}

findLoopBase(set) ==
    IF Entered(set) # {} THEN Entered(set)
    ELSE set \cap UNION {SuccsOf(succ, res) : res \in reserved}

\* The table with the value stored for all of the keys.
Stored(table, keys, value) ==
    [x \in DOMAIN table \cup keys |-> IF x \in keys THEN value ELSE table[x]]

\* Slip: the base of the outer loop is kept for the blocks of the inner one.
StoreLoopSlip(set, base) ==
    /\ base2Loop' = Stored(base2Loop, {base}, set)
    /\ BB2Base' = Stored(BB2Base, set \ DOMAIN BB2Base, base)

\* The loop is recorded; of nested loops the inner ones are found later, and
\* overwrite the base of their blocks.
StoreLoop(set, base) ==
    /\ base2Loop' = Stored(base2Loop, {base}, set)
    /\ BB2Base' = Stored(BB2Base, set, base)

TakeLoop ==
    /\ search = "bases"
    /\ \E set \in comps :
         IF findLoopBase(set) = {}
         THEN search' = "exit" /\ UNCHANGED <<nodes, comps, base2Loop, BB2Base>>
         ELSE \E base \in findLoopBase(set) :
                /\ StoreLoop(set, base)
                /\ nodes' = nodes \ {base}
                /\ comps' = comps \ {set}
                /\ UNCHANGED search
    /\ UNCHANGED <<index, lowlink, calls, tarjan>>

NextRound ==
    /\ search = "bases"
    /\ comps = {}
    /\ search' = "components"
    /\ index' = [b \in Block |-> Unset] /\ lowlink' = [b \in Block |-> Unset]
    /\ UNCHANGED <<nodes, calls, tarjan, comps, base2Loop, BB2Base>>

LFWork == \/ buildCFG \/ stronglyConnComponents \/ Edge \/ Return \/ EndSearch
          \/ TakeLoop \/ NextRound

-----------------------------------------------------------------------------
(* The questions *)

getBaseLoop(b) == IF b \in DOMAIN BB2Base THEN base2Loop[BB2Base[b]] ELSE {}

\* The loop around the loop of base, asked of a predecessor outside of it; a
\* predecessor in a loop that does not hold the base stands for no loop.
getParentLoop(base, pred) ==
    IF base \in getBaseLoop(pred) THEN getBaseLoop(pred) ELSE {}

EntryPreds(base) == PredsOf(succ, base) \ base2Loop[base]

isBaseLoop(base) == base2Loop[base] \cap DOMAIN base2Loop = {base}

-----------------------------------------------------------------------------
(* Properties *)

LFTypeOK ==
    /\ search \in {"off", "components", "bases", "found", "exit"}
    /\ nodes \subseteq Block /\ comps \subseteq SUBSET Block
    /\ tarjan \in Seq(Block)
    /\ reserved \subseteq Block /\ DOMAIN BB2Base \subseteq Block
=============================================================================
