------------------------------ MODULE FlowGraph ------------------------------
(***************************************************************************)
(* Dominance in a control flow graph, by what paths do: the reference the  *)
(* pass Dominators is held against, and what the passes after it may rely  *)
(* on.  A graph maps each block to the list of its successors.             *)
(***************************************************************************)
EXTENDS Integers, Sequences, FiniteSets

SuccsOf(g, b) == {g[b][n] : n \in DOMAIN g[b]}
PredsOf(g, b) == {p \in DOMAIN g : b \in SuccsOf(g, p)}

\* The blocks of the function: a graph may leave others unused.
InUse(g, r) == {r} \cup UNION {SuccsOf(g, b) : b \in DOMAIN g}

\* What can be reached from r without passing through a, in n steps and fewer.
ReachedAvoiding(g, r, a) ==
    LET reached[n \in 0 .. Cardinality(DOMAIN g)] ==
          IF n = 0 THEN {r} \ {a}
          ELSE LET before == reached[n - 1]
               IN  before \cup UNION {SuccsOf(g, b) \ {a} : b \in before}
    IN  reached

\* The blocks that can be reached from r without passing through a.
Avoiding(g, r, a) == ReachedAvoiding(g, r, a)[Cardinality(DOMAIN g)]

DominatesIn(g, r, a, b) == b \notin Avoiding(g, r, a)

\* The closest strict dominator of b.
ClosestDominator(g, r, b) ==
    CHOOSE a \in DOMAIN g \ {b} :
      /\ DominatesIn(g, r, a, b)
      /\ \A c \in DOMAIN g \ {b} : DominatesIn(g, r, c, b) => DominatesIn(g, r, c, a)

\* Where the dominance of a ends.
FrontierOf(g, r, a) ==
    {b \in DOMAIN g : /\ \E p \in PredsOf(g, b) : DominatesIn(g, r, a, p)
                      /\ a = b \/ ~DominatesIn(g, r, a, b)}

\* What b reaches by edges inside of a set of blocks, b itself only by a cycle.
WithinFrom(g, set, b) ==
    LET reached[n \in 0 .. Cardinality(set)] ==
          IF n = 0 THEN SuccsOf(g, b) \cap set
          ELSE LET before == reached[n - 1]
               IN  before \cup (set \cap UNION {SuccsOf(g, c) : c \in before})
    IN  reached[Cardinality(set)]

\* The edges back to a block that dominates their source, and the graphs that
\* have no cycle without one.
Latches(g, r, h) == {u \in PredsOf(g, h) : DominatesIn(g, r, h, u)}

Reducible(g, r) ==
    LET forward == [b \in DOMAIN g |->
                      [n \in {m \in DOMAIN g[b] : ~DominatesIn(g, r, g[b][m], b)} |-> g[b][n]]]
    IN  \A b \in DOMAIN g : b \notin WithinFrom(forward, DOMAIN g, b)

\* The natural loop of h: what reaches an edge back to h without passing h.
NaturalLoop(g, r, h) ==
    {h} \cup {b \in DOMAIN g \ {h} : Avoiding(g, b, h) \cap Latches(g, r, h) # {}}

\* The headers of the loops that have more than one block.
LoopsOf(g, r) ==
    {h \in DOMAIN g : Latches(g, r, h) # {} /\ NaturalLoop(g, r, h) # {h}}
=============================================================================
