---------------------------- MODULE FlowAnalyses ----------------------------
(***************************************************************************)
(* The two analyses of the control flow graph that passes ask for, each to *)
(* its end on the same function: Dominators, then LoopFind.                *)
(***************************************************************************)
EXTENDS Dominators

VARIABLES search, nodes, index, lowlink, calls, tarjan, comps, base2Loop, BB2Base

LF == INSTANCE LoopFind

lfvars == <<search, nodes, index, lowlink, calls, tarjan, comps, base2Loop, BB2Base>>

InitBoth == Init /\ LF!LFInit

FindDominators == stage # "done" /\ Work /\ UNCHANGED lfvars

FindLoops == stage = "done" /\ LF!LFWork /\ UNCHANGED vars

BothStopped == /\ stage = "exit" \/ search \in {"found", "exit"}
               /\ UNCHANGED <<vars, lfvars>>

NextBoth == FindDominators \/ FindLoops \/ BothStopped

\* Each is a loop of the compiler.
SpecBoth == InitBoth /\ [][NextBoth]_<<vars, lfvars>> /\ WF_<<vars, lfvars>>(FindDominators \/ FindLoops)

-----------------------------------------------------------------------------
(* Properties *)

\* The frontiers are where dominance ends, when LoopFind starts.
FrontiersExact == search = "off" => FrontierIsExact

\* What is found in a graph whose cycles are all entered through one block:
\* its natural loops of two blocks and more, each under the block that
\* dominates it, and for each block the base of the innermost loop around it.
\* In every graph, what is left without the bases has no cycle of two blocks.
LoopsAreNatural ==
    search = "found" =>
      /\ \A b \in nodes : \A c \in nodes \ {b} :
           ~(/\ c \in WithinFrom(succ, nodes, b) /\ b \in WithinFrom(succ, nodes, c))
      /\ Reducible(succ, root) =>
           /\ LF!reserved = LoopsOf(succ, root)
           /\ \A h \in LF!reserved :
                base2Loop[h] = NaturalLoop(succ, root, h)
           /\ \A b \in Block :
                LET around == {h \in LF!reserved : b \in base2Loop[h]} IN
                IF around = {} THEN b \notin DOMAIN BB2Base
                ELSE /\ BB2Base[b] \in around
                     /\ \A h \in around : base2Loop[BB2Base[b]] \subseteq base2Loop[h]

\* The parent of a loop, where one is found, is the smallest loop around it,
\* whichever predecessor is asked; and every loop has one to ask.
ParentIsSmallest ==
    search = "found" =>
      \A base \in LF!reserved :
        /\ LF!EntryPreds(base) # {}
        /\ Reducible(succ, root) =>
             \A pred \in LF!EntryPreds(base) :
               LET parent == LF!getParentLoop(base, pred) IN
               parent # {} =>
                 /\ base2Loop[base] \subseteq parent /\ base2Loop[base] # parent
                 /\ \A h \in LF!reserved :
                      base \in base2Loop[h] => h = base \/ parent \subseteq base2Loop[h]

\* LoopFind finds the natural loops, for each block the innermost one, and
\* getParentLoop gives the next loop around, or none.
LoopsFound == LoopsAreNatural /\ ParentIsSmallest

\* The sweeps of Dominators and the rounds of LoopFind come to an end, and
\* neither analysis stops the compiler.
BothTerminate == <>(search = "found")

-----------------------------------------------------------------------------
(* An instance for TLC *)
Small == 1 .. 4

\* Terminators: a return, a jump, a branch.  Nothing jumps to the entry.
Targets == Small \ {root}
Lists == {<<>>} \cup {<<b>> : b \in Targets}
           \cup {<<p[1], p[2]>> : p \in {q \in Targets \X Targets : q[1] # q[2]}}

\* All graphs of four blocks in which every block can be reached, up to the
\* names of blocks: they are numbered in the order they occur in the lists of
\* 1, 2, 3 and so on.
Occurs(g, b, n) == \E a \in 1 .. n : \E m \in DOMAIN g[a] : g[a][m] = b
Numbered(g) ==
    \A b \in Targets : /\ Occurs(g, b, b - 1)
                       /\ \A a \in 1 .. b - 1 : \A m \in DOMAIN g[a] :
                            g[a][m] > b =>
                              Occurs(g, b, a - 1) \/ \E h \in 1 .. m - 1 : g[a][h] = b

\* Loops that need more blocks: two in a row, by themselves and inside of a
\* third; two in one whose ends are one block; three nested.
Larger == { << <<2>>, <<3, 4>>, <<2>>, <<5, 6>>, <<4>>, <<>> >>,
            << <<2>>, <<3, 6>>, <<4>>, <<3, 5>>, <<4, 2>>, <<>> >>,
            << <<2>>, <<3>>, <<2, 4>>, <<5>>, <<4, 6>>, <<2>> >>,
            << <<2>>, <<3, 6>>, <<4, 2>>, <<5, 3>>, <<4>>, <<>> >> }

MCGraphs == {[b \in Block |-> IF b \in Small THEN g[b] ELSE <<>>]
               : g \in {h \in [Small -> Lists] : Numbered(h)}}
            \cup Larger
=============================================================================
