---------------------------- MODULE LoopInvariant ----------------------------
(***************************************************************************)
(* The pass LoopInvariant.  From each innermost loop outwards it looks for *)
(* instructions whose operands do not change in the loop and moves them to *)
(* a new block before the loop.  The blocks of a loop are in a set ordered *)
(* by addresses: the order of a sweep over them, and that of the loops, is *)
(* left open.                                                              *)
(*                                                                         *)
(* What the pass does not look at, and what can go wrong by it, is noted   *)
(* in hazards as it happens.                                               *)
(***************************************************************************)
EXTENDS FunctionInline

VARIABLES loops,             \* the loops LoopFind found, base :> [func, set]
          loop,              \* the base of the loop at work, "" between loops
          needDefinedInLoop, \* the instructions of the loop that may not move
          invariant,         \* <<block, instruction>>, in the order found
          sweep,             \* the blocks left in this sweep, and whether it changed anything
          hazards,           \* kinds of move the pass does not guard against
          fault              \* "none", or "exit" when the compiler has stopped

livars == <<loops, loop, needDefinedInLoop, invariant, sweep>>

LoopsIn(Q) ==
    LET headers(f) == LoopsOf(FlowOf(Q, f), Entry(Q, f))
        own == {f \in Functions(Q) : ~External(Q, f)}
        all == UNION {{<<f, h>> : h \in headers(f)} : f \in own}
    IN  [h \in {fh[2] : fh \in all} |->
           LET f == (CHOOSE fh \in all : fh[2] = h)[1]
           IN  [func |-> f, set |-> NaturalLoop(FlowOf(Q, f), Entry(Q, f), h)]]

\* isBaseLoop: no loop has its base in another block of this one.
IsBaseLoop(h) == loops[h].set \cap DOMAIN loops = {h}

\* getBaseLoop: the base of the innermost of the loops found around a block.
BaseLoop(b) ==
    LET around == {h \in DOMAIN loops : b \in loops[h].set}
    IN  IF around = {} THEN ""
        ELSE CHOOSE h \in around : \A o \in around : loops[h].set \subseteq loops[o].set

\* getParentLoop asks the first predecessor outside of the loop.  The block
\* that was put before a loop is in none: behind it there is no parent.
ParentLoop(h) ==
    LET outside == SelectSeq(Preds(P, loops[h].func, h), LAMBDA p : p \notin loops[h].set)
        o == BaseLoop(Head(outside))
    IN  IF o # "" /\ h \in loops[o].set THEN o ELSE ""

-----------------------------------------------------------------------------
(* findInvariants *)

Here == loops[loop]
InLoop == UNION {ToSet(P.code[b]) : b \in Here.set}
DefOf(v) == CHOOSE i \in InstsOf(P, Here.func) : V(i.id) = v
IsInst(v) == IsValue(v) /\ \E i \in InstsOf(P, Here.func) : V(i.id) = v

\* Down the GEPs to the pointer a load or store goes out from.
RECURSIVE Root(_)
Root(ptr) == IF IsInst(ptr) /\ DefOf(ptr).op = "gep" THEN Root(DefOf(ptr).ops[1]) ELSE ptr

Fixed == {"phi", "lt", "le", "gt", "ge", "eq", "ne", "br", "call", "ret", "alloca", "allocaInit"}

\* Slip: only a store through the same pointer is seen.
LoadStaysSlip(i, need) == \E s \in need : IsA("store", s) /\ s.ops[2] = i.ops[1]

\* A load stays when a store that stays may write to its variable; what a call
\* writes is not looked at.
LoadStays(i, need) ==
    \E s \in need : IsA("store", s) /\ Root(s.ops[2]) = Root(i.ops[1])

AllInvariant(i, need) ==
    /\ \A v \in ToSet(i.ops) : ~\E d \in need : V(d.id) = v
    /\ IsA("load", i) => ~LoadStays(i, need)

Visit(acc, b) ==
    FoldLeft(LAMBDA a, i :
               IF i.op \notin Fixed /\ i \in a.need /\ AllInvariant(i, a.need)
               THEN [need |-> a.need \ {i}, found |-> Append(a.found, <<b, i>>)]
               ELSE a,
             acc, P.code[b])

BeginLoop(h) ==
    /\ loop' = h
    /\ invariant' = <<>>
    /\ needDefinedInLoop' =
         IF h = "" THEN {} ELSE UNION {ToSet(P.code[b]) : b \in loops[h].set}
    /\ sweep' = IF h = "" THEN [blocks |-> {}, change |-> FALSE]
                ELSE [blocks |-> loops[h].set, change |-> FALSE]

FindLoops ==
    /\ At("invariant", "begin")
    /\ loops' = LoopsIn(P)
    /\ phase' = "loops"
    /\ left' = SetToSeq({h \in DOMAIN LoopsIn(P) :
                           LoopsIn(P)[h].set \cap DOMAIN LoopsIn(P) = {h}})
    /\ UNCHANGED <<P, level, todo, fivars, loop, needDefinedInLoop, invariant, sweep, hazards, fault>>

TakeBaseLoop ==
    /\ At("invariant", "loops")
    /\ loop = "" /\ fault = "none"
    /\ \E n \in DOMAIN left : BeginLoop(left[n]) /\ left' = RemoveAt(left, n)
    /\ UNCHANGED <<P, level, todo, phase, fivars, loops, hazards, fault>>

findInvariants ==
    /\ At("invariant", "loops")
    /\ loop # ""
    /\ \E b \in sweep.blocks :
         LET acc == Visit([need |-> needDefinedInLoop, found |-> invariant], b)
             change == sweep.change \/ acc.found # invariant
             last == sweep.blocks = {b}
         IN  /\ needDefinedInLoop' = acc.need
             /\ invariant' = acc.found
             /\ sweep' = IF last /\ change THEN [blocks |-> Here.set, change |-> FALSE]
                         ELSE [blocks |-> sweep.blocks \ {b}, change |-> change]
    /\ UNCHANGED <<P, level, todo, phase, left, fivars, loops, loop, hazards, fault>>

-----------------------------------------------------------------------------
(* moveInvariantsOut *)

Area == "area_" \o loop
Moved == {invariant[n][2] : n \in DOMAIN invariant}

\* A phi of the base with one pair from outside has the new block for its
\* label, and so has every pair with the same value: the use of the old label
\* a pair from inside should give back does not exist, and the compiler stops.
OutPairs(i) == {n \in DOMAIN i.to : i.to[n] \notin Here.set}
Retargets(i) == {n \in DOMAIN i.to : i.ops[n] = i.ops[CHOOSE o \in OutPairs(i) : TRUE] /\ IsValue(i.ops[n])}
                  \cup OutPairs(i)
Stops(i) == Cardinality(OutPairs(i)) = 1 /\ Retargets(i) # OutPairs(i)

Merged(i) == Copy(i.id, "out")

\* Slip: the phi keeps the labels of the blocks that now go to the new one.
PhiOfBaseSlip(i) == i

\* With more pairs from outside a phi of the new block takes them.
PhiOfBase(i) ==
    IF ~IsA("phi", i) \/ OutPairs(i) = {} THEN i
    ELSE IF Cardinality(OutPairs(i)) = 1
    THEN [i EXCEPT !.to = [n \in DOMAIN @ |-> IF n \in OutPairs(i) THEN Area ELSE @[n]]]
    ELSE LET inside == SetToSortSeq(DOMAIN i.to \ OutPairs(i), <)
         IN  [i EXCEPT !.ops = [n \in DOMAIN inside |-> @[inside[n]]] \o <<V(Merged(i))>>,
                       !.to = [n \in DOMAIN inside |-> @[inside[n]]] \o <<Area>>]

NewPhis ==
    LET phis == SelectSeq(P.code[loop], LAMBDA i : IsA("phi", i) /\ Cardinality(OutPairs(i)) > 1)
        Out(i) == SetToSortSeq(OutPairs(i), <)
        New(i) == Phi(Merged(i), [n \in DOMAIN Out(i) |-> i.ops[Out(i)[n]]],
                      [n \in DOMAIN Out(i) |-> i.to[Out(i)[n]]])
    IN  [n \in DOMAIN phis |-> New(phis[n])]

Retarget(i) == [i EXCEPT !.to = [n \in DOMAIN @ |-> IF @[n] = loop THEN Area ELSE @[n]]]

Hoisted ==
    LET f == Here.func
        outside == ToSet(Preds(P, f, loop)) \ Here.set
        at == CHOOSE m \in DOMAIN P.order[f] : P.order[f][m] = loop
        newBB == NewPhis \o [n \in DOMAIN invariant |-> invariant[n][2]] \o <<Br(loop)>>
        Kept(b) == SelectSeq(P.code[b], LAMBDA i : i \notin Moved)
        Code(b) == CASE b = loop -> [k \in DOMAIN Kept(b) |-> PhiOfBase(Kept(b)[k])]
                     [] b \in Here.set -> Kept(b)
                     [] b \in outside -> Append(Front(P.code[b]), Retarget(Last(P.code[b])))
                     [] OTHER -> P.code[b]
    IN  [P EXCEPT !.order[f] = InsertAt(@, at, Area),
                  !.code = (Area :> newBB) @@ [b \in DOMAIN @ |-> Code(b)],
                  !.nest = With(@, Area, @[loop])]

\* A call in the loop of a function that has stores.
Writes(i) == /\ IsA("call", i) /\ ~External(P, i.fn)
             /\ \E s \in InstsOf(P, i.fn) : s.op \in {"store", "call"}

\* Another loop's new block lies in this loop, and a moved instruction uses
\* what is computed there.
FromArea(i) ==
    \E v \in ToSet(i.ops) :
      /\ IsInst(v)
      /\ DefOf(v) \notin Moved
      /\ LET d == BlockOf(P, Here.func, v[2]) IN
         /\ d \notin Here.set
         /\ ~DominatesIn(FlowOf(P, Here.func), Entry(P, Here.func), d, loop)

HazardsHere ==
    (IF \E i \in Moved : IsA("store", i) THEN {"store"} ELSE {})
      \cup (IF \E i \in Moved : IsA("load", i) /\ \E c \in InLoop : Writes(c) THEN {"call"} ELSE {})
      \cup (IF \E i \in Moved : FromArea(i) THEN {"area"} ELSE {})

EndOfSweeps == sweep.blocks = {} /\ ~sweep.change

moveInvariantsOut ==
    /\ At("invariant", "loops")
    /\ loop # "" /\ EndOfSweeps /\ invariant # <<>>
    /\ hazards' = hazards \cup HazardsHere
    /\ IF \E i \in ToSet(P.code[loop]) : IsA("phi", i) /\ Stops(i)
       THEN fault' = "exit" /\ BeginLoop("") /\ UNCHANGED <<P, todo, phase>>
       ELSE P' = Hoisted /\ BeginLoop("") /\ UNCHANGED <<todo, phase, fault>>
    /\ UNCHANGED <<level, left, fivars, loops>>

NextLoop ==
    /\ At("invariant", "loops")
    /\ loop # "" /\ EndOfSweeps /\ invariant = <<>>
    /\ BeginLoop(ParentLoop(loop))
    /\ UNCHANGED <<P, level, todo, phase, left, fivars, loops, hazards, fault>>

LoopsDone ==
    /\ At("invariant", "loops")
    /\ loop = "" /\ left = <<>> /\ fault = "none"
    /\ phase' = "end"
    /\ UNCHANGED <<P, level, todo, left, fivars, livars, hazards, fault>>

LoopInvariantStep == FindLoops \/ TakeBaseLoop \/ findInvariants \/ moveInvariantsOut
                       \/ NextLoop \/ LoopsDone
=============================================================================
