-------------------------- MODULE FlowAnalysesProofs --------------------------
(***************************************************************************)
(* What Dominators and LoopFind find, for any flow graph.                  *)
(***************************************************************************)
EXTENDS FlowAnalyses, FlowGraphProofs, SequenceTheorems

-----------------------------------------------------------------------------
(***************************************************************************)
(* createIDom never leaves by one of its exits, for any graph: intersect   *)
(* always finds a parent to climb to and every block of a sweep has a      *)
(* predecessor with a parent.                                              *)
(*                                                                         *)
(* The visit leaves every block but the root before one of its             *)
(* predecessors.  Parents come later in the post order than their          *)
(* children, so the finger that climbs is never at the root, and the       *)
(* parent found for a block is later than the block because one of the     *)
(* predecessors met is.                                                    *)
(*                                                                         *)
(* What it finds is the closest dominator.  A finger never climbs past a   *)
(* dominator of the block handled, since dominators come later in the post *)
(* order than what they dominate; and when a sweep has changed nothing,    *)
(* what leaves the blocks below x in the tree does so through x.           *)
(*                                                                         *)
(* The runner of a predecessor then passes the blocks above it that are    *)
(* not above the parent of the block it started for: those whose dominance *)
(* ends there.                                                             *)
(***************************************************************************)

InPost(b) == \E n \in DOMAIN post : post[n] = b
InStack(b) == \E n \in DOMAIN stack : stack[n] = b

Injective(s) == \A m, n \in DOMAIN s : s[m] = s[n] => m = n

\* The visit: a block on the stack was reached from the one below it; a block
\* that is finished has a predecessor that is not, or that finished later.
VisitInv ==
    /\ Injective(post) /\ Injective(stack)
    /\ \A b \in Block : b \in visited <=> InPost(b) \/ InStack(b)
    /\ \A b \in Block : ~(InPost(b) /\ InStack(b))
    /\ \A n \in DOMAIN stack : n + 1 \in DOMAIN stack => stack[n] \in Succs(stack[n + 1])
    /\ \A n \in DOMAIN stack : n + 1 \notin DOMAIN stack => stack[n] = root
    /\ stack = <<>> => InPost(root)
    /\ \A m \in DOMAIN post : post[m] # root =>
         \E p \in Preds(post[m]) : InStack(p) \/ \E n \in DOMAIN post : n > m /\ post[n] = p

\* The order once the visit is over.
OrderInv ==
    /\ Injective(post)
    /\ InPost(root)
    /\ \A m \in DOMAIN post : post[m] # root =>
         \E p \in Preds(post[m]) : \E n \in DOMAIN post : n > m /\ post[n] = p

\* The tree during the sweeps: parents come later and have parents.
TreeInv ==
    /\ Parent(root) = root
    /\ \A m \in DOMAIN post : m > i => Parent(post[m]) # None
    /\ \A m \in DOMAIN post : post[m] # root /\ Parent(post[m]) # None =>
         \E n \in DOMAIN post : n > m /\ post[n] = Parent(post[m]) /\ Parent(post[n]) # None
    /\ \A b \in Block : Parent(b) # None => InPost(b)

\* The fingers are on blocks with parents, and a block later than the one
\* handled is under them or will be.
MeetInv ==
    /\ i > 0 /\ post[i] # root
    /\ Parent(b1) # None /\ Parent(b2) # None
    /\ \A p \in todo : Parent(p) # None
    /\ \E n \in DOMAIN post : n > i /\ (post[n] \in todo \/ post[n] = b1 \/ post[n] = b2
                                          \/ PostOrderID(b2) >= n \/ PostOrderID(b1) >= n)

IInv == /\ TypeOK
        /\ stage # "exit"
        /\ stage = "visit" => VisitInv
        /\ stage # "visit" => OrderInv
        /\ stage \in {"sweep", "meet"} => TreeInv
        /\ stage = "meet" => MeetInv

-----------------------------------------------------------------------------
(* Lemmas *)

\* The successors of a block, as a list and as a set.
LEMMA GraphType ==
    ASSUME TypeOK
    PROVE  \A b \in Block : /\ succ[b] \in Seq(Block)
                            /\ Succs(b) \subseteq Block
                            /\ \A n \in DOMAIN succ[b] : succ[b][n] \in Succs(b)
<1>1. succ \in [Block -> Seq(Block)]
  BY GraphAssumption DEF TypeOK
<1>2. ASSUME NEW b \in Block PROVE succ[b] \in Seq(Block)
  BY <1>1
<1> QED BY <1>2 DEF Succs

\* PostOrderID is the position of a block in the post order.
LEMMA IDIsPosition ==
    ASSUME TypeOK, Injective(post), NEW n \in DOMAIN post
    PROVE  PostOrderID(post[n]) = n /\ n \in 1 .. Len(post) /\ post[n] \in Block
<1>1. \E m \in DOMAIN post : post[m] = post[n]
  OBVIOUS
<1>2. PostOrderID(post[n]) \in DOMAIN post /\ post[PostOrderID(post[n])] = post[n]
  BY <1>1 DEF PostOrderID
<1> QED BY <1>2 DEF Injective, TypeOK

\* Only the root has no later block.
LEMMA RootIsLast ==
    ASSUME TypeOK, OrderInv, NEW n \in DOMAIN post, post[n] = root
    PROVE  \A m \in DOMAIN post : m <= n
<1> DEFINE last == Len(post)
<1>1. post \in Seq(Block)
  BY DEF TypeOK
<1>2. last \in DOMAIN post /\ \A m \in DOMAIN post : m \in Nat /\ m <= last
  BY <1>1
<1>3. post[last] = root
  BY <1>2 DEF OrderInv
<1>4. last = n
  BY <1>2, <1>3 DEF OrderInv, Injective
<1> QED BY <1>2, <1>4

-----------------------------------------------------------------------------
(* Steps *)

\* The initial states satisfy the invariant.
LEMMA Initially == Init => IInv
<1> SUFFICES ASSUME Init PROVE IInv
  OBVIOUS
<1>1. TypeOK
  <2>1. stack \in Seq(Block) /\ post \in Seq(Block) /\ i \in 0 .. Len(post)
    BY RootAssumption DEF Init
  <2> QED BY <2>1, RootAssumption DEF Init, TypeOK
<1>2. DOMAIN stack = {1} /\ stack[1] = root /\ DOMAIN post = {}
  BY DEF Init
<1>3. VisitInv
  BY <1>2 DEF Init, VisitInv, Injective, InPost, InStack
<1> QED BY <1>1, <1>3 DEF Init, IInv

\* The visit goes on to a successor: it is new, and reached from the block below it.
LEMMA DescendStep == IInv /\ Descend => IInv'
<1> SUFFICES ASSUME IInv, Descend PROVE IInv'
  OBVIOUS
<1>1. TypeOK /\ VisitInv /\ stage = "visit" /\ stack # <<>>
  BY DEF IInv, Descend
<1>2. stack \in Seq(Block) /\ Head(stack) \in Block /\ Head(stack) = stack[1]
  BY <1>1 DEF TypeOK
<1>3. PICK n \in DOMAIN succ[Head(stack)] :
        /\ succ[Head(stack)][n] \notin visited
        /\ stack' = <<succ[Head(stack)][n]>> \o stack
        /\ visited' = visited \cup {succ[Head(stack)][n]}
  BY DEF Descend
<1> DEFINE s == succ[Head(stack)][n]
<1>4. s \in Block /\ s \in Succs(Head(stack)) /\ s \notin visited
  BY <1>1, <1>2, <1>3, GraphType
<1>5. UNCHANGED <<succ, stage, post, idom, i, changed, todo, b1, b2, DF, domTreeSucc>>
  BY DEF Descend, fingers, results
<1> HIDE DEF s
<1>6. /\ stack' \in Seq(Block)
      /\ Len(stack') = Len(stack) + 1
      /\ stack'[1] = s
      /\ \A m \in DOMAIN stack : stack'[m + 1] = stack[m]
      /\ DOMAIN stack' = 1 .. Len(stack) + 1
      /\ DOMAIN stack = 1 .. Len(stack) /\ Len(stack) \in Nat \ {0}
  BY <1>1, <1>2, <1>3, <1>4 DEF s
<1>7. TypeOK'
  BY <1>1, <1>3, <1>4, <1>5, <1>6 DEF TypeOK, s
<1>12. \A m \in DOMAIN stack' : m = 1 \/ (m - 1 \in DOMAIN stack /\ stack'[m] = stack[m - 1])
  BY <1>6
<1>13. \A m \in DOMAIN stack : m + 1 \in DOMAIN stack'
  BY <1>6
<1>8. \A b \in Block : InStack(b)' <=> InStack(b) \/ b = s
  <2> TAKE b \in Block
  <2>1. ASSUME InStack(b)' PROVE InStack(b) \/ b = s
    BY <2>1, <1>6, <1>12 DEF InStack
  <2>2. ASSUME InStack(b) PROVE InStack(b)'
    BY <2>2, <1>6, <1>13 DEF InStack
  <2>3. ASSUME b = s PROVE InStack(b)'
    BY <2>3, <1>6 DEF InStack
  <2> QED BY <2>1, <2>2, <2>3
<1>9. \A b : InPost(b)' <=> InPost(b)
  BY <1>5 DEF InPost
<1>10. ~InStack(s) /\ ~InPost(s)
  BY <1>1, <1>4 DEF VisitInv
<1>11. VisitInv'
  <2>1. Injective(stack')
    <3>1. \A m \in DOMAIN stack' : m # 1 => m - 1 \in DOMAIN stack /\ stack'[m] = stack[m - 1]
      BY <1>12
    <3>2. \A m \in DOMAIN stack' : m # 1 => stack'[m] # s
      BY <3>1, <1>10 DEF InStack
    <3> QED BY <3>1, <3>2, <1>1, <1>6 DEF VisitInv, Injective
  <2>2. \A m \in DOMAIN stack' : m + 1 \in DOMAIN stack' => stack'[m] \in Succs(stack'[m + 1])
    <3> SUFFICES ASSUME NEW m \in DOMAIN stack', m + 1 \in DOMAIN stack'
                 PROVE  stack'[m] \in Succs(stack'[m + 1])
      OBVIOUS
    <3>1. CASE m = 1
      BY <3>1, <1>2, <1>4, <1>6
    <3>2. CASE m # 1
      <4>1. /\ m - 1 \in DOMAIN stack /\ stack'[m] = stack[m - 1]
            /\ m \in DOMAIN stack /\ stack'[m + 1] = stack[m] /\ m \in Int
        BY <3>2, <1>6, <1>12
      <4>2. m - 1 + 1 = m
        BY <4>1
      <4> QED BY <4>1, <4>2, <1>1 DEF VisitInv
    <3> QED BY <3>1, <3>2
  <2>3. ASSUME NEW m \in DOMAIN stack', m + 1 \notin DOMAIN stack' PROVE stack'[m] = root
    <3>1. m \in Int /\ m # 1 /\ m \notin DOMAIN stack
      BY <1>6, <2>3
    <3>2. m - 1 \in DOMAIN stack /\ stack'[m] = stack[m - 1] /\ m - 1 + 1 = m
      BY <3>1, <1>12
    <3> QED BY <3>1, <3>2, <1>1 DEF VisitInv
  <2>4. \A b \in Block : b \in visited' <=> InPost(b)' \/ InStack(b)'
    BY <1>1, <1>3, <1>8, <1>9 DEF VisitInv, s
  <2>5. \A b \in Block : ~(InPost(b)' /\ InStack(b)')
    BY <1>1, <1>8, <1>9, <1>10 DEF VisitInv
  <2>6. stack' # <<>>
    BY <1>6
  <2>7. ASSUME NEW m \in DOMAIN post, post[m] # root
        PROVE  \E p \in Preds(post[m]) : InStack(p)' \/ \E h \in DOMAIN post : h > m /\ post[h] = p
    <3>1. PICK p \in Preds(post[m]) : InStack(p) \/ \E h \in DOMAIN post : h > m /\ post[h] = p
      BY <2>7, <1>1 DEF VisitInv
    <3>2. p \in Block
      BY DEF Preds
    <3> QED BY <3>1, <3>2, <1>8
  <2>9. (\A m \in DOMAIN post : post[m] # root =>
          \E p \in Preds(post[m]) : InStack(p) \/ \E h \in DOMAIN post : h > m /\ post[h] = p)'
    BY <2>7, <1>5 DEF Preds, Succs
  <2>8. (\A m \in DOMAIN stack : m + 1 \in DOMAIN stack => stack[m] \in Succs(stack[m + 1]))'
    BY <2>2, <1>5 DEF Succs
  <2> QED BY <1>1, <1>5, <2>1, <2>3, <2>4, <2>5, <2>6, <2>8, <2>9 DEF VisitInv, Injective
<1> QED BY <1>1, <1>5, <1>7, <1>11 DEF IInv

\* A block that is finished was reached from the one below it on the stack, the root
\* from none.
LEMMA FinishStep == IInv /\ Finish => IInv'
<1> SUFFICES ASSUME IInv, Finish PROVE IInv'
  OBVIOUS
<1> DEFINE b == Head(stack)
           len == Len(post) + 1
<1>1. TypeOK /\ VisitInv /\ stage = "visit" /\ stack # <<>>
  BY DEF IInv, Finish
<1>2. /\ stack \in Seq(Block) /\ b \in Block /\ b = stack[1]
      /\ Len(stack) \in Nat \ {0} /\ DOMAIN stack = 1 .. Len(stack)
      /\ post \in Seq(Block) /\ DOMAIN post = 1 .. Len(post) /\ Len(post) \in Nat
  BY <1>1 DEF TypeOK
<1>3. /\ post' = Append(post, b) /\ stack' = Tail(stack)
      /\ UNCHANGED <<succ, stage, visited, idom, i, changed, todo, b1, b2, DF, domTreeSucc>>
  BY DEF Finish, fingers, results
<1> HIDE DEF b
<1>4. /\ stack' \in Seq(Block)
      /\ DOMAIN stack' = 1 .. Len(stack) - 1
      /\ \A m \in DOMAIN stack' : m + 1 \in DOMAIN stack /\ stack'[m] = stack[m + 1]
      /\ \A m \in DOMAIN stack : m # 1 => m - 1 \in DOMAIN stack' /\ stack'[m - 1] = stack[m]
  BY <1>2, <1>3
<1>5. /\ post' \in Seq(Block) /\ DOMAIN post' = DOMAIN post \cup {len}
      /\ \A m \in DOMAIN post : post'[m] = post[m] /\ m < len
      /\ post'[len] = b /\ len \in Nat /\ len \in DOMAIN post' /\ Len(post') = len
  BY <1>2, <1>3
<1>6. TypeOK'
  <2>1. i' \in 0 .. Len(post')
    BY <1>1, <1>2, <1>3, <1>5 DEF TypeOK
  <2> QED BY <1>1, <1>3, <1>4, <1>5, <2>1 DEF TypeOK
<1> HIDE DEF len
<1>7. InStack(b) /\ ~InPost(b)
  BY <1>1, <1>2 DEF VisitInv, InStack
<1>8. \A c : InPost(c)' <=> InPost(c) \/ c = b
  BY <1>5 DEF InPost
<1>9. \A c : InStack(c)' <=> InStack(c) /\ c # b
  <2> TAKE c
  <2>1. ASSUME InStack(c)' PROVE InStack(c) /\ c # b
    <3>1. PICK m \in DOMAIN stack' : stack'[m] = c
      BY <2>1 DEF InStack
    <3>2. m + 1 \in DOMAIN stack /\ stack[m + 1] = c /\ 1 \in DOMAIN stack /\ m + 1 # 1
      BY <3>1, <1>2, <1>4
    <3> QED BY <3>2, <1>1, <1>2 DEF InStack, VisitInv, Injective
  <2>2. ASSUME InStack(c), c # b PROVE InStack(c)'
    BY <2>2, <1>2, <1>4 DEF InStack
  <2> QED BY <2>1, <2>2
<1>10. VisitInv'
  <2>1. Injective(post')
    <3> SUFFICES ASSUME NEW m \in DOMAIN post', NEW n \in DOMAIN post', post'[m] = post'[n]
                 PROVE  m = n
      BY DEF Injective
    <3> QED BY <1>1, <1>5, <1>7 DEF VisitInv, Injective, InPost
  <2>2. Injective(stack')
    <3> SUFFICES ASSUME NEW m \in DOMAIN stack', NEW n \in DOMAIN stack', stack'[m] = stack'[n]
                 PROVE  m = n
      BY DEF Injective
    <3>1. m + 1 = n + 1
      BY <1>1, <1>4 DEF VisitInv, Injective
    <3> QED BY <3>1, <1>2, <1>4
  <2>3. \A c \in Block : c \in visited' <=> InPost(c)' \/ InStack(c)'
    BY <1>1, <1>3, <1>7, <1>8, <1>9 DEF VisitInv
  <2>4. \A c \in Block : ~(InPost(c)' /\ InStack(c)')
    BY <1>1, <1>8, <1>9 DEF VisitInv
  <2>5. ASSUME NEW m \in DOMAIN stack', m + 1 \in DOMAIN stack'
        PROVE  stack'[m] \in Succs(stack'[m + 1])
    BY <2>5, <1>1, <1>4 DEF VisitInv
  <2>6. ASSUME NEW m \in DOMAIN stack', m + 1 \notin DOMAIN stack'
        PROVE  stack'[m] = root
    <3>1. m + 1 \in DOMAIN stack /\ m + 1 + 1 \notin DOMAIN stack
      BY <2>6, <1>2, <1>4
    <3> QED BY <3>1, <1>1, <1>4 DEF VisitInv
  <2>7. 2 \notin DOMAIN stack => b = root
    <3>1. 1 \in DOMAIN stack /\ 1 + 1 = 2
      BY <1>2
    <3> QED BY <3>1, <1>1, <1>2 DEF VisitInv
  <2>8. stack' = <<>> => InPost(root)'
    <3>1. stack' = <<>> => 2 \notin DOMAIN stack
      BY <1>2, <1>4
    <3> QED BY <3>1, <2>7, <1>8
  <2>9. ASSUME NEW m \in DOMAIN post', post'[m] # root
        PROVE  \E p \in Preds(post'[m]) :
                 InStack(p)' \/ \E n \in DOMAIN post' : n > m /\ post'[n] = p
    <3>1. CASE m \in DOMAIN post
      <4>1. PICK p \in Preds(post[m]) : InStack(p) \/ \E n \in DOMAIN post : n > m /\ post[n] = p
        BY <2>9, <3>1, <1>1, <1>5 DEF VisitInv
      <4>2. CASE p = b
        BY <3>1, <4>1, <4>2, <1>5
      <4>3. CASE p # b
        BY <3>1, <4>1, <4>3, <1>5, <1>9
      <4> QED BY <4>2, <4>3
    <3>2. CASE m = len
      <4>1. 2 \in DOMAIN stack /\ 1 \in DOMAIN stack /\ 1 + 1 = 2
        BY <3>2, <2>7, <2>9, <1>2, <1>5
      <4>2. b \in Succs(stack[2]) /\ stack[2] \in Block
        BY <4>1, <1>1, <1>2 DEF VisitInv
      <4>3. stack[2] \in Preds(b)
        BY <4>2 DEF Preds
      <4>4. stack[2] # b
        BY <4>1, <1>1, <1>2 DEF VisitInv, Injective
      <4>5. InStack(stack[2])
        BY <4>1 DEF InStack
      <4> QED BY <3>2, <4>3, <4>4, <4>5, <1>5, <1>9
    <3> QED BY <3>1, <3>2, <1>5
  <2>10. (\A m \in DOMAIN stack : m + 1 \in DOMAIN stack => stack[m] \in Succs(stack[m + 1]))'
    BY <2>5, <1>3 DEF Succs
  <2>11. (\A m \in DOMAIN post : post[m] # root =>
           \E p \in Preds(post[m]) : InStack(p) \/ \E n \in DOMAIN post : n > m /\ post[n] = p)'
    BY <2>9, <1>3 DEF Preds, Succs
  <2> QED BY <2>1, <2>2, <2>3, <2>4, <2>6, <2>8, <2>10, <2>11 DEF VisitInv, Injective
<1> QED BY <1>1, <1>3, <1>6, <1>10 DEF IInv

\* The first sweep starts from the root alone.
LEMMA StartIDomStep == IInv /\ StartIDom => IInv'
<1> SUFFICES ASSUME IInv, StartIDom PROVE IInv'
  OBVIOUS
<1>1. TypeOK /\ VisitInv /\ stage = "visit" /\ stack = <<>>
  BY DEF IInv, StartIDom
<1>2. /\ stage' = "sweep" /\ i' = Len(post) /\ changed' = FALSE
      /\ idom' = [b \in Block |-> IF b = root THEN root ELSE None]
      /\ UNCHANGED <<succ, stack, visited, post, todo, b1, b2, DF, domTreeSucc>>
  BY DEF StartIDom, order, fingers, results
<1>3. TypeOK'
  <2>1. i' \in 0 .. Len(post')
    BY <1>1, <1>2 DEF TypeOK
  <2>2. idom' \in [Block -> Block \cup {None}]
    BY <1>2, RootAssumption
  <2> QED BY <1>1, <1>2, <2>1, <2>2 DEF TypeOK
<1>4. DOMAIN stack = {}
  BY <1>1
<1>5. OrderInv
  BY <1>1, <1>4 DEF VisitInv, OrderInv, InStack
<1>6. OrderInv'
  BY <1>2, <1>5 DEF OrderInv, Injective, InPost, Preds, Succs
<1>7. TreeInv'
  <2>1. \A m \in DOMAIN post : ~(m > Len(post)) /\ post[m] \in Block
    BY <1>1 DEF TypeOK
  <2> QED BY <1>2, <1>5, <2>1, RootAssumption DEF TreeInv, Parent, OrderInv, InPost
<1> QED BY <1>2, <1>3, <1>6, <1>7 DEF IInv

\* The first finger starts at a predecessor with a parent; the later one that has
\* come in the sweep is one.
LEMMA NextBlockStep == IInv /\ NextBlock => IInv'
<1> SUFFICES ASSUME IInv, NextBlock PROVE IInv'
  OBVIOUS
<1> DEFINE known == {p \in Preds(post[i]) : Parent(p) # None}
<1>1. TypeOK /\ OrderInv /\ TreeInv /\ stage = "sweep" /\ i > 0 /\ post[i] # root
  BY DEF IInv, NextBlock
<1>2. UNCHANGED <<succ, stack, visited, post, idom, i, changed, DF, domTreeSucc>>
  BY DEF NextBlock, order, results
<1>3. i \in DOMAIN post
  BY <1>1 DEF TypeOK
<1>4. PICK p \in Preds(post[i]) : \E n \in DOMAIN post : n > i /\ post[n] = p
  BY <1>1, <1>3 DEF OrderInv
<1>5. p \in known
  BY <1>1, <1>4 DEF TreeInv
<1>6. PICK pred \in known : stage' = "meet" /\ b1' = pred /\ b2' = pred /\ todo' = known \ {pred}
  BY <1>5 DEF NextBlock
<1>7. known \subseteq Block /\ \A q \in known : Parent(q) # None
  BY DEF Preds
<1>8. TypeOK'
  BY <1>1, <1>2, <1>6, <1>7 DEF TypeOK
<1>9. OrderInv'
  BY <1>1, <1>2 DEF OrderInv, Injective, InPost, Preds, Succs
<1>10. TreeInv'
  BY <1>1, <1>2 DEF TreeInv, Parent, InPost
<1>11. \E n \in DOMAIN post : n > i /\ (post[n] \in todo' \/ post[n] = b1')
  BY <1>4, <1>5, <1>6
<1>12. MeetInv'
  BY <1>1, <1>2, <1>6, <1>7, <1>11 DEF MeetInv, Parent
<1> QED BY <1>6, <1>8, <1>9, <1>10, <1>12 DEF IInv

\* Passing over the root and starting the next sweep change no parent.
LEMMA SweepSteps == IInv /\ (SkipRoot \/ EndSweep) => IInv'
<1> SUFFICES ASSUME IInv, SkipRoot \/ EndSweep PROVE IInv'
  OBVIOUS
<1>1. TypeOK /\ OrderInv /\ TreeInv /\ stage = "sweep"
  BY DEF IInv, SkipRoot, EndSweep
<1>2. UNCHANGED <<succ, stack, visited, post, idom, todo, b1, b2, DF, domTreeSucc>>
  BY DEF SkipRoot, EndSweep, order, fingers, results
<1>3. OrderInv'
  BY <1>1, <1>2 DEF OrderInv, Injective, InPost, Preds, Succs
<1>4. Len(post) \in Nat /\ DOMAIN post = 1 .. Len(post) /\ i \in 0 .. Len(post)
  BY <1>1 DEF TypeOK
<1>5. CASE SkipRoot
  <2>1. i' = i - 1 /\ i > 0 /\ post[i] = root /\ stage' = "sweep" /\ changed' = changed
    BY <1>5 DEF SkipRoot
  <2>5. i' \in 0 .. Len(post')
    <3>1. i \in Int /\ i - 1 >= 0 /\ i - 1 <= Len(post)
      BY <1>4, <2>1
    <3> QED BY <1>2, <1>4, <2>1, <3>1
  <2>2. TypeOK'
    BY <1>1, <1>2, <2>1, <2>5 DEF TypeOK
  <2>3. \A m \in DOMAIN post : m > i' => Parent(post[m]) # None
    <3>1. Parent(root) # None
      BY <1>1, RootAssumption DEF TreeInv
    <3> QED BY <1>1, <1>4, <2>1, <3>1 DEF TreeInv
  <2>4. TreeInv'
    BY <1>1, <1>2, <2>3 DEF TreeInv, Parent, InPost
  <2> QED BY <1>3, <2>1, <2>2, <2>4 DEF IInv
<1>6. CASE EndSweep
  <2>1. /\ i' \in {i, Len(post)} /\ stage' \in {"sweep", "frontier"} /\ changed' = FALSE
        /\ stage' = "sweep" => i' = Len(post)
    BY <1>1, <1>6 DEF EndSweep
  <2>2. TypeOK'
    <3>1. i' \in 0 .. Len(post')
      BY <1>2, <1>4, <2>1
    <3> QED BY <1>1, <1>2, <2>1, <3>1 DEF TypeOK
  <2>3. stage' = "sweep" => TreeInv'
    BY <1>1, <1>2, <1>4, <2>1 DEF TreeInv, Parent, InPost
  <2> QED BY <1>3, <2>1, <2>2, <2>3 DEF IInv
<1> QED BY <1>5, <1>6

\* A block that is not the last of two in the order has a parent later than
\* itself.
LEMMA ParentIsLater ==
    ASSUME TypeOK, OrderInv, TreeInv,
           NEW a \in Block, NEW b \in Block, Parent(a) # None, Parent(b) # None, a # b
    PROVE  /\ PostOrderID(a) \in Nat /\ PostOrderID(b) \in Nat
           /\ PostOrderID(a) # PostOrderID(b)
           /\ PostOrderID(a) < PostOrderID(b) =>
                /\ Parent(a) \in Block /\ Parent(Parent(a)) # None
                /\ PostOrderID(Parent(a)) > PostOrderID(a)
                /\ PostOrderID(Parent(a)) \in Nat
<1>1. PICK m \in DOMAIN post : post[m] = a
  BY DEF TreeInv, InPost
<1>2. PICK n \in DOMAIN post : post[n] = b
  BY DEF TreeInv, InPost
<1>3. PostOrderID(a) = m /\ PostOrderID(b) = n /\ m \in Nat /\ n \in Nat /\ m # n
  BY <1>1, <1>2, IDIsPosition DEF OrderInv
<1>4. ASSUME m < n
      PROVE  /\ Parent(a) \in Block /\ Parent(Parent(a)) # None
             /\ PostOrderID(Parent(a)) > m /\ PostOrderID(Parent(a)) \in Nat
  <2>1. a # root
    BY <1>1, <1>3, <1>4, RootIsLast
  <2>2. PICK h \in DOMAIN post : h > m /\ post[h] = Parent(a) /\ Parent(post[h]) # None
    BY <1>1, <2>1 DEF TreeInv
  <2>3. PostOrderID(post[h]) = h /\ h \in Nat /\ post[h] \in Block
    BY IDIsPosition DEF OrderInv
  <2> QED BY <2>2, <2>3
<1> QED BY <1>3, <1>4

\* The finger that climbs goes to a parent, which is later.
LEMMA ClimbStep == IInv /\ Climb => IInv'
<1> SUFFICES ASSUME IInv, Climb PROVE IInv'
  OBVIOUS
<1>1. TypeOK /\ OrderInv /\ TreeInv /\ MeetInv /\ stage = "meet" /\ b1 # b2
  BY DEF IInv, Climb
<1>2. UNCHANGED <<succ, stack, visited, post, idom, i, changed, DF, domTreeSucc>>
  BY DEF Climb, order, results
<1>3. b1 \in Block /\ b2 \in Block /\ Parent(b1) # None /\ Parent(b2) # None
  BY <1>1 DEF TypeOK, MeetInv
<1>4. PICK n \in DOMAIN post : n > i /\ (post[n] \in todo \/ post[n] = b1 \/ post[n] = b2
                                   \/ PostOrderID(b2) >= n \/ PostOrderID(b1) >= n)
  BY <1>1 DEF MeetInv
<1>5. PostOrderID(post[n]) = n /\ n \in Nat
  BY <1>1, IDIsPosition DEF OrderInv
<1>6. OrderInv' /\ TreeInv'
  BY <1>1, <1>2 DEF OrderInv, TreeInv, Parent, Injective, InPost, Preds, Succs
<1>7. /\ UNCHANGED <<stage, todo>>
      /\ \/ b1' = Parent(b1) /\ b2' = b2 /\ PostOrderID(b1) < PostOrderID(b2)
         \/ b2' = Parent(b2) /\ b1' = b1 /\ ~(PostOrderID(b1) < PostOrderID(b2))
  BY <1>3 DEF Climb, fingers
<1>8. /\ b1' \in Block /\ b2' \in Block
      /\ Parent(b1') # None /\ Parent(b2') # None
      /\ PostOrderID(b1') >= PostOrderID(b1) /\ PostOrderID(b2') >= PostOrderID(b2)
      /\ PostOrderID(b1) \in Nat /\ PostOrderID(b1') \in Nat
      /\ PostOrderID(b2) \in Nat /\ PostOrderID(b2') \in Nat
  BY <1>1, <1>3, <1>7, ParentIsLater
<1>9. TypeOK'
  BY <1>1, <1>2, <1>7, <1>8 DEF TypeOK
<1>10. post[n] \in todo \/ PostOrderID(b2') >= n \/ PostOrderID(b1') >= n
  BY <1>4, <1>5, <1>8
<1>11. MeetInv'
  BY <1>1, <1>2, <1>4, <1>7, <1>8, <1>10 DEF MeetInv, Parent, PostOrderID
<1> QED BY <1>1, <1>6, <1>7, <1>9, <1>11 DEF IInv

\* Another predecessor is another first finger.
LEMMA NextPredStep == IInv /\ NextPred => IInv'
<1> SUFFICES ASSUME IInv, NextPred PROVE IInv'
  OBVIOUS
<1>1. TypeOK /\ OrderInv /\ TreeInv /\ MeetInv /\ stage = "meet" /\ b1 = b2
  BY DEF IInv, NextPred
<1>2. UNCHANGED <<succ, stage, stack, visited, post, idom, i, changed, b2, DF, domTreeSucc>>
  BY DEF NextPred, order, results
<1>3. PICK p \in todo : b1' = p /\ todo' = todo \ {p}
  BY DEF NextPred
<1>4. TypeOK'
  BY <1>1, <1>2, <1>3 DEF TypeOK
<1>5. OrderInv' /\ TreeInv'
  BY <1>1, <1>2 DEF OrderInv, TreeInv, Parent, Injective, InPost, Preds, Succs
<1>6. MeetInv'
  BY <1>1, <1>2, <1>3 DEF MeetInv, Parent, PostOrderID
<1> QED BY <1>1, <1>2, <1>4, <1>5, <1>6 DEF IInv

\* The parent found for a block comes later than it, for one of the two fingers
\* started from a later predecessor.
LEMMA SetIDomStep == IInv /\ SetIDom => IInv'
<1> SUFFICES ASSUME IInv, SetIDom PROVE IInv'
  OBVIOUS
<1>1. TypeOK /\ OrderInv /\ TreeInv /\ MeetInv /\ stage = "meet" /\ b1 = b2 /\ todo = {}
  BY DEF IInv, SetIDom
<1>2. /\ idom' = [idom EXCEPT ![post[i]] = b2] /\ i' = i - 1 /\ stage' = "sweep"
      /\ changed' = (changed \/ Parent(post[i]) # b2)
      /\ UNCHANGED <<succ, stack, visited, post, todo, b1, b2, DF, domTreeSucc>>
  BY DEF SetIDom, order, fingers, results
<1>3. i \in DOMAIN post /\ i > 0 /\ post[i] # root /\ post[i] \in Block /\ b2 \in Block
  BY <1>1 DEF MeetInv, TypeOK
<1>4. PICK n \in DOMAIN post : n > i /\ post[n] = b2
  <2>1. PICK n \in DOMAIN post : n > i /\ (post[n] = b2 \/ PostOrderID(b2) >= n)
    BY <1>1 DEF MeetInv
  <2>2. PICK h \in DOMAIN post : post[h] = b2
    BY <1>1, <1>3 DEF TreeInv, MeetInv, InPost
  <2>3. PostOrderID(b2) = h /\ h \in Nat /\ n \in Nat
    BY <1>1, <2>2, IDIsPosition DEF OrderInv
  <2> QED BY <1>1, <1>3, <2>1, <2>2, <2>3 DEF TypeOK
<1>5. TypeOK'
  <2>1. i' \in 0 .. Len(post') /\ changed' \in BOOLEAN
    BY <1>1, <1>2, <1>3 DEF TypeOK
  <2> QED BY <1>1, <1>2, <1>3, <2>1 DEF TypeOK
<1>6. OrderInv'
  BY <1>1, <1>2 DEF OrderInv, Injective, InPost, Preds, Succs
<1>7. /\ \A b \in Block : b # post[i] => idom'[b] = idom[b]
      /\ idom'[post[i]] = b2 /\ b2 # None /\ idom[b2] # None /\ b2 # post[i]
  <2>1. b2 # post[i]
    BY <1>1, <1>3, <1>4 DEF OrderInv, Injective, TypeOK
  <2> QED BY <1>1, <1>2, <1>3, <2>1, RootAssumption DEF TypeOK, MeetInv, Parent
<1>8. TreeInv'
  <2>1. idom'[root] = root
    BY <1>1, <1>3, <1>7, RootAssumption DEF TreeInv, Parent
  <2>2. ASSUME NEW m \in DOMAIN post, m > i' PROVE idom'[post[m]] # None
    <3>1. post[m] \in Block /\ (m = i \/ m > i)
      BY <1>1, <1>2, <1>3, <2>2 DEF TypeOK
    <3> QED BY <1>1, <1>7, <3>1 DEF TreeInv, Parent
  <2>3. ASSUME NEW m \in DOMAIN post, post[m] # root, idom'[post[m]] # None
        PROVE  \E h \in DOMAIN post : h > m /\ post[h] = idom'[post[m]] /\ idom'[post[h]] # None
    <3>1. post[m] \in Block
      BY <1>1 DEF TypeOK
    <3>2. CASE m = i
      BY <1>3, <1>4, <1>7, <3>2
    <3>3. CASE m # i
      <4>1. post[m] # post[i]
        BY <1>1, <1>3, <3>3 DEF OrderInv, Injective
      <4>2. PICK h \in DOMAIN post : h > m /\ post[h] = idom[post[m]] /\ idom[post[h]] # None
        BY <1>1, <1>7, <2>3, <3>1, <4>1 DEF TreeInv, Parent
      <4>3. idom'[post[h]] # None
        BY <1>1, <1>7, <4>2 DEF TypeOK
      <4> QED BY <1>7, <3>1, <4>1, <4>2, <4>3
    <3> QED BY <3>2, <3>3
  <2>4. ASSUME NEW b \in Block, idom'[b] # None PROVE InPost(b)
    BY <1>1, <1>3, <1>7, <2>4 DEF TreeInv, Parent, InPost
  <2> QED BY <1>2, <2>1, <2>2, <2>3, <2>4 DEF TreeInv, Parent, InPost
<1> QED BY <1>2, <1>5, <1>6, <1>8 DEF IInv

\* The trees change nothing the sweeps have found.
LEMMA CreateTreesStep == IInv /\ CreateTrees => IInv'
<1> SUFFICES ASSUME IInv, CreateTrees PROVE IInv'
  OBVIOUS
<1>1. UNCHANGED <<succ, stack, visited, post, idom, i, changed, todo, b1, b2>> /\ stage' = "done"
  BY DEF CreateTrees, order, fingers
<1>2. DF' \in [Block -> SUBSET Block] /\ domTreeSucc' \in [Block -> SUBSET Block]
  BY DEF CreateTrees
<1>3. TypeOK'
  BY <1>1, <1>2 DEF IInv, TypeOK
<1>4. OrderInv'
  BY <1>1 DEF IInv, CreateTrees, OrderInv, Injective, InPost, Preds, Succs
<1> QED BY <1>1, <1>3, <1>4 DEF IInv

-----------------------------------------------------------------------------
(* Theorems *)

\* Every step keeps the invariant of the sweeps.
LEMMA Steps == IInv /\ [Next]_vars => IInv'
<1> SUFFICES ASSUME IInv, [Next]_vars PROVE IInv'
  OBVIOUS
<1>1. CASE UNCHANGED vars
  <2>1. /\ UNCHANGED <<succ, stage, stack, visited, post, idom, i, changed>>
        /\ UNCHANGED <<todo, b1, b2, DF, domTreeSucc>>
    BY <1>1 DEF vars
  <2>2. TypeOK'
    BY <2>1 DEF IInv, TypeOK
  <2>3. stage = "visit" => VisitInv'
    BY <2>1 DEF IInv, VisitInv, Injective, InPost, InStack, Preds, Succs
  <2>4. stage # "visit" => OrderInv'
    BY <2>1 DEF IInv, OrderInv, Injective, InPost, Preds, Succs
  <2>5. stage \in {"sweep", "meet"} => TreeInv'
    BY <2>1 DEF IInv, TreeInv, Parent, InPost
  <2>6. stage = "meet" => MeetInv'
    BY <2>1 DEF IInv, MeetInv, Parent, PostOrderID
  <2> QED BY <2>1, <2>2, <2>3, <2>4, <2>5, <2>6 DEF IInv
<1>2. CASE Work
  BY <1>2, DescendStep, FinishStep, StartIDomStep, NextBlockStep, SweepSteps,
     ClimbStep, NextPredStep, SetIDomStep, CreateTreesStep DEF Work
<1>3. CASE Stopped
  BY <1>1, <1>3 DEF Stopped
<1> QED BY <1>1, <1>2, <1>3 DEF Next

\* The sweeps, the climbs and the trees they leave keep their order, in every graph.
THEOREM Invariance == Spec => []IInv
BY Initially, Steps, PTL DEF Spec

\* The state of the pass is well typed, for every graph.
THEOREM TypeCorrect == Spec => []TypeOK
BY Invariance, PTL DEF IInv

\* createIDom never leaves by an exit: there is always a predecessor with a
\* parent to start from and a parent to climb to, for every graph, whatever the
\* order of predecessors, with blocks that cannot be reached or without.
THEOREM NoExit == Spec => []NeverExits
BY Invariance, PTL DEF IInv, NeverExits

-----------------------------------------------------------------------------
(* Dominance: the inductive invariant *)

\* x is y or above it in the tree.
Above(x, y) ==
    \A S \in SUBSET Block :
      y \in S /\ (\A c \in S : Parent(c) \in S \cup {None}) => x \in S

Sweeping == stage \in {"sweep", "meet", "frontier"}

\* The visit leaves out nothing that an edge leads to.
ClosedInv ==
    /\ stage = "visit" => \A m \in DOMAIN post : Succs(post[m]) \subseteq visited
    /\ stage # "visit" => \A m \in DOMAIN post : \A c \in Succs(post[m]) : InPost(c)

\* What strictly dominates a block dominates its parent, and the fingers while
\* they look for one.
FarInv ==
    /\ Sweeping =>
         \A b \in Block \ {root} : Parent(b) # None =>
           \A a \in Block \ {b} : Dominates(a, b) => Dominates(a, Parent(b))
    /\ stage = "meet" =>
         /\ todo \subseteq Preds(post[i])
         /\ \A a \in Block \ {post[i]} :
              Dominates(a, post[i]) => Dominates(a, b1) /\ Dominates(a, b2)

\* The fingers are above the predecessors met; in a sweep that has changed
\* nothing yet the parents of the blocks handled are.
Settled(m) ==
    post[m] # root =>
      \A p \in Preds(post[m]) : Parent(p) # None => Above(Parent(post[m]), p)

AboveInv ==
    /\ stage = "meet" =>
         \A p \in Preds(post[i]) :
           Parent(p) # None => p \in todo \/ Above(b1, p) \/ Above(b2, p)
    /\ Sweeping /\ ~changed => \A m \in DOMAIN post : m > i => Settled(m)
    /\ stage = "frontier" => TreeInv /\ i = 0 /\ ~changed

DomInv == ClosedInv /\ FarInv /\ AboveInv

-----------------------------------------------------------------------------
(* Dominance: lemmas *)

\* The successor lists are a graph in the sense of FlowGraph.
LEMMA SuccIsGraph ==
    ASSUME TypeOK
    PROVE  /\ IsGraph(succ) /\ root \in DOMAIN succ /\ DOMAIN succ = Block
           /\ \A b \in Block : SuccsOf(succ, b) = Succs(b) /\ Succs(b) \subseteq Block
           /\ \A b \in Block : Preds(b) \subseteq Block
<1>1. DOMAIN succ = Block
  BY GraphAssumption DEF TypeOK
<1>2. \A b \in Block : SuccsOf(succ, b) = Succs(b)
  BY DEF SuccsOf, Succs
<1> QED BY <1>1, <1>2, GraphType, RootAssumption DEF IsGraph, Preds

\* What dominates a block other than itself dominates the block's predecessors.
LEMMA DominatesPreds ==
    ASSUME TypeOK, NEW b \in Block, NEW p \in Preds(b), NEW a, a # b, Dominates(a, b)
    PROVE  Dominates(a, p)
<1>1. p \in Block /\ b \in SuccsOf(succ, p)
  BY SuccIsGraph DEF Preds
<1> QED BY <1>1, SuccIsGraph, ReachedGoesOn DEF Dominates, DominatesIn

\* A dominator comes later in the post order than what it dominates: otherwise
\* the later predecessors of the later predecessors lead around it to the root.
LEMMA DominatorIsLater ==
    ASSUME TypeOK, OrderInv, NEW n \in DOMAIN post, NEW a,
           Dominates(a, post[n]), a # post[n]
    PROVE  \E m \in DOMAIN post : m > n /\ post[m] = a
<1> SUFFICES ASSUME \A m \in DOMAIN post : m > n => post[m] # a PROVE FALSE
  OBVIOUS
<1> DEFINE T == {m \in DOMAIN post : m >= n /\ post[m] \notin Avoiding(succ, root, a)}
<1>1. DOMAIN post = 1 .. Len(post) /\ Len(post) \in Nat
  BY DEF TypeOK
<1>2. n \in T
  BY <1>1 DEF Dominates, DominatesIn
<1>3. PICK m \in T : \A h \in T : h <= m
  <2>1. T \subseteq Nat /\ T # {} /\ \A h \in T : h <= Len(post)
    BY <1>1, <1>2
  <2> HIDE DEF T
  <2> QED BY <1>1, <2>1, GreatestNumber
<1>4. m \in DOMAIN post /\ m >= n /\ post[m] # a /\ post[m] \in Block
  BY <1>1, <1>3 DEF TypeOK
<1>5. post[m] # root
  BY <1>3, <1>4, SuccIsGraph, ReachedGoesOn
<1>6. PICK p \in Preds(post[m]) : \E h \in DOMAIN post : h > m /\ post[h] = p
  BY <1>4, <1>5 DEF OrderInv
<1>7. PICK h \in DOMAIN post : h > m /\ post[h] = p
  BY <1>6
<1>8. p \in Avoiding(succ, root, a)
  <2>1. h >= n /\ h \notin T
    BY <1>1, <1>3, <1>4, <1>7
  <2> QED BY <1>7, <2>1
<1>9. post[m] \in SuccsOf(succ, p)
  BY <1>4, <1>6, SuccIsGraph DEF Preds
<1>10. post[m] \in Avoiding(succ, root, a)
  BY <1>4, <1>8, <1>9, SuccIsGraph, ReachedGoesOn
<1> QED BY <1>3, <1>10

\* Being above is reflexive and transitive.
LEMMA AboveFacts ==
    ASSUME NEW x \in Block
    PROVE  /\ Above(x, x)
           /\ \A y \in Block : Above(y, x) /\ Parent(y) \in Block => Above(Parent(y), x)
           /\ \A y, z \in Block : Above(x, y) /\ Above(y, z) => Above(x, z)
<1>1. Above(x, x)
  BY DEF Above
<1>2. ASSUME NEW y \in Block, Above(y, x), Parent(y) \in Block PROVE Above(Parent(y), x)
  <2> SUFFICES ASSUME NEW S \in SUBSET Block, x \in S,
                      \A c \in S : Parent(c) \in S \cup {None}
               PROVE  Parent(y) \in S
    BY DEF Above
  <2>1. y \in S
    BY <1>2 DEF Above
  <2> QED BY <1>2, <2>1, RootAssumption
<1>3. ASSUME NEW y \in Block, NEW z \in Block, Above(x, y), Above(y, z) PROVE Above(x, z)
  BY <1>3 DEF Above
<1> QED BY <1>1, <1>2, <1>3

\* What is above a block and not the block itself is above its parent.
LEMMA AboveParent ==
    ASSUME NEW x \in Block, NEW y \in Block, Above(x, y), x # y, Parent(y) \in Block
    PROVE  Above(x, Parent(y))
<1> SUFFICES ASSUME NEW S \in SUBSET Block, Parent(y) \in S,
                    \A c \in S : Parent(c) \in S \cup {None}
             PROVE  x \in S
  BY DEF Above
<1> DEFINE U == S \cup {y}
<1>1. U \in SUBSET Block /\ y \in U /\ \A c \in U : Parent(c) \in U \cup {None}
  OBVIOUS
<1>2. x \in U
  BY <1>1 DEF Above
<1> QED BY <1>2

\* It stays so while no parent changes.
LEMMA AboveKept == ASSUME UNCHANGED idom, NEW x, NEW y PROVE Above(x, y)' <=> Above(x, y)
  BY DEF Above, Parent

\* Dominance is of the graph alone.
LEMMA DominatesKept ==
    ASSUME UNCHANGED succ, NEW a, NEW b PROVE Dominates(a, b)' <=> Dominates(a, b)
  BY DEF Dominates

-----------------------------------------------------------------------------
(* Dominance: steps *)

\* The successors of a block in the post order are in it.
LEMMA ClosedStep == ClosedInv /\ IInv /\ IInv' /\ [Next]_vars => ClosedInv'
<1> SUFFICES ASSUME ClosedInv, IInv, IInv', [Next]_vars PROVE ClosedInv'
  OBVIOUS
<1>1. CASE Descend
  BY <1>1 DEF Descend, ClosedInv, fingers, results, Succs
<1>2. CASE Finish
  <2>1. /\ post' = Append(post, Head(stack)) /\ Succs(Head(stack)) \subseteq visited
        /\ UNCHANGED <<succ, stage, visited>> /\ stage = "visit"
    BY <1>2 DEF Finish
  <2>2. post \in Seq(Block)
    BY DEF IInv, TypeOK
  <2>3. \A m \in DOMAIN post' : post'[m] = Head(stack) \/ (m \in DOMAIN post /\ post'[m] = post[m])
    BY <2>1, <2>2
  <2> QED BY <2>1, <2>3 DEF ClosedInv, Succs
<1>3. CASE StartIDom
  <2>1. stage = "visit" /\ stack = <<>> /\ stage' = "sweep" /\ UNCHANGED <<succ, post>>
    BY <1>3 DEF StartIDom, order
  <2>2. \A b \in visited : InPost(b)
    BY <2>1 DEF IInv, VisitInv, TypeOK, InStack
  <2>3. \A m \in DOMAIN post : \A c \in Succs(post[m]) : InPost(c)
    BY <2>1, <2>2 DEF ClosedInv
  <2> QED BY <2>1, <2>3 DEF ClosedInv, Succs, InPost
<1>4. CASE stage # "visit" /\ stage' # "visit" /\ UNCHANGED <<succ, post>>
  BY <1>4 DEF ClosedInv, Succs, InPost
<1>5. CASE UNCHANGED <<stage, succ, post, visited>>
  BY <1>5 DEF ClosedInv, Succs, InPost
<1>6. NextBlock \/ SkipRoot \/ Climb \/ NextPred \/ SetIDom \/ EndSweep \/ CreateTrees
        => stage # "visit" /\ stage' # "visit" /\ UNCHANGED <<succ, post>>
  BY DEF NextBlock, SkipRoot, Climb, NextPred, SetIDom, EndSweep, CreateTrees, order
<1>7. Stopped \/ UNCHANGED vars => UNCHANGED <<stage, succ, post, visited>>
  BY DEF Stopped, vars
<1> QED BY <1>1, <1>2, <1>3, <1>4, <1>5, <1>6, <1>7 DEF Next, Work

\* What strictly dominates a block goes on dominating its parent.
LEMMA FarStep == FarInv /\ IInv /\ IInv' /\ [Next]_vars => FarInv'
<1> SUFFICES ASSUME FarInv, IInv, IInv', [Next]_vars PROVE FarInv'
  OBVIOUS
<1> DEFINE Far(b) == Parent(b) # None =>
             \A a \in Block \ {b} : Dominates(a, b) => Dominates(a, Parent(b))
<1>1. TypeOK /\ (stage # "visit" => OrderInv) /\ (stage = "meet" => TreeInv /\ MeetInv)
  BY DEF IInv
<1>2. CASE StartIDom
  <2>1. stage' = "sweep" /\ \A b \in Block \ {root} : idom'[b] = None
    BY <1>2 DEF StartIDom
  <2> QED BY <2>1 DEF FarInv, Parent
<1>3. CASE NextBlock
  <2>1. UNCHANGED <<succ, post, i, idom>> /\ stage = "sweep" /\ i \in DOMAIN post
        /\ post[i] \in Block
    BY <1>1, <1>3 DEF NextBlock, order, TypeOK
  <2>2. \A b \in Block \ {root} : Far(b)'
    BY <2>1, DominatesKept DEF FarInv, Sweeping, Parent
  <2>3. ASSUME stage' = "meet"
        PROVE  /\ todo' \subseteq Preds(post[i]) /\ b1' \in Preds(post[i]) /\ b2' = b1'
    BY <1>3, <2>3 DEF NextBlock
  <2>4. ASSUME stage' = "meet", NEW a \in Block \ {post[i]}, Dominates(a, post[i])
        PROVE  Dominates(a, b1') /\ Dominates(a, b2')
    BY <1>1, <2>1, <2>3, <2>4, DominatesPreds
  <2> QED BY <2>1, <2>2, <2>3, <2>4, DominatesKept DEF FarInv, Preds, Succs, Dominates
<1>4. CASE Climb
  <2>1. /\ UNCHANGED <<succ, post, i, idom, todo, stage>> /\ stage = "meet" /\ b1 # b2
        /\ i \in DOMAIN post /\ post[i] \in Block
        /\ b1 \in Block /\ b2 \in Block /\ Parent(b1) # None /\ Parent(b2) # None
    BY <1>1, <1>4 DEF Climb, order, fingers, MeetInv, TypeOK
  <2>2. \/ b1' = Parent(b1) /\ b2' = b2 /\ PostOrderID(b1) < PostOrderID(b2)
        \/ b2' = Parent(b2) /\ b1' = b1 /\ ~(PostOrderID(b1) < PostOrderID(b2))
    BY <1>4, <2>1 DEF Climb, fingers
  <2>3. ASSUME NEW x \in Block, NEW y \in Block, x # y, Parent(x) # None, Parent(y) # None,
               PostOrderID(x) < PostOrderID(y),
               NEW a, Dominates(a, x), Dominates(a, y), a \in Block
        PROVE  Dominates(a, Parent(x))
    <3>1. PICK m \in DOMAIN post : post[m] = x
      BY <1>1, <2>1, <2>3 DEF TreeInv, InPost
    <3>2. PICK n \in DOMAIN post : post[n] = y
      BY <1>1, <2>1, <2>3 DEF TreeInv, InPost
    <3>3. PostOrderID(x) = m /\ PostOrderID(y) = n /\ m \in Nat /\ n \in Nat /\ m < n
      BY <1>1, <2>1, <2>3, <3>1, <3>2, IDIsPosition DEF OrderInv
    <3>4. x # root
      BY <1>1, <2>1, <3>1, <3>2, <3>3, RootIsLast
    <3>5. a # x
      <4> SUFFICES ASSUME a = x PROVE FALSE
        OBVIOUS
      <4>1. PICK h \in DOMAIN post : h > n /\ post[h] = x
        BY <1>1, <2>1, <2>3, <3>2, DominatorIsLater
      <4>2. h = m
        BY <1>1, <2>1, <3>1, <4>1 DEF OrderInv, Injective
      <4> QED BY <3>3, <4>1, <4>2
    <3> QED BY <2>1, <2>3, <3>4, <3>5 DEF FarInv, Sweeping
  <2>4. PostOrderID(b1) \in Nat /\ PostOrderID(b2) \in Nat /\ PostOrderID(b1) # PostOrderID(b2)
    BY <1>1, <2>1, ParentIsLater
  <2>5. ASSUME NEW a \in Block \ {post[i]}, Dominates(a, post[i])
        PROVE  Dominates(a, b1') /\ Dominates(a, b2')
    <3>1. Dominates(a, b1) /\ Dominates(a, b2)
      BY <2>1, <2>5 DEF FarInv
    <3> QED BY <2>1, <2>2, <2>3, <2>4, <3>1
  <2>6. \A b \in Block \ {root} : Far(b)'
    BY <2>1, DominatesKept DEF FarInv, Sweeping, Parent
  <2> QED BY <2>1, <2>5, <2>6, DominatesKept DEF FarInv, Preds, Succs, Dominates
<1>5. CASE NextPred
  <2>1. /\ UNCHANGED <<succ, post, i, idom, stage, b2>> /\ stage = "meet"
        /\ i \in DOMAIN post /\ post[i] \in Block
    BY <1>1, <1>5 DEF NextPred, order, MeetInv, TypeOK
  <2>2. b1' \in todo /\ todo' \subseteq todo /\ todo \subseteq Preds(post[i])
    BY <1>5, <2>1 DEF NextPred, FarInv
  <2>3. ASSUME NEW a \in Block \ {post[i]}, Dominates(a, post[i])
        PROVE  Dominates(a, b1') /\ Dominates(a, b2')
    <3>1. Dominates(a, b2)
      BY <2>1, <2>3 DEF FarInv
    <3> QED BY <1>1, <2>1, <2>2, <2>3, <3>1, DominatesPreds
  <2>4. \A b \in Block \ {root} : Far(b)'
    BY <2>1, DominatesKept DEF FarInv, Sweeping, Parent
  <2> QED BY <2>1, <2>2, <2>3, <2>4, DominatesKept DEF FarInv, Preds, Succs, Dominates
<1>6. CASE SetIDom
  <2>1. /\ UNCHANGED <<succ, post>> /\ stage = "meet" /\ stage' = "sweep"
        /\ idom' = [idom EXCEPT ![post[i]] = b2]
        /\ i \in DOMAIN post /\ post[i] \in Block /\ idom \in [Block -> Block \cup {None}]
    BY <1>1, <1>6 DEF SetIDom, order, MeetInv, TypeOK
  <2>2. ASSUME NEW b \in Block \ {root}, b # post[i] PROVE Far(b)'
    <3>1. idom'[b] = idom[b]
      BY <2>1, <2>2
    <3> QED BY <2>1, <3>1, DominatesKept DEF FarInv, Sweeping, Parent
  <2>3. ASSUME NEW b \in Block, b = post[i] PROVE Far(b)'
    <3>1. idom'[b] = b2
      BY <2>1, <2>3
    <3>2. \A a \in Block \ {b} : Dominates(a, b) => Dominates(a, b2)
      BY <2>1, <2>3 DEF FarInv
    <3> QED BY <2>1, <3>1, <3>2, DominatesKept DEF Parent
  <2> QED BY <2>1, <2>2, <2>3 DEF FarInv
<1>7. CASE /\ UNCHANGED <<succ, idom>>
           /\ stage \notin {"sweep", "frontier"} => ~Sweeping'
           /\ stage' # "meet"
  <2>1. Sweeping' => Sweeping
    BY <1>7 DEF Sweeping
  <2>2. Sweeping' => \A b \in Block \ {root} : Far(b)'
    BY <1>7, <2>1, DominatesKept DEF FarInv, Parent
  <2> QED BY <1>7, <2>2 DEF FarInv
<1>8. CASE UNCHANGED vars
  <2>1. UNCHANGED <<succ, idom, stage, todo, post, i, b1, b2>>
    BY <1>8 DEF vars
  <2>2. Sweeping => \A b \in Block \ {root} : Far(b)'
    BY <2>1, DominatesKept DEF FarInv, Parent
  <2>3. stage = "meet" =>
          \A a \in Block \ {post[i]} :
            Dominates(a, post[i])' => Dominates(a, b1)' /\ Dominates(a, b2)'
    BY <2>1 DEF FarInv, Dominates
  <2> QED BY <2>1, <2>2, <2>3 DEF FarInv, Preds, Succs, Sweeping
<1>9. Descend \/ Finish \/ SkipRoot \/ EndSweep \/ CreateTrees =>
         /\ UNCHANGED <<succ, idom>>
         /\ stage \notin {"sweep", "frontier"} => ~Sweeping'
         /\ stage' # "meet"
  BY DEF Descend, Finish, SkipRoot, EndSweep, CreateTrees, Sweeping, order
<1>10. Stopped => UNCHANGED vars
  BY DEF Stopped
<1> QED BY <1>2, <1>3, <1>4, <1>5, <1>6, <1>7, <1>8, <1>9, <1>10 DEF Next, Work

\* What is settled stays so while the graph and the parents do.
LEMMA SettledKept ==
    ASSUME UNCHANGED <<succ, post, idom>>, NEW m
    PROVE  Settled(m)' <=> Settled(m)
<1>1. \A p : Above(Parent(post[m]), p)' <=> Above(Parent(post[m]), p)
  BY DEF Above, Parent
<1> QED BY <1>1 DEF Settled, Preds, Succs, Parent

\* A sweep without a change leaves every block settled.
LEMMA AboveStep == AboveInv /\ FarInv /\ IInv /\ IInv' /\ [Next]_vars => AboveInv'
<1> SUFFICES ASSUME AboveInv, FarInv, IInv, IInv', [Next]_vars PROVE AboveInv'
  OBVIOUS
<1> DEFINE Met(p) == Parent(p) # None => p \in todo \/ Above(b1, p) \/ Above(b2, p)
<1>1. TypeOK /\ (stage = "meet" => MeetInv) /\ TypeOK'
  BY DEF IInv
<1>2. CASE StartIDom
  <2>1. stage' = "sweep" /\ i' = Len(post) /\ UNCHANGED <<post>>
    BY <1>2 DEF StartIDom, order
  <2>2. \A m \in DOMAIN post' : ~(m > i')
    BY <1>1, <2>1 DEF TypeOK
  <2> QED BY <2>1, <2>2 DEF AboveInv
<1>3. CASE NextBlock
  <2>1. UNCHANGED <<succ, post, i, idom, changed>> /\ stage = "sweep"
        /\ stage' \in {"exit", "meet"}
    BY <1>3 DEF NextBlock, order
  <2>2. ASSUME stage' = "meet", NEW p \in Preds(post[i]), Parent(p) # None
        PROVE  p \in todo' \/ Above(b1, p)'
    <3>1. p \in Block
      BY DEF Preds
    <3>2. p \in todo' \/ p = b1'
      BY <1>3, <2>2 DEF NextBlock
    <3>3. Above(p, p)
      BY <3>1, AboveFacts
    <3> QED BY <2>1, <3>2, <3>3 DEF Above, Parent
  <2>3. Sweeping' /\ ~changed' => \A m \in DOMAIN post' : m > i' => Settled(m)'
    BY <2>1, SettledKept DEF AboveInv, Sweeping
  <2> QED BY <2>1, <2>2, <2>3 DEF AboveInv, Preds, Succs, Parent
<1>4. CASE Climb
  <2>1. /\ UNCHANGED <<succ, post, i, idom, changed, todo, stage>> /\ stage = "meet"
        /\ b1 \in Block /\ b2 \in Block /\ Parent(b1) # None /\ Parent(b2) # None
        /\ Parent(b1) \in Block /\ Parent(b2) \in Block
    BY <1>1, <1>4 DEF Climb, order, fingers, MeetInv, TypeOK, Parent
  <2>2. \/ b1' = Parent(b1) /\ b2' = b2
        \/ b2' = Parent(b2) /\ b1' = b1
    BY <1>4, <2>1 DEF Climb, fingers
  <2>3. ASSUME NEW p \in Preds(post[i]), Parent(p) # None
        PROVE  p \in todo' \/ Above(b1, p)' \/ Above(b2, p)'
    <3>1. p \in todo \/ Above(b1, p) \/ Above(b2, p)
      BY <2>1, <2>3 DEF AboveInv
    <3>2. p \in Block
      BY DEF Preds
    <3>3. /\ Above(b1, p) => Above(Parent(b1), p)
          /\ Above(b2, p) => Above(Parent(b2), p)
      BY <2>1, <3>2, AboveFacts
    <3> QED BY <2>1, <2>2, <3>1, <3>3 DEF Above, Parent
  <2>4. Sweeping' /\ ~changed' => \A m \in DOMAIN post' : m > i' => Settled(m)'
    BY <2>1, SettledKept DEF AboveInv, Sweeping
  <2> QED BY <2>1, <2>3, <2>4 DEF AboveInv, Preds, Succs, Parent
<1>5. CASE NextPred
  <2>1. /\ UNCHANGED <<succ, post, i, idom, changed, stage, b2>> /\ stage = "meet"
        /\ b1 = b2
    BY <1>5 DEF NextPred, order
  <2>2. b1' \in todo /\ todo' = todo \ {b1'}
    BY <1>5, <2>1 DEF NextPred
  <2>3. ASSUME NEW p \in Preds(post[i]), Parent(p) # None
        PROVE  p \in todo' \/ Above(b1, p)' \/ Above(b2, p)'
    <3>1. p \in todo \/ Above(b2, p)
      BY <2>1, <2>3 DEF AboveInv
    <3>2. p \in Block
      BY DEF Preds
    <3>3. Above(p, p)
      BY <3>2, AboveFacts
    <3> QED BY <2>1, <2>2, <3>1, <3>3 DEF Above, Parent
  <2>4. Sweeping' /\ ~changed' => \A m \in DOMAIN post' : m > i' => Settled(m)'
    BY <2>1, SettledKept DEF AboveInv, Sweeping
  <2> QED BY <2>1, <2>3, <2>4 DEF AboveInv, Preds, Succs, Parent
<1>6. CASE SetIDom
  <2>1. /\ UNCHANGED <<succ, post>> /\ stage = "meet" /\ stage' = "sweep"
        /\ b1 = b2 /\ todo = {} /\ i' = i - 1
        /\ idom' = [idom EXCEPT ![post[i]] = b2]
        /\ changed' = (changed \/ Parent(post[i]) # b2)
        /\ i \in DOMAIN post /\ post[i] \in Block /\ idom \in [Block -> Block \cup {None}]
        /\ i \in Nat /\ DOMAIN post \subseteq Nat
    BY <1>1, <1>6 DEF SetIDom, order, MeetInv, TypeOK
  <2> SUFFICES ASSUME ~changed', NEW m \in DOMAIN post, m > i' PROVE Settled(m)'
    BY <2>1 DEF AboveInv
  <2>2. ~changed /\ Parent(post[i]) = b2 /\ idom' = idom
    BY <1>1, <2>1 DEF TypeOK, Parent
  <2>3. Settled(i)
    <3>1. \A p \in Preds(post[i]) : Parent(p) # None => Above(b2, p)
      BY <2>1 DEF AboveInv
    <3> QED BY <2>2, <3>1 DEF Settled
  <2>4. m = i \/ m > i
    BY <2>1
  <2>5. Settled(m)
    BY <2>1, <2>2, <2>3, <2>4 DEF AboveInv, Sweeping
  <2> QED BY <2>1, <2>2, <2>5, SettledKept
<1>7. CASE EndSweep
  <2>1. /\ UNCHANGED <<succ, post, idom>> /\ stage = "sweep" /\ i = 0 /\ changed' = FALSE
        /\ \/ stage' = "sweep" /\ i' = Len(post)
           \/ stage' = "frontier" /\ i' = 0 /\ ~changed
    BY <1>7 DEF EndSweep, order
  <2>2. stage' = "sweep" => \A m \in DOMAIN post' : ~(m > i')
    BY <1>1, <2>1 DEF TypeOK
  <2>3. stage' = "frontier" => \A m \in DOMAIN post' : m > i' => Settled(m)'
    BY <2>1, SettledKept DEF AboveInv, Sweeping
  <2>4. TreeInv
    BY <2>1 DEF IInv
  <2>5. stage' = "frontier" => TreeInv'
    BY <2>1, <2>4 DEF TreeInv, Parent, InPost
  <2> QED BY <2>1, <2>2, <2>3, <2>5 DEF AboveInv
<1>8. CASE SkipRoot
  <2>1. /\ UNCHANGED <<succ, post, idom, changed, stage>> /\ stage = "sweep"
        /\ post[i] = root /\ i' = i - 1 /\ i > 0
    BY <1>8 DEF SkipRoot, order
  <2>2. ASSUME NEW m \in DOMAIN post, m > i', ~changed PROVE Settled(m)
    <3>1. m = i \/ m > i
      BY <1>1, <2>1, <2>2 DEF TypeOK
    <3> QED BY <2>1, <2>2, <3>1 DEF AboveInv, Sweeping, Settled
  <2> QED BY <2>1, <2>2, SettledKept DEF AboveInv
<1>9. CASE ~Sweeping'
  BY <1>9 DEF AboveInv, Sweeping
<1>10. CASE UNCHANGED vars
  <2>1. UNCHANGED <<succ, stage, post, idom, i, changed, todo, b1, b2>>
    BY <1>10 DEF vars
  <2>2. \A p : /\ Above(b1, p)' <=> Above(b1, p)
               /\ Above(b2, p)' <=> Above(b2, p)
    BY <2>1 DEF Above, Parent
  <2>3. TreeInv => TreeInv'
    BY <2>1 DEF TreeInv, Parent, InPost
  <2>4. stage = "meet" => \A p \in Preds(post[i]) : Met(p)'
    BY <2>1, <2>2 DEF AboveInv, Parent
  <2>5. Sweeping /\ ~changed => \A m \in DOMAIN post : m > i => Settled(m)'
    BY <2>1, SettledKept DEF AboveInv
  <2> QED BY <2>1, <2>3, <2>4, <2>5 DEF AboveInv, Preds, Succs, Sweeping
<1>11. Descend \/ Finish \/ CreateTrees => ~Sweeping'
  BY DEF Descend, Finish, CreateTrees, Sweeping
<1>12. Stopped => UNCHANGED vars
  BY DEF Stopped
<1> QED BY <1>2, <1>3, <1>4, <1>5, <1>6, <1>7, <1>8, <1>9, <1>10, <1>11, <1>12
        DEF Next, Work

-----------------------------------------------------------------------------
(* Dominance: theorems *)

\* Every step keeps the invariant of dominance.
LEMMA DomSteps == IInv /\ IInv' /\ DomInv /\ [Next]_vars => DomInv'
BY ClosedStep, FarStep, AboveStep DEF DomInv

\* What strictly dominates a block dominates its parent throughout, and after the
\* last sweep the parent is above every predecessor.
THEOREM DominanceInvariance == Spec => []DomInv
<1>1. Init => DomInv
  BY DEF Init, DomInv, ClosedInv, FarInv, AboveInv, Sweeping
<1> QED BY <1>1, DomSteps, Invariance, PTL DEF Spec

\* During the sweeps no parent is ever too far up, for every graph.
THEOREM ParentsAreFarEnoughDown == Spec => []NeverTooFarUp
<1>1. DomInv => NeverTooFarUp
  BY DEF DomInv, FarInv, NeverTooFarUp, Sweeping
<1> QED BY <1>1, DominanceInvariance, PTL

\* A sweep that has changed nothing leaves each block's parent above all of the
\* block's predecessors.  Then no edge but those from x leads from what is not
\* below x to what is, so that x dominates what is below it.
LEMMA AboveDominates ==
    ASSUME IInv, DomInv, stage = "frontier",
           NEW x \in Block, NEW b \in Block, InPost(b), Above(x, b)
    PROVE  Dominates(x, b)
<1>1. TypeOK /\ OrderInv /\ TreeInv /\ i = 0 /\ ~changed
  BY DEF IInv, DomInv, AboveInv
<1>2. DOMAIN post \subseteq Nat \ {0} /\ \A m \in DOMAIN post : post[m] \in Block
  BY <1>1 DEF TypeOK
<1> DEFINE S == {y \in Block : InPost(y) /\ ~Above(x, y)}
<1>3. root # x => root \in S
  <2> SUFFICES ASSUME root # x, Above(x, root) PROVE FALSE
    BY <1>1, RootAssumption DEF OrderInv
  <2>1. {root} \in SUBSET Block /\ Parent(root) = root
    BY <1>1, RootAssumption DEF TreeInv
  <2>2. x \in {root}
    BY <2>1 DEF Above
  <2> QED BY <2>2
<1>4. ASSUME NEW y \in S, NEW z \in SuccsOf(succ, y), z # x PROVE z \in S
  <2>1. y \in Block /\ InPost(y) /\ ~Above(x, y) /\ z \in Succs(y) /\ z \in Block
    BY <1>1, <1>4, SuccIsGraph
  <2>2. InPost(z)
    BY <1>1, <2>1 DEF DomInv, ClosedInv, InPost
  <2>3. PICK m \in DOMAIN post : post[m] = z
    BY <2>2 DEF InPost
  <2> SUFFICES ASSUME Above(x, z) PROVE FALSE
    BY <2>1, <2>2
  <2>4. z # root
    BY <1>3, <1>4
  <2>5. m > i
    BY <1>1, <1>2
  <2>6. y \in Preds(post[m]) /\ Parent(y) # None /\ Parent(z) # None
    <3>1. PICK n \in DOMAIN post : post[n] = y
      BY <2>1 DEF InPost
    <3>2. n > i
      BY <1>1, <1>2
    <3> QED BY <1>1, <2>1, <2>3, <2>5, <3>1, <3>2 DEF Preds, TreeInv
  <2>7. Above(Parent(z), y)
    BY <1>1, <2>3, <2>4, <2>5, <2>6 DEF DomInv, AboveInv, Sweeping, Settled
  <2>8. Parent(z) \in Block
    BY <1>1, <2>1, <2>6 DEF TypeOK, Parent
  <2>9. Above(x, Parent(z))
    BY <1>4, <2>1, <2>8, AboveParent
  <2> QED BY <2>1, <2>7, <2>8, <2>9, AboveFacts
<1>5. Avoiding(succ, root, x) \subseteq S
  <2> HIDE DEF S
  <2> QED BY <1>1, <1>3, <1>4, SuccIsGraph, ReachedIsLeast
<1> QED BY <1>5 DEF Dominates, DominatesIn

\* When the sweeps are over the parents are the closest strict dominators, for
\* every graph and every order of predecessors.
THEOREM ParentIsClosestDominator == Spec => []IDomIsClosest
<1>1. IInv /\ DomInv => IDomIsClosest
  <2> SUFFICES ASSUME IInv, DomInv, stage = "frontier", NEW b \in InUse(succ, root) \ {root}
               PROVE  /\ Parent(b) # b /\ Dominates(Parent(b), b)
                      /\ \A a \in Block \ {b} : Dominates(a, b) => Dominates(a, Parent(b))
    BY DEF IDomIsClosest
  <2>1. TypeOK /\ OrderInv /\ TreeInv /\ i = 0
    BY DEF IInv, DomInv, AboveInv
  <2>2. b \in Block
    BY <2>1, SuccIsGraph DEF InUse
  <2>3. CASE Parent(b) = None
    <3>1. ~InPost(b)
      <4>1. \A m \in DOMAIN post : m > i
        BY <2>1 DEF TypeOK
      <4> QED BY <2>1, <2>3, <4>1 DEF TreeInv, InPost
    <3> DEFINE S == {y \in Block : InPost(y)}
    <3>2. root \in S
      BY <2>1, RootAssumption DEF OrderInv
    <3>3. \A y \in S : \A z \in SuccsOf(succ, y) : z \in S
      BY <2>1, SuccIsGraph DEF DomInv, ClosedInv, InPost
    <3>4. Avoiding(succ, root, None) \subseteq S
      <4> HIDE DEF S
      <4> QED BY <2>1, <3>2, <3>3, SuccIsGraph, ReachedIsLeast
    <3>5. \A a : None \notin Avoiding(succ, root, a)
      BY <2>1, SuccIsGraph, ReachedGoesOn, RootAssumption
    <3> QED BY <2>2, <2>3, <3>1, <3>4, <3>5, RootAssumption DEF Dominates, DominatesIn
  <2>4. CASE Parent(b) # None
    <3>1. PICK m \in DOMAIN post : post[m] = b
      BY <2>1, <2>2, <2>4 DEF TreeInv, InPost
    <3>2. Parent(b) # b
      <4>1. PICK n \in DOMAIN post : n > m /\ post[n] = Parent(b)
        BY <2>1, <2>4, <3>1 DEF TreeInv
      <4>2. n # m
        BY <2>1, <4>1 DEF TypeOK
      <4> QED BY <2>1, <3>1, <4>1, <4>2 DEF OrderInv, Injective
    <3>3. Parent(b) \in Block
      BY <2>1, <2>2, <2>4 DEF TypeOK, Parent
    <3>4. Above(Parent(b), b)
      BY <2>2, <3>3, AboveFacts
    <3>5. Dominates(Parent(b), b)
      BY <2>2, <3>1, <3>3, <3>4, AboveDominates DEF InPost
    <3> QED BY <2>2, <2>4, <3>2, <3>5 DEF DomInv, FarInv, Sweeping
  <2> QED BY <2>3, <2>4
<1> QED BY <1>1, Invariance, DominanceInvariance, PTL

-----------------------------------------------------------------------------
(* The frontiers *)

\* The runner's way of k steps and fewer.
Way(b, k, f) ==
    f = [n \in 0 .. k |-> [x \in Block |->
           IF x = Parent(b) \/ n = 0 THEN {} ELSE {x} \cup f[n - 1][Parent(x)]]]

\* There is such a way of every length, by induction over the length.
LEMMA WaysExist ==
    ASSUME NEW b
    PROVE  \A k \in Nat : \E f : Way(b, k, f)
<1> DEFINE T == {k \in Nat : \E f : Way(b, k, f)}
           Step(n, h) == [x \in Block |-> IF x = Parent(b) \/ n = 0 THEN {} ELSE {x} \cup h[Parent(x)]]
<1>1. 0 \in T
  <2> DEFINE f == [n \in 0 .. 0 |-> [x \in Block |-> {}]]
  <2>1. Way(b, 0, f)
    BY DEF Way
  <2> QED BY <2>1
<1>2. ASSUME NEW k \in Nat, k \in T PROVE k + 1 \in T
  <2>1. PICK f : Way(b, k, f)
    BY <1>2
  <2> DEFINE m == k + 1
             h == [n \in 0 .. m |-> IF n = m THEN Step(m, f[k]) ELSE f[n]]
  <2>2. \A n \in 0 .. k : f[n] = Step(n, f[n - 1])
    BY <2>1 DEF Way
  <2> HIDE DEF Step
  <2>3. ASSUME NEW n \in 0 .. m PROVE h[n] = Step(n, h[n - 1])
    <3>1. CASE n = m
      <4>1. h[n] = Step(n, f[k]) /\ n - 1 = k /\ h[k] = f[k]
        BY <3>1
      <4> QED BY <4>1
    <3>2. CASE n # m /\ n # 0
      <4>1. n \in 0 .. k /\ h[n] = f[n] /\ h[n - 1] = f[n - 1]
        BY <3>2
      <4> QED BY <2>2, <4>1
    <3>3. CASE n # m /\ n = 0
      <4>1. n \in 0 .. k /\ h[n] = f[n]
        BY <3>3
      <4>2. \A g1, g2 : Step(0, g1) = Step(0, g2)
        BY DEF Step
      <4> QED BY <2>2, <3>3, <4>1, <4>2
    <3> QED BY <3>1, <3>2, <3>3
  <2> DEFINE h2 == [n \in 0 .. m |-> Step(n, h[n - 1])]
  <2>4. h = h2
    BY <2>3
  <2> HIDE DEF h
  <2>5. Way(b, m, h)
    BY <2>4 DEF Way, Step
  <2> QED BY <2>5
<1> HIDE DEF T
<1>3. Nat \subseteq T
  BY <1>1, <1>2, NatSetInduction
<1> QED BY <1>3 DEF T

\* The runner is what its definition says.
LEMMA RunnerIsWay ==
    ASSUME NEW b
    PROVE  \E f : Way(b, Cardinality(Block), f) /\ \A r : Runner(b, r) = f[Cardinality(Block)][r]
<1> DEFINE N == Cardinality(Block)
           f == CHOOSE h : Way(b, N, h)
<1>1. N \in Nat
  BY FS_CardinalityType, RootAssumption
<1>2. Way(b, N, f)
  BY <1>1, WaysExist
<1>3. \A r : Runner(b, r) = f[N][r]
  BY DEF Runner, Way
<1> QED BY <1>2, <1>3

\* The blocks above one in the order come later in it.
LEMMA AboveIsLater ==
    ASSUME IInv, DomInv, stage = "frontier", NEW m \in DOMAIN post, NEW x, Above(x, post[m])
    PROVE  \E n \in DOMAIN post : n >= m /\ post[n] = x
<1> DEFINE S == {y \in Block : \E n \in DOMAIN post : n >= m /\ post[n] = y}
<1>1. TypeOK /\ OrderInv /\ TreeInv /\ i = 0
  BY DEF IInv, DomInv, AboveInv
<1>2. \A n \in DOMAIN post : n \in Nat /\ post[n] \in Block
  BY <1>1 DEF TypeOK
<1>3. post[m] \in S
  BY <1>2
<1>4. ASSUME NEW c \in S PROVE Parent(c) \in S \cup {None}
  <2>1. PICK n \in DOMAIN post : n >= m /\ post[n] = c
    OBVIOUS
  <2>2. CASE c = root
    BY <1>1, <1>4, <2>2 DEF TreeInv
  <2>3. CASE c # root /\ Parent(c) # None
    <3>1. PICK h \in DOMAIN post : h > n /\ post[h] = Parent(c)
      BY <1>1, <2>1, <2>3 DEF TreeInv
    <3>2. h >= m /\ Parent(c) \in Block
      BY <1>2, <2>1, <3>1
    <3> QED BY <3>1, <3>2
  <2> QED BY <2>2, <2>3
<1>5. x \in S
  <2>1. S \in SUBSET Block
    OBVIOUS
  <2> HIDE DEF S
  <2> QED BY <1>3, <1>4, <2>1 DEF Above
<1> QED BY <1>5

\* A block that is reached is in the order.
LEMMA ReachedIsInPost ==
    ASSUME IInv, DomInv, stage # "visit", NEW p \in Avoiding(succ, root, None)
    PROVE  p \in Block /\ InPost(p)
<1> DEFINE S == {y \in Block : InPost(y)}
<1>1. TypeOK /\ OrderInv
  BY DEF IInv
<1>2. root \in S
  BY <1>1, RootAssumption DEF OrderInv
<1>3. \A y \in S : \A z \in SuccsOf(succ, y) : z \in S
  BY <1>1, SuccIsGraph DEF DomInv, ClosedInv, InPost
<1>4. Avoiding(succ, root, None) \subseteq S
  <2> HIDE DEF S
  <2> QED BY <1>1, <1>2, <1>3, SuccIsGraph, ReachedIsLeast
<1> QED BY <1>4

\* What dominates a block is above it: on the way up from the block everything is
\* dominated until the dominator is met.
LEMMA DominatorIsAbove ==
    ASSUME IInv, DomInv, stage = "frontier",
           NEW a \in Block, NEW m \in DOMAIN post, Dominates(a, post[m])
    PROVE  Above(a, post[m])
<1> SUFFICES ASSUME ~Above(a, post[m]) PROVE FALSE
  OBVIOUS
<1> DEFINE x == post[m]
           T == {n \in DOMAIN post : Dominates(a, post[n]) /\ Above(post[n], x)}
<1>1. TypeOK /\ OrderInv /\ TreeInv /\ i = 0
  BY DEF IInv, DomInv, AboveInv
<1>2. Len(post) \in Nat /\ DOMAIN post = 1 .. Len(post) /\ \A n \in DOMAIN post : post[n] \in Block
  BY <1>1 DEF TypeOK
<1>3. m \in T
  BY <1>2, AboveFacts
<1>4. PICK n \in T : \A h \in T : h <= n
  <2>1. T \subseteq Nat /\ T # {} /\ \A h \in T : h <= Len(post)
    BY <1>2, <1>3
  <2> HIDE DEF T
  <2> QED BY <1>2, <2>1, GreatestNumber
<1>5. n \in DOMAIN post /\ Dominates(a, post[n]) /\ Above(post[n], x) /\ post[n] # a
  OBVIOUS
<1>6. post[n] # root
  BY <1>1, <1>5, SuccIsGraph, ReachedGoesOn DEF Dominates, DominatesIn
<1>7. Parent(post[n]) # None
  BY <1>1, <1>2, <1>5 DEF TreeInv
<1>8. PICK h \in DOMAIN post : h > n /\ post[h] = Parent(post[n])
  BY <1>1, <1>5, <1>6, <1>7 DEF TreeInv
<1>9. Dominates(a, post[h])
  BY <1>2, <1>5, <1>6, <1>7, <1>8 DEF DomInv, FarInv, Sweeping
<1>10. Above(post[h], x)
  BY <1>2, <1>5, <1>8, AboveFacts
<1> QED BY <1>2, <1>4, <1>5, <1>8, <1>9, <1>10

\* The runner passes what is above the predecessor and not above the parent.
LEMMA RunnerPasses ==
    ASSUME IInv, DomInv, stage = "frontier", NEW b \in Block,
           NEW h \in DOMAIN post, post[h] = Parent(b),
           NEW p \in DOMAIN post, Above(Parent(b), post[p])
    PROVE  Runner(b, post[p]) = {y \in Block : Above(y, post[p]) /\ ~Above(y, Parent(b))}
<1> DEFINE N == Cardinality(Block)
           last == Len(post)
           Part(x) == {y \in Block : Above(y, x) /\ ~Above(y, Parent(b))}
<1>1. TypeOK /\ OrderInv /\ TreeInv /\ i = 0
  BY DEF IInv, DomInv, AboveInv
<1>2. last \in Nat /\ DOMAIN post = 1 .. last /\ \A n \in DOMAIN post : post[n] \in Block
  BY <1>1 DEF TypeOK
<1>3. N \in Nat /\ last <= N
  <2>1. N \in Nat
    BY FS_CardinalityType, RootAssumption
  <2>2. post \in Injection(1 .. last, Block)
    BY <1>1, <1>2 DEF Injection, IsInjective, TypeOK, OrderInv, Injective
  <2>3. Cardinality(1 .. last) <= N
    BY <2>2, FS_Injection, RootAssumption
  <2>4. Cardinality(1 .. last) = last
    <3>1. 1 \in Int /\ last \in Int
      BY <1>2
    <3>2. Cardinality(1 .. last) = IF 1 > last THEN 0 ELSE last - 1 + 1
      BY <3>1, FS_Interval
    <3> QED BY <1>2, <3>2
  <2> QED BY <2>1, <2>3, <2>4
<1>4. PICK f : Way(b, N, f) /\ \A r : Runner(b, r) = f[N][r]
  BY RunnerIsWay
<1>5. /\ \A x \in Block : f[0][x] = {}
      /\ \A n \in 1 .. N : \A x \in Block :
           f[n][x] = IF x = Parent(b) THEN {} ELSE {x} \cup f[n - 1][Parent(x)]
  <2>1. \A n \in 0 .. N : f[n] = [x \in Block |-> IF x = Parent(b) \/ n = 0 THEN {}
                                              ELSE {x} \cup f[n - 1][Parent(x)]]
    BY <1>4 DEF Way
  <2>2. 0 \in 0 .. N /\ \A n \in 1 .. N : n \in 0 .. N /\ n # 0
    BY <1>3
  <2> HIDE DEF N
  <2>3. ASSUME NEW n \in 0 .. N, NEW x \in Block
        PROVE  f[n][x] = IF x = Parent(b) \/ n = 0 THEN {} ELSE {x} \cup f[n - 1][Parent(x)]
    BY <2>1
  <2> QED BY <2>2, <2>3
<1>6. Part(Parent(b)) = {}
  OBVIOUS
<1>7. ASSUME NEW m \in DOMAIN post, Above(Parent(b), post[m]), post[m] # Parent(b)
      PROVE  \E n \in DOMAIN post :
               /\ n > m /\ post[n] = Parent(post[m])
               /\ Above(Parent(b), post[n])
               /\ Part(post[m]) = {post[m]} \cup Part(post[n])
  <2> DEFINE x == post[m]
  <2>1. PICK g \in DOMAIN post : g >= m /\ post[g] = Parent(b)
    BY <1>7, AboveIsLater
  <2>2. g > m
    BY <1>2, <1>7, <2>1
  <2>3. x # root
    BY <1>1, <2>2, RootIsLast, <1>2
  <2>4. Parent(x) # None
    BY <1>1, <1>2 DEF TreeInv
  <2>5. PICK n \in DOMAIN post : n > m /\ post[n] = Parent(x)
    BY <1>1, <2>3, <2>4 DEF TreeInv
  <2>6. Above(Parent(b), Parent(x)) /\ Parent(x) \in Block /\ Parent(b) \in Block
    BY <1>2, <1>7, <2>1, <2>5, AboveParent
  <2>7. ~Above(x, Parent(b))
    <3> SUFFICES ASSUME Above(x, Parent(b)) PROVE FALSE
      OBVIOUS
    <3>1. PICK c \in DOMAIN post : c >= g /\ post[c] = x
      BY <2>1, AboveIsLater
    <3>2. c = m
      BY <1>1, <3>1 DEF OrderInv, Injective
    <3> QED BY <1>2, <2>1, <2>2, <3>1, <3>2
  <2>8. ASSUME NEW y \in Block, y # x PROVE Above(y, x) <=> Above(y, Parent(x))
    <3>1. Above(Parent(x), x)
      BY <1>2, <2>6, AboveFacts
    <3> QED BY <1>2, <2>6, <2>8, <3>1, AboveFacts, AboveParent
  <2>9. Above(x, x)
    BY <1>2, AboveFacts
  <2> HIDE DEF x
  <2>10. Part(x) = {x} \cup Part(Parent(x))
    BY <1>2, <2>7, <2>8, <2>9 DEF x
  <2> QED BY <2>5, <2>6, <2>10 DEF x
<1> DEFINE Passed(n) == \A m \in DOMAIN post :
                          Above(Parent(b), post[m]) /\ last - m <= n => f[n][post[m]] = Part(post[m])
           T == {n \in Nat : n <= N => Passed(n)}
<1> HIDE DEF Part
<1>8. 0 \in T
  <2> SUFFICES ASSUME NEW m \in DOMAIN post, Above(Parent(b), post[m]), last - m <= 0
               PROVE  f[0][post[m]] = Part(post[m])
    OBVIOUS
  <2>1. \A n \in DOMAIN post : ~(n > m)
    BY <1>2
  <2>2. post[m] = Parent(b)
    BY <1>7, <2>1
  <2> QED BY <1>2, <1>5, <1>6, <2>2
<1>9. ASSUME NEW n \in Nat, n \in T PROVE n + 1 \in T
  <2> SUFFICES ASSUME n + 1 <= N, NEW m \in DOMAIN post,
                      Above(Parent(b), post[m]), last - m <= n + 1
               PROVE  f[n + 1][post[m]] = Part(post[m])
    OBVIOUS
  <2>1. f[n + 1][post[m]] = IF post[m] = Parent(b) THEN {} ELSE {post[m]} \cup f[n][Parent(post[m])]
    <3> DEFINE k == n + 1
    <3>1. k \in 1 .. N /\ k - 1 = n
      BY <1>3
    <3> HIDE DEF k, N
    <3>2. f[k][post[m]] = IF post[m] = Parent(b) THEN {} ELSE {post[m]} \cup f[n][Parent(post[m])]
      <4>1. \A x \in Block : f[k][x] = IF x = Parent(b) THEN {} ELSE {x} \cup f[k - 1][Parent(x)]
        BY <1>5, <3>1
      <4>2. post[m] \in Block
        BY <1>2
      <4> QED BY <3>1, <4>1, <4>2
    <3> QED BY <3>2 DEF k
  <2>2. CASE post[m] = Parent(b)
    BY <1>6, <2>1, <2>2
  <2>3. CASE post[m] # Parent(b)
    <3>1. PICK c \in DOMAIN post :
            /\ c > m /\ post[c] = Parent(post[m])
            /\ Above(Parent(b), post[c])
            /\ Part(post[m]) = {post[m]} \cup Part(post[c])
      BY <1>7, <2>3
    <3>2. last - c <= n /\ n <= N
      <4>1. c \in Nat /\ m \in Nat
        BY <1>2
      <4> HIDE DEF T, last, N
      <4> QED BY <1>2, <1>3, <3>1, <4>1
    <3>3. f[n][post[c]] = Part(post[c])
      BY <1>9, <3>1, <3>2
    <3> QED BY <2>1, <2>3, <3>1, <3>3
  <2> QED BY <2>2, <2>3
<1> HIDE DEF T
<1>10. N \in T
  BY <1>3, <1>8, <1>9, NatSetInduction
<1>11. last - p <= N
  BY <1>2, <1>3
<1> HIDE DEF N, last
<1>12. f[N][post[p]] = Part(post[p])
  <2>1. Passed(N)
    <3> HIDE DEF Passed
    <3> QED BY <1>3, <1>10 DEF T
  <2> QED BY <1>11, <2>1
<1> QED BY <1>4, <1>12 DEF Part

\* The runners' frontiers are where dominance ends, in a graph that the analyses
\* are asked about.
LEMMA TreesAreExact == IInv /\ DomInv /\ CreateTrees => FrontierIsExact'
<1> SUFFICES ASSUME IInv, DomInv, CreateTrees, NEW a \in Block
             PROVE  DF'[a] = FrontierOf(succ, root, a)
  BY DEF FrontierIsExact, CreateTrees
<1>1. TypeOK /\ OrderInv /\ TreeInv /\ i = 0 /\ ~changed /\ stage = "frontier"
  BY DEF IInv, DomInv, AboveInv, CreateTrees
<1>2. /\ DOMAIN post \subseteq Nat \ {0} /\ \A n \in DOMAIN post : post[n] \in Block /\ n > i
      /\ DOMAIN succ = Block
  BY <1>1, SuccIsGraph DEF TypeOK
<1> DEFINE Passed(b) == Cardinality(Preds(b)) >= 2 /\ \E p \in Preds(b) : a \in Runner(b, p)
           Ends(b) == /\ \E p \in Preds(b) : Dominates(a, p)
                      /\ a = b \/ ~Dominates(a, b)
<1>3. ASSUME NEW b \in Block, NEW p \in Preds(b)
      PROVE  /\ b # root /\ p \in Block
             /\ \E m \in DOMAIN post : post[m] = b
             /\ \E n \in DOMAIN post : post[n] = p
             /\ Parent(p) # None
  <2>1. p \in Block /\ b \in SuccsOf(succ, p)
    BY <1>1, SuccIsGraph DEF Preds
  <2>2. b # root /\ p \in Avoiding(succ, root, None)
    BY <1>1, <2>1, FlowAssumption DEF TypeOK
  <2>3. InPost(p)
    BY <1>1, <2>2, ReachedIsInPost
  <2>4. InPost(b)
    BY <1>1, <2>1, <2>3, SuccIsGraph DEF DomInv, ClosedInv, InPost
  <2>5. Parent(p) # None
    BY <1>1, <1>2, <2>3 DEF TreeInv, InPost
  <2> QED BY <2>1, <2>2, <2>3, <2>4, <2>5 DEF InPost
<1>4. ASSUME NEW b \in Block, NEW p \in Preds(b)
      PROVE  a \in Runner(b, p) <=> Dominates(a, p) /\ (a = b \/ ~Dominates(a, b))
  <2>1. PICK m \in DOMAIN post : post[m] = b
    BY <1>3
  <2>2. PICK n \in DOMAIN post : post[n] = p
    BY <1>3
  <2>3. b # root /\ p \in Block /\ Parent(p) # None
    BY <1>3
  <2>4. PICK h \in DOMAIN post : h > m /\ post[h] = Parent(b)
    BY <1>1, <1>2, <2>1, <2>3 DEF TreeInv
  <2>5. Above(Parent(b), p)
    BY <1>1, <1>2, <2>1, <2>3 DEF DomInv, AboveInv, Sweeping, Settled
  <2>6. a \in Runner(b, p) <=> Above(a, p) /\ ~Above(a, Parent(b))
    <3>1. Runner(b, post[n]) = {y \in Block : Above(y, post[n]) /\ ~Above(y, Parent(b))}
      BY <1>1, <2>2, <2>4, <2>5, RunnerPasses
    <3> QED BY <2>2, <3>1
  <2>7. Above(a, p) <=> Dominates(a, p)
    BY <1>1, <2>2, <2>3, AboveDominates, DominatorIsAbove DEF InPost
  <2>8. Parent(b) \in Block /\ InPost(Parent(b)) /\ Parent(b) # None
    BY <1>2, <2>4, RootAssumption DEF InPost
  <2>9. Above(a, Parent(b)) <=> Dominates(a, Parent(b))
    BY <1>1, <2>4, <2>8, AboveDominates, DominatorIsAbove
  <2>10. Above(a, Parent(b)) => a # b /\ Dominates(a, b)
    <3> SUFFICES ASSUME Above(a, Parent(b)) PROVE a # b /\ Dominates(a, b)
      OBVIOUS
    <3>1. PICK c \in DOMAIN post : c >= h /\ post[c] = a
      BY <1>1, <2>4, AboveIsLater
    <3>2. c # m
      BY <1>2, <2>4, <3>1
    <3>3. a # b
      BY <1>1, <2>1, <3>1, <3>2 DEF OrderInv, Injective
    <3>4. Above(a, b)
      BY <2>8, AboveFacts
    <3> QED BY <1>1, <2>1, <3>3, <3>4, AboveDominates DEF InPost
  <2>11. a # b /\ Dominates(a, b) => Dominates(a, Parent(b))
    BY <1>1, <2>3, <2>8 DEF DomInv, FarInv, Sweeping
  <2> QED BY <2>6, <2>7, <2>9, <2>10, <2>11
<1>5. ASSUME NEW b \in Block, Ends(b) PROVE Cardinality(Preds(b)) >= 2
  <2>1. PICK p \in Preds(b) : Dominates(a, p) /\ (a = b \/ ~Dominates(a, b))
    BY <1>5
  <2>2. b # root /\ p \in Block
    BY <1>3
  <2>3. ASSUME Preds(b) = {p} PROVE FALSE
    <3>1. PICK m \in DOMAIN post : post[m] = b
      BY <1>3
    <3>2. PICK n \in DOMAIN post : n > m /\ post[n] = p
      BY <1>1, <2>2, <2>3, <3>1 DEF OrderInv
    <3>3. p # b
      BY <1>1, <1>2, <3>1, <3>2 DEF OrderInv, Injective
    <3>4. Dominates(p, b)
      <4> DEFINE S == Block \ {b, p}
      <4>1. root # p => root \in S
        BY <2>2, RootAssumption
      <4>2. \A c \in S \cap DOMAIN succ : \A d \in SuccsOf(succ, c) : d # p => d \in S
        BY <1>1, <2>3, SuccIsGraph DEF Preds
      <4>3. Avoiding(succ, root, p) \subseteq S
        <5> HIDE DEF S
        <5> QED BY <1>1, <4>1, <4>2, SuccIsGraph, ReachedIsLeast
      <4> QED BY <4>3 DEF Dominates, DominatesIn
    <3>5. Dominates(a, b)
      BY <1>1, <2>1, <2>2, <3>4, SuccIsGraph, DominanceIsTransitive DEF Dominates
    <3>6. a = b
      BY <2>1, <3>5
    <3>7. PICK c \in DOMAIN post : c >= n /\ post[c] = a
      <4>1. Above(a, p)
        BY <1>1, <2>1, <3>2, DominatorIsAbove
      <4> QED BY <1>1, <3>2, <4>1, AboveIsLater
    <3>8. c = m
      BY <1>1, <3>1, <3>6, <3>7 DEF OrderInv, Injective
    <3> QED BY <1>2, <3>2, <3>7, <3>8
  <2>4. IsFiniteSet(Preds(b))
    <3>1. Preds(b) \subseteq Block
      BY DEF Preds
    <3> QED BY <3>1, FS_Subset, RootAssumption
  <2>5. Cardinality(Preds(b)) \in Nat /\ Cardinality(Preds(b)) # 0
    BY <2>1, <2>4, FS_CardinalityType, FS_EmptySet
  <2>6. Cardinality(Preds(b)) # 1
    <3> SUFFICES ASSUME Cardinality(Preds(b)) = 1 PROVE FALSE
      OBVIOUS
    <3>1. PICK x : Preds(b) = {x}
      BY <2>4, FS_Singleton
    <3> QED BY <2>1, <2>3, <3>1
  <2> QED BY <2>5, <2>6
<1>6. \A b \in Block : Passed(b) <=> Ends(b)
  BY <1>4, <1>5
<1>7. DF'[a] = {b \in Block : Passed(b)}
  BY DEF CreateTrees
<1>8. FrontierOf(succ, root, a) = {b \in Block : Ends(b)}
  <2>1. \A b \in Block : PredsOf(succ, b) = Preds(b)
    BY <1>1, SuccIsGraph DEF PredsOf, Preds
  <2> QED BY <1>2, <2>1 DEF FrontierOf, Dominates
<1> HIDE DEF Passed, Ends
<1> QED BY <1>6, <1>7, <1>8

\* Every other step leaves them alone.
LEMMA FrontierSteps == IInv /\ DomInv /\ FrontierIsExact /\ [Next]_vars => FrontierIsExact'
<1> SUFFICES ASSUME IInv, DomInv, FrontierIsExact, [Next]_vars PROVE FrontierIsExact'
  OBVIOUS
<1>1. CASE CreateTrees
  BY <1>1, TreesAreExact
<1>2. CASE UNCHANGED vars \/ Stopped
  BY <1>2 DEF Stopped, vars, FrontierIsExact
<1>3. CASE \/ Descend \/ Finish \/ StartIDom \/ NextBlock \/ SkipRoot
           \/ Climb \/ NextPred \/ SetIDom \/ EndSweep
  <2>1. stage' # "done"
    BY <1>3 DEF Descend, Finish, StartIDom, NextBlock, SkipRoot, Climb, NextPred, SetIDom, EndSweep
  <2> QED BY <2>1 DEF FrontierIsExact
<1> QED BY <1>1, <1>2, <1>3 DEF Next, Work

\* When LoopFind and the passes behind it ask, the frontier of a block is where its
\* dominance ends, in every graph that has no jump to the entry and none from a
\* block that cannot be reached.
THEOREM FrontiersAreWhereDominanceEnds == SpecBoth => []FrontiersExact
<1> DEFINE All == IInv /\ DomInv /\ FrontierIsExact
<1>1. InitBoth => All
  BY Initially DEF InitBoth, Init, DomInv, ClosedInv, FarInv, AboveInv, Sweeping, FrontierIsExact
<1>2. All /\ [NextBoth]_<<vars, lfvars>> => All'
  <2>1. [NextBoth]_<<vars, lfvars>> => [Next]_vars
    BY DEF NextBoth, FindDominators, FindLoops, BothStopped, Next
  <2> QED BY <2>1, Steps, DomSteps, FrontierSteps
<1>3. All => FrontiersExact
  BY DEF FrontiersExact
<1> HIDE DEF All
<1> QED BY <1>1, <1>2, <1>3, PTL DEF SpecBoth
-----------------------------------------------------------------------------
(***************************************************************************)
(* LoopFind finds the natural loops: LoopsFound of FlowAnalyses.           *)
(*                                                                         *)
(* A round of LoopFind::run is a search for the strongly connected         *)
(* components of the blocks that are no base yet.  Its invariant SearchOK  *)
(* is about the numbers and links of the blocks on the stack, whatever the *)
(* graph; it gives that what is popped when a traverse ends is a component *)
(* (PopsComponent).  Where every cycle is entered through one block, such  *)
(* a component is the whole natural loop of a header that is inside no     *)
(* other loop still to be found, and the block findLoopBase takes is that  *)
(* header, for a natural loop is entered nowhere else (BaseFacts).  Later  *)
(* rounds find inner loops only, which is why the base a block has in the  *)
(* end is the one of the innermost loop around it.                         *)
(***************************************************************************)

-----------------------------------------------------------------------------
(* The search: of a graph g, in a set N of its blocks, ix and low giving   *)
(* index and link of a block, K being the blocks on the stack, C the ones  *)
(* whose traverse has begun and not ended, P the edges it has yet to see   *)

Seen(N, ix) == {n \in N : ix[n] # -1}

\* Indices are numbers, each of one block.
Indexed(N, ix) ==
    /\ \A n \in Seen(N, ix) : ix[n] \in Nat
    /\ \A m, n \in Seen(N, ix) : ix[m] = ix[n] => m = n

\* An edge of a block that was seen leads to a block that was seen, or is left.
EdgesLeft(g, N, ix, K, C, P) ==
    /\ K \subseteq Seen(N, ix) /\ C \subseteq K
    /\ \A n, s : <<n, s>> \in P => n \in C /\ s \in SuccsOf(g, n) /\ s \in N
    /\ \A n \in Seen(N, ix) : \A s \in SuccsOf(g, n) : s \in N => s \in Seen(N, ix) \/ <<n, s>> \in P
    /\ \A d \in Seen(N, ix) \ K : \A s \in SuccsOf(g, d) : s \in N => s \in Seen(N, ix) \ K

\* The link of a block is the index of a block on the stack that it reaches, and
\* of an earlier one when its traverse has ended.
Linked(g, N, ix, low, K, C) ==
    \A n \in K : /\ low[n] \in Nat /\ low[n] <= ix[n]
                 /\ n \notin C => low[n] # ix[n]
                 /\ \E m \in K : ix[m] = low[n] /\ (m = n \/ m \in WithinFrom(g, N, n))

\* A block whose traverse goes on reaches what came after it; an edge between
\* blocks on the stack that was looked at has lowered the link of one of the
\* blocks whose traverse goes on, one no earlier than any that is before its
\* source.
Traversed(g, N, ix, low, K, C, P) ==
    /\ \A c \in C : \A n \in K : ix[c] <= ix[n] => n = c \/ n \in WithinFrom(g, N, c)
    /\ \A n, s \in K : s \in SuccsOf(g, n) /\ <<n, s>> \notin P =>
         \A c \in C : ix[c] <= ix[n] =>
           \E b \in C : ix[c] <= ix[b] /\ ix[b] <= ix[n] /\ low[b] <= ix[s]

SearchOK(g, N, ix, low, K, C, P) ==
    /\ Indexed(N, ix)
    /\ EdgesLeft(g, N, ix, K, C, P)
    /\ Linked(g, N, ix, low, K, C)
    /\ Traversed(g, N, ix, low, K, C, P)

\* The innermost call is the one of n.
Innermost(ix, C, n) == n \in C /\ \A c \in C : ix[c] <= ix[n]

\* traverse begins for s, from nowhere or on an edge of the innermost call.
Entering(g, N, ix, low, K, C, P, s, n, ix2, low2, P2) ==
    /\ SearchOK(g, N, ix, low, K, C, P)
    /\ s \in N /\ ix[s] = -1
    /\ ix2[s] \in Nat /\ low2[s] = ix2[s]
    /\ \A m \in Seen(N, ix) : ix[m] < ix2[s]
    /\ \A m \in N : m # s => ix2[m] = ix[m] /\ low2[m] = low[m]
    /\ C = {} \/ (Innermost(ix, C, n) /\ <<n, s>> \in P)
    /\ \A a, b : <<a, b>> \in P2 <=> \/ <<a, b>> \in P /\ ~(a = n /\ b = s)
                                     \/ a = s /\ b \in SuccsOf(g, s) /\ b \in N

\* When traverse begins for a block, the invariant of the search is kept.
LEMMA EnterKeeps ==
    ASSUME NEW g, NEW N, IsFiniteSet(N), NEW ix, NEW low, NEW K, NEW C, NEW P,
           NEW s, NEW n, NEW ix2, NEW low2, NEW P2, Entering(g, N, ix, low, K, C, P, s, n, ix2, low2, P2)
    PROVE  SearchOK(g, N, ix2, low2, K \cup {s}, C \cup {s}, P2)
<1> DEFINE num == ix2[s]
<1> USE DEF Entering
<1> DEFINE R(x) == WithinFrom(g, N, x)
<1>1. Seen(N, ix2) = Seen(N, ix) \cup {s} /\ s \notin Seen(N, ix)
  BY DEF Seen
<1>2. \A m \in Seen(N, ix) : m # s /\ m \in N /\ ix2[m] = ix[m] /\ low2[m] = low[m] /\ ix[m] \in Nat /\ ix[m] < num
  BY DEF Seen, SearchOK, Indexed
<1>3. Indexed(N, ix2)
  BY <1>1, <1>2 DEF SearchOK, Indexed
<1>4. K \subseteq Seen(N, ix) /\ C \subseteq K
  BY DEF SearchOK, EdgesLeft
<1>5. \A a, b : <<a, b>> \in P => a \in C /\ b \in SuccsOf(g, a) /\ b \in N
  BY DEF SearchOK, EdgesLeft
<1>6. EdgesLeft(g, N, ix2, K \cup {s}, C \cup {s}, P2)
  <2>1. \A a, b : <<a, b>> \in P2 => a \in C \cup {s} /\ b \in SuccsOf(g, a) /\ b \in N
    BY <1>5
  <2>2. ASSUME NEW a \in Seen(N, ix2), NEW b \in SuccsOf(g, a), b \in N
        PROVE  b \in Seen(N, ix2) \/ <<a, b>> \in P2
    <3>1. CASE a = s
      BY <2>2, <3>1
    <3>2. CASE a # s
      <4>1. b \in Seen(N, ix) \/ <<a, b>> \in P
        BY <1>1, <2>2, <3>2 DEF SearchOK, EdgesLeft
      <4> QED BY <1>1, <4>1
    <3> QED BY <3>1, <3>2
  <2>3. \A d \in Seen(N, ix2) \ (K \cup {s}) : \A b \in SuccsOf(g, d) :
           b \in N => b \in Seen(N, ix2) \ (K \cup {s})
    <3>1. \A d \in Seen(N, ix) \ K : \A b \in SuccsOf(g, d) : b \in N => b \in Seen(N, ix) \ K
      BY DEF SearchOK, EdgesLeft
    <3> QED BY <1>1, <3>1
  <2> QED BY <1>1, <1>4, <2>1, <2>2, <2>3 DEF EdgesLeft
<1>7. Linked(g, N, ix2, low2, K \cup {s}, C \cup {s})
  <2>1. ASSUME NEW a \in K
        PROVE  /\ low2[a] \in Nat /\ low2[a] <= ix2[a]
               /\ a \notin C => low2[a] # ix2[a]
               /\ \E m \in K : ix2[m] = low2[a] /\ (m = a \/ m \in R(a))
    <3>1. /\ low[a] \in Nat /\ low[a] <= ix[a]
          /\ a \notin C => low[a] # ix[a]
          /\ \E m \in K : ix[m] = low[a] /\ (m = a \/ m \in R(a))
      BY DEF SearchOK, Linked
    <3> HIDE DEF R
    <3> QED BY <1>2, <1>4, <3>1
  <2> QED BY <2>1 DEF Linked
<1>8. Traversed(g, N, ix2, low2, K \cup {s}, C \cup {s}, P2)
  <2>1. ASSUME NEW c \in C \cup {s}, NEW a \in K \cup {s}, ix2[c] <= ix2[a]
        PROVE  a = c \/ a \in R(c)
    <3>1. CASE c = s
      BY <1>2, <1>4, <2>1, <3>1
    <3>2. CASE c \in C
      <4>1. \A x \in K : ix[c] <= ix[x] => x = c \/ x \in R(c)
        BY <3>2 DEF SearchOK, Traversed
      <4>2. CASE a \in K
        BY <1>2, <1>4, <2>1, <3>2, <4>1, <4>2
      <4>3. CASE a = s
        <5>1. n \in K /\ ix[c] <= ix[n] /\ s \in SuccsOf(g, n)
          BY <1>4, <1>5, <3>2 DEF Innermost
        <5>2. n = c \/ n \in R(c)
          BY <4>1, <5>1
        <5> QED BY <4>3, <5>1, <5>2, WithinGoesOn
      <4> QED BY <4>2, <4>3
    <3> QED BY <3>1, <3>2
  <2>2. ASSUME NEW a \in K \cup {s}, NEW b \in K \cup {s}, b \in SuccsOf(g, a), <<a, b>> \notin P2,
               NEW c \in C \cup {s}, ix2[c] <= ix2[a]
        PROVE  \E e \in C \cup {s} : ix2[c] <= ix2[e] /\ ix2[e] <= ix2[a] /\ low2[e] <= ix2[b]
    <3>1. a # s /\ a \in K
      BY <1>1, <1>4, <2>2 DEF Seen
    <3>2. c # s /\ c \in C
      BY <1>2, <1>4, <2>2, <3>1
    <3>3. ix[c] <= ix[a]
      BY <1>2, <1>4, <2>2, <3>1, <3>2
    <3>4. CASE b = s
      <4>1. <<a, s>> \in P
        BY <1>1, <1>4, <2>2, <3>1, <3>4 DEF SearchOK, EdgesLeft
      <4>2. a = n /\ n \in C
        BY <1>5, <2>2, <3>4, <4>1
      <4>3. low[n] <= ix[n] /\ low[n] \in Nat
        BY <1>4, <4>2 DEF SearchOK, Linked
      <4>4. ix2[n] = ix[n] /\ low2[n] = low[n] /\ ix[n] \in Nat /\ ix[n] < num /\ ix2[c] = ix[c]
        BY <1>2, <1>4, <3>2, <4>2
      <4>5. ix2[c] <= ix2[n] /\ ix2[n] <= ix2[a] /\ low2[n] <= ix2[b]
        BY <3>3, <3>4, <4>2, <4>3, <4>4
      <4> QED BY <4>2, <4>5
    <3>5. CASE b # s
      <4>1. b \in K /\ <<a, b>> \notin P
        BY <2>2, <3>5
      <4>2. PICK e \in C : ix[c] <= ix[e] /\ ix[e] <= ix[a] /\ low[e] <= ix[b]
        BY <2>2, <3>1, <3>2, <3>3, <4>1 DEF SearchOK, Traversed
      <4> QED BY <1>2, <1>4, <3>1, <3>2, <4>1, <4>2
    <3> QED BY <3>4, <3>5
  <2> QED BY <2>1, <2>2 DEF Traversed
<1> QED BY <1>3, <1>6, <1>7, <1>8 DEF SearchOK

\* An edge to a block that was seen is looked at: the link is lowered when the
\* block is on the stack.
LooksAt(g, N, ix, low, K, C, P, n, s, low2, P2) ==
    /\ SearchOK(g, N, ix, low, K, C, P)
    /\ Innermost(ix, C, n) /\ <<n, s>> \in P /\ s \in Seen(N, ix)
    /\ \A m \in N : m # n => low2[m] = low[m]
    /\ low2[n] = IF s \in K /\ ix[s] < low[n] THEN ix[s] ELSE low[n]
    /\ \A a, b : <<a, b>> \in P2 <=> <<a, b>> \in P /\ ~(a = n /\ b = s)

\* When traverse looks at an edge to a block that was seen, it is kept.
LEMMA EdgeKeeps ==
    ASSUME NEW g, NEW N, IsFiniteSet(N), NEW ix, NEW low, NEW K, NEW C, NEW P,
           NEW n, NEW s, NEW low2, NEW P2, LooksAt(g, N, ix, low, K, C, P, n, s, low2, P2)
    PROVE  SearchOK(g, N, ix, low2, K, C, P2)
<1> USE DEF LooksAt
<1> DEFINE R(x) == WithinFrom(g, N, x)
<1>1. n \in C /\ n \in K /\ C \subseteq K /\ K \subseteq Seen(N, ix) /\ s \in SuccsOf(g, n) /\ s \in N
  BY DEF Innermost, SearchOK, EdgesLeft
<1>2. \A m \in Seen(N, ix) : m \in N /\ ix[m] \in Nat
  BY DEF Seen, SearchOK, Indexed
<1>3. \A m \in K : /\ low[m] \in Nat /\ low[m] <= ix[m]
                   /\ low2[m] \in Nat /\ low2[m] <= low[m]
  <2>1. \A m \in K : low[m] \in Nat /\ low[m] <= ix[m]
    BY DEF SearchOK, Linked
  <2> QED BY <1>1, <1>2, <2>1
<1>4. EdgesLeft(g, N, ix, K, C, P2)
  <2>1. /\ K \subseteq Seen(N, ix) /\ C \subseteq K
        /\ \A a, b : <<a, b>> \in P => a \in C /\ b \in SuccsOf(g, a) /\ b \in N
        /\ \A a \in Seen(N, ix) : \A b \in SuccsOf(g, a) : b \in N => b \in Seen(N, ix) \/ <<a, b>> \in P
        /\ \A d \in Seen(N, ix) \ K : \A b \in SuccsOf(g, d) : b \in N => b \in Seen(N, ix) \ K
    BY DEF SearchOK, EdgesLeft
  <2> QED BY <2>1 DEF EdgesLeft
<1>5. Linked(g, N, ix, low2, K, C)
  <2>1. ASSUME NEW a \in K
        PROVE  /\ a \notin C => low2[a] # ix[a]
               /\ \E m \in K : ix[m] = low2[a] /\ (m = a \/ m \in R(a))
    <3>1. /\ a \notin C => low[a] # ix[a]
          /\ \E m \in K : ix[m] = low[a] /\ (m = a \/ m \in R(a))
      BY DEF SearchOK, Linked
    <3>2. s \in R(n)
      BY <1>1, WithinGoesOn
    <3> HIDE DEF R
    <3> QED BY <1>1, <1>2, <3>1, <3>2
  <2>2. \A a \in K : low2[a] \in Nat /\ low2[a] <= ix[a]
    BY <1>1, <1>2, <1>3
  <2> QED BY <2>1, <2>2 DEF Linked
<1>6. Traversed(g, N, ix, low2, K, C, P2)
  <2>1. \A c \in C : \A a \in K : ix[c] <= ix[a] => a = c \/ a \in WithinFrom(g, N, c)
    BY DEF SearchOK, Traversed
  <2>2. ASSUME NEW a \in K, NEW b \in K, b \in SuccsOf(g, a), <<a, b>> \notin P2,
               NEW c \in C, ix[c] <= ix[a]
        PROVE  \E e \in C : ix[c] <= ix[e] /\ ix[e] <= ix[a] /\ low2[e] <= ix[b]
    <3>1. CASE a = n /\ b = s
      <4>1. low2[n] <= ix[s]
        BY <1>1, <1>2, <1>3, <2>2, <3>1
      <4>2. ix[n] <= ix[a]
        BY <1>1, <1>2, <3>1
      <4> QED BY <1>1, <2>2, <3>1, <4>1, <4>2
    <3>2. CASE ~(a = n /\ b = s)
      <4>1. <<a, b>> \notin P
        BY <2>2, <3>2
      <4>2. PICK e \in C : ix[c] <= ix[e] /\ ix[e] <= ix[a] /\ low[e] <= ix[b]
        BY <2>2, <4>1 DEF SearchOK, Traversed
      <4>3. low2[e] <= ix[b]
        <5>1. e \in K /\ low2[e] <= low[e] /\ low2[e] \in Nat /\ low[e] \in Nat /\ ix[b] \in Nat
          BY <1>1, <1>2, <1>3, <2>2
        <5> QED BY <4>2, <5>1
      <4> QED BY <4>2, <4>3
    <3> QED BY <3>1, <3>2
  <2> QED BY <2>1, <2>2 DEF Traversed
<1>7. Indexed(N, ix)
  BY DEF SearchOK
<1> QED BY <1>4, <1>5, <1>6, <1>7 DEF SearchOK

\* traverse ends for a block that is not its own link: the link of the caller is
\* lowered.
Ends(g, N, ix, low, K, C, P, n, p, low2) ==
    /\ SearchOK(g, N, ix, low, K, C, P)
    /\ Innermost(ix, C, n) /\ \A s : <<n, s>> \notin P
    /\ \/ C \ {n} = {} /\ low2 = low
       \/ /\ Innermost(ix, C \ {n}, p)
          /\ low2[p] = IF low[n] < low[p] THEN low[n] ELSE low[p]
          /\ \A m \in N : m # p => low2[m] = low[m]

\* When traverse ends for a block that stays on the stack, it is kept.
LEMMA ReturnKeeps ==
    ASSUME NEW g, NEW N, IsFiniteSet(N), NEW ix, NEW low, NEW K, NEW C, NEW P, NEW n, NEW p, NEW low2,
           Ends(g, N, ix, low, K, C, P, n, p, low2), low[n] # ix[n]
    PROVE  SearchOK(g, N, ix, low2, K, C \ {n}, P)
<1> USE DEF Ends
<1> DEFINE R(x) == WithinFrom(g, N, x)
           C2 == C \ {n}
<1>1. n \in C /\ n \in K /\ C \subseteq K /\ C2 \subseteq K /\ K \subseteq Seen(N, ix)
  BY DEF Innermost, SearchOK, EdgesLeft
<1>2. \A m \in Seen(N, ix) : m \in N /\ ix[m] \in Nat
  BY DEF Seen, SearchOK, Indexed
<1>3. \A m \in K : /\ low[m] \in Nat /\ low[m] <= ix[m]
                   /\ low2[m] \in Nat /\ low2[m] <= low[m] /\ low2[m] <= ix[m]
  <2>1. \A m \in K : low[m] \in Nat /\ low[m] <= ix[m]
    BY DEF SearchOK, Linked
  <2> QED BY <1>1, <1>2, <2>1 DEF Innermost
<1>4. EdgesLeft(g, N, ix, K, C2, P)
  <2>1. /\ K \subseteq Seen(N, ix)
        /\ \A a, b : <<a, b>> \in P => a \in C /\ b \in SuccsOf(g, a) /\ b \in N
        /\ \A a \in Seen(N, ix) : \A b \in SuccsOf(g, a) : b \in N => b \in Seen(N, ix) \/ <<a, b>> \in P
        /\ \A d \in Seen(N, ix) \ K : \A b \in SuccsOf(g, d) : b \in N => b \in Seen(N, ix) \ K
    BY DEF SearchOK, EdgesLeft
  <2> QED BY <1>1, <2>1 DEF EdgesLeft
<1>5. Linked(g, N, ix, low2, K, C2)
  <2>1. ASSUME NEW a \in K
        PROVE  /\ a \notin C2 => low2[a] # ix[a]
               /\ \E m \in K : ix[m] = low2[a] /\ (m = a \/ m \in R(a))
    <3>1. \A x \in K : /\ x \notin C => low[x] # ix[x]
                       /\ \E m \in K : ix[m] = low[x] /\ (m = x \/ m \in R(x))
      BY DEF SearchOK, Linked
    <3>2. CASE low2[a] = low[a]
      BY <3>1, <3>2
    <3>3. CASE low2[a] # low[a]
      <4>1. a = p /\ Innermost(ix, C2, p) /\ low2[p] = low[n] /\ p \in C2
        BY <1>1, <1>2, <3>3 DEF Innermost
      <4>2. PICK m \in K : ix[m] = low[n] /\ (m = n \/ m \in R(n))
        BY <1>1, <3>1
      <4>3. n \in R(p)
        BY <1>1, <4>1 DEF SearchOK, Traversed, Innermost
      <4>4. m \in R(p)
        BY <4>2, <4>3, WithinGoesOn
      <4> QED BY <4>1, <4>2, <4>4
    <3> QED BY <3>2, <3>3
  <2> QED BY <1>3, <2>1 DEF Linked
<1>6. Traversed(g, N, ix, low2, K, C2, P)
  <2>1. \A c \in C : \A a \in K : ix[c] <= ix[a] => a = c \/ a \in WithinFrom(g, N, c)
    BY DEF SearchOK, Traversed
  <2>2. ASSUME NEW a \in K, NEW b \in K, b \in SuccsOf(g, a), <<a, b>> \notin P,
               NEW c \in C2, ix[c] <= ix[a]
        PROVE  \E e \in C2 : ix[c] <= ix[e] /\ ix[e] <= ix[a] /\ low2[e] <= ix[b]
    <3>1. PICK e \in C : ix[c] <= ix[e] /\ ix[e] <= ix[a] /\ low[e] <= ix[b]
      BY <2>2 DEF SearchOK, Traversed
    <3>2. CASE e # n
      <4>1. e \in K /\ b \in K
        BY <1>1, <2>2
      <4>2. low2[e] <= low[e] /\ low2[e] \in Nat /\ low[e] \in Nat /\ ix[b] \in Nat
        BY <1>1, <1>2, <1>3, <4>1
      <4>3. low2[e] <= ix[b]
        BY <3>1, <4>2
      <4> QED BY <3>1, <3>2, <4>3
    <3>3. CASE e = n
      <4>1. Innermost(ix, C2, p) /\ low2[p] = IF low[n] < low[p] THEN low[n] ELSE low[p]
        BY <2>2
      <4>2. p \in C2 /\ ix[c] <= ix[p] /\ ix[p] <= ix[n]
        BY <1>1, <2>2, <4>1 DEF Innermost
      <4>3. /\ p \in K /\ ix[p] \in Nat /\ ix[n] \in Nat /\ ix[a] \in Nat /\ ix[b] \in Nat
            /\ low[n] \in Nat /\ low[p] \in Nat
        BY <1>1, <1>2, <1>3, <2>2, <4>2
      <4>4. ix[p] <= ix[a] /\ low2[p] <= ix[b]
        BY <3>1, <3>3, <4>1, <4>2, <4>3
      <4> QED BY <4>2, <4>4
    <3> QED BY <3>2, <3>3
  <2> QED BY <2>1, <2>2 DEF Traversed
<1>7. Indexed(N, ix)
  BY DEF SearchOK
<1> QED BY <1>4, <1>5, <1>6, <1>7 DEF SearchOK

\* What has come to the stack from n on.
From(K, ix, n) == {x \in K : ix[n] <= ix[x]}

\* No edge leads out of a set.
Closed(g, N, set) == \A d \in set : \A s \in SuccsOf(g, d) : s \in N => s \in set

\* When the traverse of a block that is its own link ends, what is above it on the
\* stack is its component.
LEMMA PopsComponent ==
    ASSUME NEW g, NEW N, IsFiniteSet(N), NEW ix, NEW low, NEW K, NEW C, NEW P, NEW n, NEW p, NEW low2,
           Ends(g, N, ix, low, K, C, P, n, p, low2), low[n] = ix[n]
    PROVE  /\ From(K, ix, n) = Component(g, N, n)
           /\ Closed(g, N, From(K, ix, n) \cup (Seen(N, ix) \ K))
<1> USE DEF Ends
<1> DEFINE R(x) == WithinFrom(g, N, x)
           S == From(K, ix, n)
           Done == Seen(N, ix) \ K
<1>1. n \in C /\ n \in K /\ n \in N /\ C \subseteq K /\ K \subseteq Seen(N, ix) /\ n \in S
      /\ S \subseteq K
  <2>1. n \in C /\ n \in K /\ C \subseteq K /\ K \subseteq Seen(N, ix)
    BY DEF Innermost, SearchOK, EdgesLeft
  <2>2. n \in N /\ ix[n] \in Nat
    BY <2>1 DEF Seen, SearchOK, Indexed
  <2> QED BY <2>1, <2>2 DEF From
<1>2. \A m \in Seen(N, ix) : m \in N /\ ix[m] \in Nat
  BY DEF Seen, SearchOK, Indexed
<1>3. \A c \in C : c \in S => c = n
  <2> SUFFICES ASSUME NEW c \in C, c \in S PROVE c = n
    OBVIOUS
  <2>1. ix[c] <= ix[n] /\ ix[n] <= ix[c] /\ c \in Seen(N, ix) /\ n \in Seen(N, ix)
    BY <1>1 DEF Innermost, From
  <2>2. ix[c] = ix[n]
    BY <1>2, <2>1
  <2> QED BY <2>1, <2>2 DEF SearchOK, Indexed
<1>4. ASSUME NEW d \in S \cup Done, NEW s \in SuccsOf(g, d), s \in N PROVE s \in S \cup Done
  <2>1. CASE d \in Done
    BY <1>4, <2>1 DEF SearchOK, EdgesLeft
  <2>2. CASE d \in S
    <3>1. <<d, s>> \notin P
      <4>1. <<d, s>> \in P => d \in C
        BY DEF SearchOK, EdgesLeft
      <4> QED BY <1>3, <2>2, <4>1
    <3>2. s \in Seen(N, ix)
      BY <1>1, <1>4, <2>2, <3>1 DEF SearchOK, EdgesLeft
    <3>3. ASSUME s \in K, s \notin S PROVE FALSE
      <4>1. ix[s] < ix[n]
        BY <1>1, <1>2, <3>3 DEF From
      <4>2. PICK e \in C : ix[n] <= ix[e] /\ ix[e] <= ix[d] /\ low[e] <= ix[s]
        <5>1. ix[n] <= ix[d] /\ d \in K
          BY <2>2 DEF From
        <5> QED BY <1>1, <3>1, <3>3, <5>1 DEF SearchOK, Traversed
      <4>3. e = n
        BY <1>1, <1>3, <4>2 DEF From
      <4>4. ix[n] \in Nat /\ ix[s] \in Nat
        BY <1>1, <1>2, <3>3
      <4> QED BY <4>1, <4>2, <4>3, <4>4
    <3> QED BY <3>2, <3>3
  <2> QED BY <2>1, <2>2
<1>5. ASSUME NEW x \in S PROVE R(x) \subseteq S \cup Done
  <2> DEFINE U == S \cup Done
  <2>1. /\ \A c \in SuccsOf(g, x) : c \in N => c \in U
        /\ \A y \in U : \A c \in SuccsOf(g, y) : y \in N /\ c \in N => c \in U
    BY <1>4
  <2> HIDE DEF U
  <2>2. WithinFrom(g, N, x) \subseteq U
    BY <2>1, WithinIsLeast
  <2> QED BY <2>2 DEF U
<1>6. ASSUME NEW x \in Done PROVE R(x) \subseteq Done
  <2>1. /\ \A c \in SuccsOf(g, x) : c \in N => c \in Done
        /\ \A y \in Done : \A c \in SuccsOf(g, y) : y \in N /\ c \in N => c \in Done
    BY DEF SearchOK, EdgesLeft
  <2> HIDE DEF Done
  <2> QED BY <2>1, WithinIsLeast
<1>7. \A x \in S : x = n \/ x \in R(n)
  BY <1>1 DEF From, SearchOK, Traversed
<1>8. \A x \in S : x = n \/ n \in R(x)
  <2> DEFINE X == {x \in S : x # n /\ n \notin R(x)}
             T == {ix[x] : x \in X}
  <2> SUFFICES ASSUME X # {} PROVE FALSE
    OBVIOUS
  <2>1. T \subseteq Nat /\ T # {}
    BY <1>1, <1>2
  <2>2. PICK t \in T : \A u \in T : t <= u
    <3> HIDE DEF T
    <3> QED BY <2>1, LeastNumber
  <2>3. PICK x \in X : ix[x] = t
    BY <2>2
  <2>4. x \in K /\ x \notin C
    BY <1>1, <1>3, <2>3
  <2>5. PICK m \in K : ix[m] = low[x] /\ (m = x \/ m \in R(x)) /\ low[x] # ix[x] /\ low[x] <= ix[x] /\ low[x] \in Nat
    BY <2>4 DEF SearchOK, Linked
  <2>6. m \in R(x)
    BY <2>5
  <2>7. m \in S
    <3>1. m \in S \cup Done
      BY <1>5, <2>3, <2>6
    <3> QED BY <3>1
  <2>8. m \notin X
    <3>1. ix[m] < ix[x]
      BY <1>1, <1>2, <2>4, <2>5
    <3>2. m \in X => ix[x] <= ix[m]
      BY <2>2, <2>3
    <3> QED BY <1>1, <1>2, <2>4, <3>1, <3>2
  <2>9. m = n \/ n \in R(m)
    BY <2>7, <2>8
  <2>10. n \in R(x)
    BY <2>6, <2>9, WithinGoesOn
  <2> QED BY <2>3, <2>10
<1>9. ASSUME NEW x \in N, x \in R(n), n \in R(x) PROVE x \in S
  <2>1. x \in S \cup Done
    BY <1>1, <1>5, <1>9
  <2>2. x \in Done => n \in Done
    BY <1>6, <1>9
  <2> QED BY <1>1, <2>1, <2>2
<1>10. S \subseteq N
  BY <1>1, <1>2
<1>11. S = Component(g, N, n)
  <2> HIDE DEF S
  <2> QED BY <1>1, <1>7, <1>8, <1>9, <1>10 DEF Component
<1> QED BY <1>4, <1>11 DEF Closed

\* It is taken off the stack.
LEMMA PopKeeps ==
    ASSUME NEW g, NEW N, IsFiniteSet(N), NEW ix, NEW low, NEW K, NEW C, NEW P, NEW n, NEW p, NEW low2,
           Ends(g, N, ix, low, K, C, P, n, p, low2), low[n] = ix[n]
    PROVE  SearchOK(g, N, ix, low2, K \ From(K, ix, n), C \ {n}, P)
<1> DEFINE R(x) == WithinFrom(g, N, x)
           C2 == C \ {n}
           K2 == K \ From(K, ix, n)
<1>0. SearchOK(g, N, ix, low, K, C, P) /\ Innermost(ix, C, n)
  BY DEF Ends
<1> USE <1>0
<1>1. n \in C /\ n \in K /\ C \subseteq K /\ K \subseteq Seen(N, ix) /\ K2 \subseteq K
  BY DEF Innermost, SearchOK, EdgesLeft
<1>2. \A m \in Seen(N, ix) : m \in N /\ ix[m] \in Nat
  BY DEF Seen, SearchOK, Indexed
<1>3. \A x \in K : x \in K2 <=> ix[x] < ix[n]
  BY <1>1, <1>2 DEF From
<1>4. C2 \subseteq K2
  <2> SUFFICES ASSUME NEW c \in C, c # n PROVE ix[c] < ix[n]
    BY <1>1, <1>3
  <2>1. ix[c] <= ix[n] /\ ix[c] # ix[n]
    BY <1>1, <1>2 DEF Innermost, SearchOK, Indexed
  <2> QED BY <1>1, <1>2, <2>1
<1>9. ASSUME NEW x \in K2 PROVE low2[x] = low[x]
  <2> SUFFICES ASSUME low2[x] # low[x] PROVE FALSE
    OBVIOUS
  <2>1. x = p /\ p \in C2 /\ low2[p] = IF low[n] < low[p] THEN low[n] ELSE low[p]
    BY <1>1, <1>2 DEF Ends, Innermost
  <2>2. p \in K /\ low[p] \in Nat /\ low[p] <= ix[p]
    BY <1>1, <2>1 DEF SearchOK, Linked
  <2>3. ix[p] < ix[n] /\ ix[p] \in Nat /\ ix[n] \in Nat
    BY <1>1, <1>2, <1>3, <2>1
  <2> QED BY <2>1, <2>2, <2>3
<1>5. EdgesLeft(g, N, ix, K2, C2, P)
  <2>1. /\ \A a, b : <<a, b>> \in P => a \in C /\ b \in SuccsOf(g, a) /\ b \in N
        /\ \A a \in Seen(N, ix) : \A b \in SuccsOf(g, a) : b \in N => b \in Seen(N, ix) \/ <<a, b>> \in P
    BY DEF SearchOK, EdgesLeft
  <2>2. Seen(N, ix) \ K2 = From(K, ix, n) \cup (Seen(N, ix) \ K)
    BY <1>1 DEF From
  <2>3. \A d \in Seen(N, ix) \ K2 : \A b \in SuccsOf(g, d) : b \in N => b \in Seen(N, ix) \ K2
    <3> DEFINE V == From(K, ix, n) \cup (Seen(N, ix) \ K)
    <3>1. Closed(g, N, V)
      BY PopsComponent
    <3> HIDE DEF V
    <3>2. Seen(N, ix) \ K2 = V
      BY <2>2 DEF V
    <3> QED BY <3>1, <3>2 DEF Closed
  <2>4. K2 \subseteq Seen(N, ix)
    BY <1>1
  <2>5. \A a, b : <<a, b>> \in P => a \in C2
    BY <2>1 DEF Ends
  <2> HIDE DEF K2, C2
  <2> QED BY <1>4, <2>1, <2>3, <2>4, <2>5 DEF EdgesLeft
<1>6. Linked(g, N, ix, low2, K2, C2)
  <2>1. ASSUME NEW a \in K2
        PROVE  /\ low[a] \in Nat /\ low[a] <= ix[a]
               /\ a \notin C2 => low[a] # ix[a]
               /\ \E m \in K2 : ix[m] = low[a] /\ (m = a \/ m \in R(a))
    <3>1. /\ low[a] \in Nat /\ low[a] <= ix[a]
          /\ a \notin C => low[a] # ix[a]
          /\ \E m \in K : ix[m] = low[a] /\ (m = a \/ m \in R(a))
      BY <1>1 DEF SearchOK, Linked
    <3>2. PICK m \in K : ix[m] = low[a] /\ (m = a \/ m \in R(a))
      BY <3>1
    <3>3. ix[a] < ix[n] /\ a # n
      BY <1>1, <1>2, <1>3
    <3>4. m \in K2
      BY <1>1, <1>2, <1>3, <3>1, <3>2, <3>3
    <3> QED BY <3>1, <3>2, <3>3, <3>4
  <2> QED BY <1>9, <2>1 DEF Linked
<1>7. Traversed(g, N, ix, low2, K2, C2, P)
  <2>1. \A c \in C : \A a \in K : ix[c] <= ix[a] => a = c \/ a \in WithinFrom(g, N, c)
    BY DEF SearchOK, Traversed
  <2>2. ASSUME NEW a \in K2, NEW b \in K2, b \in SuccsOf(g, a), <<a, b>> \notin P,
               NEW c \in C2, ix[c] <= ix[a]
        PROVE  \E e \in C2 : ix[c] <= ix[e] /\ ix[e] <= ix[a] /\ low2[e] <= ix[b]
    <3>1. PICK e \in C : ix[c] <= ix[e] /\ ix[e] <= ix[a] /\ low[e] <= ix[b]
      BY <1>1, <2>2 DEF SearchOK, Traversed
    <3>2. e # n
      BY <1>1, <1>2, <1>3, <3>1
    <3>3. e \in C2 /\ low2[e] = low[e]
      BY <1>4, <1>9, <3>2
    <3> QED BY <3>1, <3>3
  <2> QED BY <1>1, <2>1, <2>2 DEF Traversed
<1>8. Indexed(N, ix)
  BY DEF SearchOK
<1> QED BY <1>5, <1>6, <1>7, <1>8 DEF SearchOK

\* When no traverse goes on, the stack is empty.
LEMMA NoneIsLeft ==
    ASSUME NEW g, NEW N, NEW ix, NEW low, NEW K, NEW P, SearchOK(g, N, ix, low, K, {}, P)
    PROVE  K = {}
<1> SUFFICES ASSUME K # {} PROVE FALSE
  OBVIOUS
<1> DEFINE T == {ix[x] : x \in K}
<1>1. T \subseteq Nat /\ T # {}
  BY DEF SearchOK, EdgesLeft, Indexed
<1>2. PICK t \in T : \A u \in T : t <= u
  <2> HIDE DEF T
  <2> QED BY <1>1, LeastNumber
<1>3. PICK x \in K : t = ix[x]
  BY <1>2
<1>4. PICK m \in K : ix[m] = low[x] /\ low[x] # ix[x] /\ low[x] <= ix[x] /\ low[x] \in Nat
  BY DEF SearchOK, Linked
<1>5. t <= ix[m] /\ t \in Nat
  BY <1>1, <1>2
<1> QED BY <1>3, <1>4, <1>5

\* A component is the one of each of its blocks.
LEMMA ComponentOfMember ==
    ASSUME NEW g, NEW N, IsFiniteSet(N), NEW c \in N, NEW x \in Component(g, N, c)
    PROVE  x \in N /\ Component(g, N, x) = Component(g, N, c)
<1> DEFINE W(y) == WithinFrom(g, N, y)
           S == Component(g, N, c)
           Q == Component(g, N, x)
<1>1. c \in S /\ S \subseteq N
      /\ (\A y, w \in S : y # w => w \in W(y))
      /\ \A y \in S : \A w \in N : w \in W(y) /\ y \in W(w) => w \in S
  BY ComponentFacts
<1>2. x \in N
  BY <1>1
<1>3. x \in Q /\ Q \subseteq N
      /\ (\A y, w \in Q : y # w => w \in W(y))
      /\ \A y \in Q : \A w \in N : w \in W(y) /\ y \in W(w) => w \in Q
  BY <1>2, ComponentFacts
<1> HIDE DEF W, Q, S
<1>4. S \subseteq Q
  BY <1>1, <1>3 DEF S
<1>5. Q \subseteq S
  BY <1>1, <1>3 DEF S
<1> QED BY <1>2, <1>4, <1>5 DEF Q, S

\* The components kept are those of two blocks and more, of the blocks seen that
\* are not on the stack.
Kept(g, N, ix, K, cs) ==
    /\ \A S \in cs : \E d \in Seen(N, ix) \ K : S = Component(g, N, d) /\ S # {d}
    /\ \A d \in Seen(N, ix) \ K : Component(g, N, d) \in cs \/ Component(g, N, d) = {d}

\* The component that is popped is kept when it has two blocks and more.
LEMMA PopIsKept ==
    ASSUME NEW g, NEW N, IsFiniteSet(N), NEW ix, NEW K, K \subseteq Seen(N, ix),
           NEW cs, Kept(g, N, ix, K, cs),
           NEW n \in K, NEW S, S = Component(g, N, n), S \subseteq K,
           NEW cs2, cs2 = IF Cardinality(S) = 1 THEN cs ELSE cs \cup {S}
    PROVE  Kept(g, N, ix, K \ S, cs2)
<1>1. n \in N /\ n \in S /\ S \subseteq N /\ IsFiniteSet(S)
  <2>1. n \in N
    BY DEF Seen
  <2>2. n \in S /\ S \subseteq N
    BY <2>1, ComponentFacts
  <2> QED BY <2>1, <2>2, FS_Subset
<1>2. Cardinality(S) = 1 <=> S = {n}
  <2>1. Cardinality(S) = 1 => \E x : S = {x}
    BY <1>1, FS_Singleton
  <2>2. Cardinality({n}) = 1
    BY FS_Singleton
  <2> QED BY <1>1, <2>1, <2>2
<1>3. \A x \in S : Component(g, N, x) = S
  BY <1>1, ComponentOfMember
<1>4. Seen(N, ix) \ (K \ S) = (Seen(N, ix) \ K) \cup S
  OBVIOUS
<1>5. ASSUME NEW Q \in cs2
      PROVE  \E d \in (Seen(N, ix) \ K) \cup S : Q = Component(g, N, d) /\ Q # {d}
  <2>1. CASE Q \in cs
    BY <2>1 DEF Kept
  <2>2. CASE Q \notin cs
    <3>1. Q = S /\ S # {n}
      BY <1>2, <1>5, <2>2
    <3> QED BY <1>1, <1>3, <3>1
  <2> QED BY <2>1, <2>2
<1>6. ASSUME NEW d \in (Seen(N, ix) \ K) \cup S
      PROVE  Component(g, N, d) \in cs2 \/ Component(g, N, d) = {d}
  <2>1. CASE d \in S
    BY <1>2, <1>3, <2>1
  <2>2. CASE d \in Seen(N, ix) \ K
    BY <2>2 DEF Kept
  <2> QED BY <1>6, <2>1, <2>2
<1> QED BY <1>4, <1>5, <1>6 DEF Kept

-----------------------------------------------------------------------------
(* The stack and the calls of the search are lists, the latest first       *)

StackOf(t) == {t[k] : k \in DOMAIN t}
CallingOf(q) == {q[k].node : k \in DOMAIN q}
LeftOf(q) == UNION {{<<q[k].node, s>> : s \in q[k].left} : k \in DOMAIN q}

\* Later blocks come first.
StackInOrder(ix, t) == \A j, k \in DOMAIN t : j < k => ix[t[k]] < ix[t[j]]
CallsInOrder(ix, q) == \A j, k \in DOMAIN q : j < k => ix[q[k].node] < ix[q[j].node]

Call == [node : Block, left : SUBSET Block]

\* What is put at the front of a list is its first, the rest come after it.
LEMMA Pushed ==
    ASSUME NEW X, NEW f \in X, NEW q \in Seq(X)
    PROVE  /\ <<f>> \o q \in Seq(X)
           /\ DOMAIN (<<f>> \o q) = {1} \cup {k + 1 : k \in DOMAIN q}
           /\ (<<f>> \o q)[1] = f
           /\ \A k \in DOMAIN q : (<<f>> \o q)[k + 1] = q[k]
<1>1. <<f>> \in Seq(X) /\ Len(<<f>>) = 1 /\ <<f>>[1] = f
  OBVIOUS
<1> DEFINE s == <<f>>
           t == s \o q
           n == Len(q)
<1>2. n \in Nat /\ DOMAIN q = 1 .. n
  OBVIOUS
<1>3. t \in Seq(X) /\ Len(t) = 1 + n /\ \A j \in 1 .. 1 + n : t[j] = IF j <= 1 THEN s[j] ELSE q[j - 1]
  <2> HIDE DEF s
  <2> QED BY <1>1, ConcatProperties DEF s
<1>4. DOMAIN t = 1 .. 1 + n
  BY <1>3
<1> HIDE DEF t, s, n
<1>5. t[1] = f
  BY <1>1, <1>2, <1>3 DEF s
<1>6. ASSUME NEW k \in DOMAIN q PROVE t[k + 1] = q[k]
  <2> DEFINE m == k + 1
  <2>1. m \in 1 .. 1 + n /\ ~(m <= 1) /\ m - 1 = k
    BY <1>2
  <2> HIDE DEF m
  <2>2. t[m] = q[k]
    BY <1>3, <2>1
  <2> QED BY <2>2 DEF m
<1>7. DOMAIN t = {1} \cup {k + 1 : k \in DOMAIN q}
  <2>1. \A m \in 1 .. 1 + n : m = 1 \/ \E k \in 1 .. n : m = k + 1
    <3> SUFFICES ASSUME NEW m \in 1 .. 1 + n, m # 1 PROVE \E k \in 1 .. n : m = k + 1
      OBVIOUS
    <3>1. m - 1 \in 1 .. n /\ m = (m - 1) + 1
      BY <1>2
    <3> QED BY <3>1
  <2> QED BY <1>2, <1>4, <2>1
<1> QED BY <1>3, <1>5, <1>6, <1>7 DEF t, s

\* A block later than all on the stack is put on it.
LEMMA StackPushed ==
    ASSUME NEW f \in Block, NEW t \in Seq(Block), NEW ix
    PROVE  /\ <<f>> \o t \in Seq(Block)
           /\ StackOf(<<f>> \o t) = StackOf(t) \cup {f}
           /\ StackInOrder(ix, t) /\ (\A x \in StackOf(t) : ix[x] < ix[f]) => StackInOrder(ix, <<f>> \o t)
<1> DEFINE u == <<f>> \o t
<1>1. /\ u \in Seq(Block)
      /\ DOMAIN u = {1} \cup {k + 1 : k \in DOMAIN t}
      /\ u[1] = f
      /\ \A k \in DOMAIN t : u[k + 1] = t[k]
  BY Pushed
<1> HIDE DEF u
<1>2. StackOf(u) = StackOf(t) \cup {f}
  BY <1>1 DEF StackOf
<1>3. ASSUME StackInOrder(ix, t), \A x \in StackOf(t) : ix[x] < ix[f],
             NEW j \in DOMAIN u, NEW k \in DOMAIN u, j < k
      PROVE  ix[u[k]] < ix[u[j]]
  <2>1. \A n \in DOMAIN t : n \in Nat /\ 0 < n
    OBVIOUS
  <2>2. k # 1 /\ (j = 1 \/ j # 1)
    BY <1>1, <1>3, <2>1
  <2>3. PICK n \in DOMAIN t : k = n + 1
    BY <1>1, <2>2
  <2>4. CASE j = 1
    BY <1>1, <1>3, <2>3, <2>4 DEF StackOf
  <2>5. CASE j # 1
    <3>1. PICK m \in DOMAIN t : j = m + 1
      BY <1>1, <2>5
    <3>2. m < n
      BY <1>3, <2>1, <2>3, <3>1
    <3> QED BY <1>1, <1>3, <2>3, <3>1, <3>2 DEF StackInOrder
  <2> QED BY <2>4, <2>5
<1> QED BY <1>1, <1>2, <1>3 DEF StackInOrder, u

\* The stack from n on is taken off.
LEMMA StackCut ==
    ASSUME NEW t \in Seq(Block), NEW ix, StackInOrder(ix, t),
           \A x \in StackOf(t) : ix[x] \in Nat, NEW d \in DOMAIN t, NEW n, n = t[d]
    PROVE  /\ {t[k] : k \in 1 .. d} = From(StackOf(t), ix, n)
           /\ SubSeq(t, d + 1, Len(t)) \in Seq(Block)
           /\ StackOf(SubSeq(t, d + 1, Len(t))) = StackOf(t) \ From(StackOf(t), ix, n)
           /\ StackInOrder(ix, SubSeq(t, d + 1, Len(t)))
<1>1. d \in DOMAIN t /\ t[d] = n
  OBVIOUS
<1> DEFINE l == Len(t)
           m == d + 1
           u == SubSeq(t, m, l)
           c == l - m + 1
<1>2. l \in Nat /\ DOMAIN t = 1 .. l /\ d \in 1 .. l /\ m \in Int /\ c \in Nat /\ c = l - d
      /\ \A k \in 1 .. l : t[k] \in Block
  BY <1>1
<1>3. u \in Seq(Block) /\ Len(u) = (IF m <= l THEN c ELSE 0) /\ \A k \in 1 .. c : u[k] = t[m + k - 1]
  <2>1. m \in Int /\ l \in Int /\ \A k \in m .. l : k \in 1 .. l
    <3> HIDE DEF l
    <3>1. d \in Nat /\ 0 < d /\ l \in Nat
      BY <1>2
    <3> QED BY <3>1
  <2>2. \A k \in m .. l : t[k] \in Block
    BY <1>2, <2>1
  <2> HIDE DEF m, l
  <2> QED BY <2>1, <2>2, SubSeqProperties
<1>4. DOMAIN u = 1 .. c
  <2>1. Len(u) = c
    BY <1>2, <1>3
  <2> QED BY <1>3, <2>1
<1>5. \A k \in 1 .. c : d + k \in 1 .. l /\ d < d + k /\ u[k] = t[d + k]
  <2> SUFFICES ASSUME NEW k \in 1 .. c PROVE d + k \in 1 .. l /\ d < d + k /\ u[k] = t[d + k]
    OBVIOUS
  <2>1. m + k - 1 = d + k
    BY <1>2
  <2>2. u[k] = t[m + k - 1]
    BY <1>3
  <2> HIDE DEF u, m
  <2> QED BY <1>2, <2>1, <2>2
<1>6. \A k \in 1 .. l : d < k => \E j \in 1 .. c : k = d + j
  <2> SUFFICES ASSUME NEW k \in 1 .. l, d < k PROVE \E j \in 1 .. c : k = d + j
    OBVIOUS
  <2>1. k - d \in 1 .. c /\ k = d + (k - d)
    BY <1>2
  <2> QED BY <2>1
<1> HIDE DEF l, m, u, c
<1>7. \A k \in 1 .. l : (d < k => ix[t[k]] < ix[n]) /\ (k < d => ix[n] < ix[t[k]])
  BY <1>1, <1>2 DEF StackInOrder
<1>8. \A k \in 1 .. l : ix[t[k]] \in Nat /\ ix[n] \in Nat /\ t[k] \in StackOf(t)
  BY <1>2 DEF StackOf
<1>9. \A k \in 1 .. l : ix[n] <= ix[t[k]] <=> k <= d
  <2> SUFFICES ASSUME NEW k \in 1 .. l PROVE ix[n] <= ix[t[k]] <=> k <= d
    OBVIOUS
  <2>1. CASE k = d
    BY <1>1, <1>2, <1>8, <2>1
  <2>2. CASE d < k
    BY <1>2, <1>7, <1>8, <2>2
  <2>3. CASE k < d
    BY <1>2, <1>7, <1>8, <2>3
  <2> QED BY <1>2, <2>1, <2>2, <2>3
<1>10. {t[k] : k \in 1 .. d} = From(StackOf(t), ix, n)
  <2>1. \A k \in 1 .. d : k \in 1 .. l /\ k <= d
    BY <1>2
  <2>2. \A k \in 1 .. l : k <= d => k \in 1 .. d
    BY <1>2
  <2> QED BY <1>2, <1>9, <2>1, <2>2 DEF From, StackOf
<1>11. StackOf(u) = StackOf(t) \ From(StackOf(t), ix, n)
  <2>1. ASSUME NEW x \in StackOf(u) PROVE x \in StackOf(t) \ From(StackOf(t), ix, n)
    <3>1. PICK k \in 1 .. c : x = t[d + k] /\ d + k \in 1 .. l /\ d < d + k
      BY <1>4, <1>5 DEF StackOf
    <3> DEFINE e == d + k
    <3>2. e \in 1 .. l /\ x = t[e] /\ ~(e <= d)
      BY <1>2, <3>1
    <3> HIDE DEF e
    <3> QED BY <1>2, <1>9, <3>2 DEF From, StackOf
  <2>2. ASSUME NEW x \in StackOf(t), x \notin From(StackOf(t), ix, n) PROVE x \in StackOf(u)
    <3>1. PICK k \in 1 .. l : x = t[k]
      BY <1>2 DEF StackOf
    <3>2. d < k
      <4>1. ~(ix[n] <= ix[t[k]])
        BY <2>2, <3>1 DEF From
      <4>2. ~(k <= d)
        BY <1>9, <4>1
      <4> QED BY <1>2, <4>2
    <3>3. PICK j \in 1 .. c : k = d + j
      BY <1>6, <3>2
    <3> QED BY <1>4, <1>5, <3>1, <3>3 DEF StackOf
  <2> QED BY <2>1, <2>2
<1>12. StackInOrder(ix, u)
  <2> SUFFICES ASSUME NEW j \in 1 .. c, NEW k \in 1 .. c, j < k PROVE ix[u[k]] < ix[u[j]]
    BY <1>4 DEF StackInOrder
  <2>1. d + j \in 1 .. l /\ d + k \in 1 .. l /\ d + j < d + k
    BY <1>2, <1>5
  <2>2. ix[t[d + k]] < ix[t[d + j]]
    BY <1>2, <2>1 DEF StackInOrder
  <2> QED BY <1>5, <2>2
<1> QED BY <1>3, <1>10, <1>11, <1>12 DEF u, m, l

\* A call later than all that go on begins.
LEMMA CallPushed ==
    ASSUME NEW f \in Call, NEW q \in Seq(Call), NEW ix
    PROVE  /\ <<f>> \o q \in Seq(Call)
           /\ CallingOf(<<f>> \o q) = CallingOf(q) \cup {f.node}
           /\ \A a, b : <<a, b>> \in LeftOf(<<f>> \o q) <=> <<a, b>> \in LeftOf(q) \/ (a = f.node /\ b \in f.left)
           /\ CallsInOrder(ix, <<f>> \o q) <=> /\ CallsInOrder(ix, q)
                                               /\ \A c \in CallingOf(q) : ix[c] < ix[f.node]
<1> DEFINE u == <<f>> \o q
<1>1. /\ u \in Seq(Call)
      /\ DOMAIN u = {1} \cup {k + 1 : k \in DOMAIN q}
      /\ u[1] = f
      /\ \A k \in DOMAIN q : u[k + 1] = q[k]
  BY Pushed
<1> HIDE DEF u
<1>2. CallingOf(u) = CallingOf(q) \cup {f.node}
  BY <1>1 DEF CallingOf
<1>3. \A a, b : <<a, b>> \in LeftOf(u) <=> \E k \in DOMAIN u : a = u[k].node /\ b \in u[k].left
  BY DEF LeftOf
<1>4. \A a, b : <<a, b>> \in LeftOf(q) <=> \E k \in DOMAIN q : a = q[k].node /\ b \in q[k].left
  BY DEF LeftOf
<1>5. ASSUME NEW a, NEW b
      PROVE  <<a, b>> \in LeftOf(u) <=> <<a, b>> \in LeftOf(q) \/ (a = f.node /\ b \in f.left)
  <2>1. (\E k \in DOMAIN u : a = u[k].node /\ b \in u[k].left)
        <=> (a = f.node /\ b \in f.left) \/ \E k \in DOMAIN q : a = q[k].node /\ b \in q[k].left
    BY <1>1
  <2>2. (<<a, b>> \in LeftOf(u)) <=> \E k \in DOMAIN u : a = u[k].node /\ b \in u[k].left
    BY <1>3
  <2>3. (<<a, b>> \in LeftOf(q)) <=> \E k \in DOMAIN q : a = q[k].node /\ b \in q[k].left
    BY <1>4
  <2> QED BY <2>1, <2>2, <2>3
<1>6. \A n \in DOMAIN q : n \in Nat /\ 0 < n
  OBVIOUS
<1>7. ASSUME CallsInOrder(ix, q), \A c \in CallingOf(q) : ix[c] < ix[f.node],
             NEW j \in DOMAIN u, NEW k \in DOMAIN u, j < k
      PROVE  ix[u[k].node] < ix[u[j].node]
  <2>1. k # 1
    BY <1>1, <1>6, <1>7
  <2>2. PICK n \in DOMAIN q : k = n + 1
    BY <1>1, <2>1
  <2>3. CASE j = 1
    BY <1>1, <1>7, <2>2, <2>3 DEF CallingOf
  <2>4. CASE j # 1
    <3>1. PICK m \in DOMAIN q : j = m + 1
      BY <1>1, <2>4
    <3>2. m < n
      BY <1>6, <1>7, <2>2, <3>1
    <3> QED BY <1>1, <1>7, <2>2, <3>1, <3>2 DEF CallsInOrder
  <2> QED BY <2>3, <2>4
<1>8. ASSUME CallsInOrder(ix, u)
      PROVE  CallsInOrder(ix, q) /\ \A c \in CallingOf(q) : ix[c] < ix[f.node]
  <2>1. \A j, k \in DOMAIN q : j < k => j + 1 < k + 1
    BY <1>6
  <2>2. CallsInOrder(ix, q)
    <3> SUFFICES ASSUME NEW j \in DOMAIN q, NEW k \in DOMAIN q, j < k
                 PROVE  ix[q[k].node] < ix[q[j].node]
      BY DEF CallsInOrder
    <3> DEFINE m == j + 1
               n == k + 1
    <3>1. m \in DOMAIN u /\ n \in DOMAIN u /\ m < n /\ u[m] = q[j] /\ u[n] = q[k]
      BY <1>1, <2>1
    <3> HIDE DEF m, n
    <3>2. ix[u[n].node] < ix[u[m].node]
      BY <1>8, <3>1 DEF CallsInOrder
    <3> QED BY <3>1, <3>2
  <2>3. ASSUME NEW k \in DOMAIN q PROVE ix[q[k].node] < ix[f.node]
    <3> DEFINE n == k + 1
    <3>1. n \in DOMAIN u /\ 1 \in DOMAIN u /\ 1 < n /\ u[n] = q[k]
      BY <1>1, <1>6
    <3> HIDE DEF n
    <3>2. ix[u[n].node] < ix[u[1].node]
      BY <1>8, <3>1 DEF CallsInOrder
    <3> QED BY <1>1, <3>1, <3>2
  <2> QED BY <2>2, <2>3 DEF CallingOf
<1> QED BY <1>1, <1>2, <1>5, <1>7, <1>8 DEF CallsInOrder, u

\* The innermost call and the others.
LEMMA CallsSplit ==
    ASSUME NEW q \in Seq(Call), q # <<>>
    PROVE  Head(q) \in Call /\ Tail(q) \in Seq(Call) /\ q = <<Head(q)>> \o Tail(q)
<1>1. /\ Head(q) \in Call /\ Tail(q) \in Seq(Call) /\ Len(Tail(q)) = Len(q) - 1
      /\ \A k \in 1 .. Len(Tail(q)) : Tail(q)[k] = q[k + 1]
  BY HeadTailProperties
<1>2. Head(q) = q[1] /\ Len(q) \in Nat /\ Len(q) # 0 /\ DOMAIN q = 1 .. Len(q)
  OBVIOUS
<1> DEFINE f == Head(q)
           r == Tail(q)
           u == <<f>> \o r
<1> HIDE DEF f, r
<1>3. /\ u \in Seq(Call)
      /\ DOMAIN u = {1} \cup {k + 1 : k \in DOMAIN r}
      /\ u[1] = f
      /\ \A k \in DOMAIN r : u[k + 1] = r[k]
  BY <1>1, Pushed DEF f, r
<1> HIDE DEF u
<1>4. DOMAIN r = 1 .. Len(q) - 1
  BY <1>1, <1>2 DEF r
<1>5. DOMAIN u = DOMAIN q
  <2>1. \A k \in 1 .. Len(q) : k = 1 \/ (k - 1 \in DOMAIN r /\ k = (k - 1) + 1)
    BY <1>2, <1>4
  <2>2. \A k \in DOMAIN r : k + 1 \in 1 .. Len(q)
    BY <1>2, <1>4
  <2>3. 1 \in 1 .. Len(q)
    BY <1>2
  <2> QED BY <1>2, <1>3, <2>1, <2>2, <2>3
<1>6. ASSUME NEW k \in DOMAIN q PROVE u[k] = q[k]
  <2>1. CASE k = 1
    BY <1>2, <1>3, <2>1 DEF f
  <2>2. CASE k # 1
    <3>1. PICK j \in DOMAIN r : k = j + 1
      BY <1>3, <1>5, <2>2
    <3> QED BY <1>1, <1>3, <3>1 DEF r
  <2> QED BY <2>1, <2>2
<1>7. u = q
  <2>1. u = [k \in DOMAIN u |-> u[k]] /\ q = [k \in DOMAIN q |-> q[k]]
    BY <1>3
  <2> QED BY <1>5, <1>6, <2>1
<1> QED BY <1>1, <1>7 DEF u, f, r

\* The first of the calls is the innermost, and the others are as they were.
LEMMA InnermostCall ==
    ASSUME NEW q \in Seq(Call), q # <<>>, NEW ix, CallsInOrder(ix, q),
           \A c \in CallingOf(q) : ix[c] \in Nat
    PROVE  /\ Head(q) \in Call /\ Tail(q) \in Seq(Call)
           /\ Innermost(ix, CallingOf(q), Head(q).node)
           /\ CallingOf(Tail(q)) = CallingOf(q) \ {Head(q).node}
           /\ CallsInOrder(ix, Tail(q))
           /\ \A b : <<Head(q).node, b>> \in LeftOf(q) <=> b \in Head(q).left
           /\ \A a, b : <<a, b>> \in LeftOf(Tail(q)) <=> <<a, b>> \in LeftOf(q) /\ a # Head(q).node
<1> DEFINE f == Head(q)
           r == Tail(q)
<1>1. f \in Call /\ r \in Seq(Call) /\ q = <<f>> \o r
  BY CallsSplit
<1> HIDE DEF f, r
<1>2. /\ CallingOf(q) = CallingOf(r) \cup {f.node}
      /\ \A a, b : <<a, b>> \in LeftOf(q) <=> <<a, b>> \in LeftOf(r) \/ (a = f.node /\ b \in f.left)
      /\ CallsInOrder(ix, r)
      /\ \A c \in CallingOf(r) : ix[c] < ix[f.node]
  BY <1>1, CallPushed
<1>3. \A a, b : <<a, b>> \in LeftOf(r) => a \in CallingOf(r)
  BY DEF LeftOf, CallingOf
<1>4. \A c \in CallingOf(q) : ix[c] \in Nat
  OBVIOUS
<1>5. f.node \notin CallingOf(r)
  BY <1>2, <1>4
<1>6. Innermost(ix, CallingOf(q), f.node)
  BY <1>2, <1>4 DEF Innermost
<1>7. CallingOf(r) = CallingOf(q) \ {f.node}
  BY <1>2, <1>5
<1>8. \A b : <<f.node, b>> \in LeftOf(q) <=> b \in f.left
  BY <1>2, <1>3, <1>5
<1>9. \A a, b : <<a, b>> \in LeftOf(r) <=> <<a, b>> \in LeftOf(q) /\ a # f.node
  BY <1>2, <1>3, <1>5
<1> QED BY <1>1, <1>2, <1>6, <1>7, <1>8, <1>9 DEF f, r

\* The innermost call without the edge that is looked at.
Without(q, s) == << [node |-> Head(q).node, left |-> Head(q).left \ {s}] >> \o Tail(q)

\* An edge is taken from what the innermost call has left.
LEMMA EdgeIsTaken ==
    ASSUME NEW q \in Seq(Call), q # <<>>, NEW ix, CallsInOrder(ix, q),
           \A c \in CallingOf(q) : ix[c] \in Nat, NEW s \in Head(q).left
    PROVE  /\ Without(q, s) \in Seq(Call)
           /\ CallingOf(Without(q, s)) = CallingOf(q)
           /\ CallsInOrder(ix, Without(q, s))
           /\ \A a, b : <<a, b>> \in LeftOf(Without(q, s))
                        <=> <<a, b>> \in LeftOf(q) /\ ~(a = Head(q).node /\ b = s)
<1> DEFINE f == Head(q)
           r == Tail(q)
           e == [node |-> f.node, left |-> f.left \ {s}]
           w == <<e>> \o r
<1>1. /\ f \in Call /\ r \in Seq(Call)
      /\ Innermost(ix, CallingOf(q), f.node)
      /\ CallingOf(r) = CallingOf(q) \ {f.node}
      /\ CallsInOrder(ix, r)
      /\ \A b : <<f.node, b>> \in LeftOf(q) <=> b \in f.left
      /\ \A a, b : <<a, b>> \in LeftOf(r) <=> <<a, b>> \in LeftOf(q) /\ a # f.node
  BY InnermostCall
<1>2. q = <<f>> \o r
  BY CallsSplit
<1> HIDE DEF f, r
<1>3. e \in Call /\ e.node = f.node /\ e.left = f.left \ {s}
  BY <1>1 DEF Call
<1> HIDE DEF e
<1>4. /\ w \in Seq(Call)
      /\ CallingOf(w) = CallingOf(r) \cup {e.node}
      /\ \A a, b : <<a, b>> \in LeftOf(w) <=> <<a, b>> \in LeftOf(r) \/ (a = e.node /\ b \in e.left)
      /\ CallsInOrder(ix, w) <=> CallsInOrder(ix, r) /\ \A c \in CallingOf(r) : ix[c] < ix[e.node]
  BY <1>1, <1>3, CallPushed
<1>5. \A c \in CallingOf(r) : ix[c] < ix[f.node]
  BY <1>1, <1>2, CallPushed
<1> HIDE DEF w
<1>6. CallingOf(w) = CallingOf(q)
  BY <1>1, <1>3, <1>4 DEF Innermost
<1>7. CallsInOrder(ix, w)
  BY <1>1, <1>3, <1>4, <1>5
<1>8. ASSUME NEW a, NEW b
      PROVE  <<a, b>> \in LeftOf(w) <=> <<a, b>> \in LeftOf(q) /\ ~(a = f.node /\ b = s)
  <2>1. CASE a = f.node
    BY <1>1, <1>3, <1>4, <2>1
  <2>2. CASE a # f.node
    BY <1>1, <1>3, <1>4, <2>2
  <2> QED BY <2>1, <2>2
<1> QED BY <1>4, <1>6, <1>7, <1>8 DEF w, e, f, r, Without

-----------------------------------------------------------------------------
(* The steps of a search                                                   *)

\* The operators of LoopFind in the terms of the search above.
LEMMA Names ==
    /\ LF!reserved = DOMAIN base2Loop
    /\ \A n : LF!CFGsuccs(n) = SuccsOf(succ, n) \cap nodes
    /\ \A n : LF!CFGpreds(n) = PredsOf(succ, n) \cap nodes
    /\ LF!Unindexed = nodes \ Seen(nodes, index)
    /\ \A n : LF!onStack(n) <=> n \in StackOf(tarjan)
    /\ LF!Unset = -1
    /\ \A set : LF!Cardinality(set) = Cardinality(set)
<1>1. LF!reserved = DOMAIN base2Loop
  BY DEF LF!reserved
<1>2. \A n : LF!CFGsuccs(n) = SuccsOf(succ, n) \cap nodes
  BY DEF LF!CFGsuccs, LF!SuccsOf, SuccsOf
<1>3. \A n : LF!CFGpreds(n) = PredsOf(succ, n) \cap nodes
  BY DEF LF!CFGpreds, LF!PredsOf, PredsOf, LF!SuccsOf, SuccsOf
<1>4. LF!Unindexed = nodes \ Seen(nodes, index)
  BY DEF LF!Unindexed, LF!Unset, Seen
<1>5. \A n : LF!onStack(n) <=> n \in StackOf(tarjan)
  BY DEF LF!onStack, StackOf
<1>6. LF!Unset = -1
  BY DEF LF!Unset
<1>7. \A set : LF!Cardinality(set) = Cardinality(set)
  BY DEF LF!Cardinality, Cardinality
<1> QED BY <1>1, <1>2, <1>3, <1>4, <1>5, <1>6, <1>7

\* The invariant of a search: numbers are given in order, blocks are on the stack
\* and calls go on in the order of their numbers, and comps has the components
\* that were popped.
Searching ==
    /\ SearchOK(succ, nodes, index, lowlink, StackOf(tarjan), CallingOf(calls), LeftOf(calls))
    /\ StackInOrder(index, tarjan) /\ CallsInOrder(index, calls)
    /\ \A n \in Seen(nodes, index) : index[n] < Cardinality(Seen(nodes, index))
    /\ Kept(succ, nodes, index, StackOf(tarjan), comps)

\* The values the variables have.
SearchTypes ==
    /\ LF!LFTypeOK
    /\ succ \in Graphs
    /\ index \in [Block -> Int] /\ lowlink \in [Block -> Int]
    /\ calls \in Seq(Call)
    /\ search # "components" => calls = <<>> /\ tarjan = <<>>

\* The sets a search works on.
LEMMA SearchFacts ==
    ASSUME SearchTypes, Searching
    PROVE  /\ nodes \subseteq Block /\ IsFiniteSet(nodes)
           /\ tarjan \in Seq(Block) /\ calls \in Seq(Call)
           /\ StackOf(tarjan) \subseteq Seen(nodes, index) /\ Seen(nodes, index) \subseteq nodes
           /\ CallingOf(calls) \subseteq StackOf(tarjan)
           /\ \A n \in Seen(nodes, index) : index[n] \in Nat
<1>1. nodes \subseteq Block /\ tarjan \in Seq(Block) /\ calls \in Seq(Call)
  BY DEF SearchTypes, LF!LFTypeOK
<1>2. IsFiniteSet(nodes)
  BY <1>1, RootAssumption, FS_Subset
<1> QED BY <1>1, <1>2 DEF Searching, SearchOK, EdgesLeft, Indexed, Seen

\* A block is entered, from a list of calls that has no edge to it left.
LEMMA EnterStep ==
    ASSUME SearchTypes, Searching, search = "components",
           NEW s \in nodes, s \notin Seen(nodes, index), LF!Enter(s),
           NEW q \in Seq(Call), CallingOf(q) = CallingOf(calls), CallsInOrder(index, q),
           NEW n, calls = <<>> \/ (Innermost(index, CallingOf(calls), n) /\ <<n, s>> \in LeftOf(calls)),
           \A a, b : <<a, b>> \in LeftOf(q) <=> <<a, b>> \in LeftOf(calls) /\ ~(a = n /\ b = s),
           calls' = << [node |-> s, left |-> LF!CFGsuccs(s)] >> \o q,
           UNCHANGED <<succ, search, nodes, comps, base2Loop, BB2Base>>
    PROVE  SearchTypes' /\ Searching'
<1> DEFINE f == [node |-> s, left |-> SuccsOf(succ, s) \cap nodes]
           num == Cardinality(Seen(nodes, index))
           K == StackOf(tarjan)
<1>1. /\ nodes \subseteq Block /\ IsFiniteSet(nodes)
      /\ tarjan \in Seq(Block) /\ calls \in Seq(Call)
      /\ K \subseteq Seen(nodes, index) /\ Seen(nodes, index) \subseteq nodes
      /\ CallingOf(calls) \subseteq K
      /\ \A m \in Seen(nodes, index) : index[m] \in Nat
  BY SearchFacts
<1>2. IsFiniteSet(Seen(nodes, index)) /\ num \in Nat
  BY <1>1, FS_Subset, FS_CardinalityType
<1>3. f \in Call /\ f.node = s /\ f.left = SuccsOf(succ, s) \cap nodes /\ s \in Block
  BY <1>1 DEF Call
<1>4. index \in [Block -> Int] /\ lowlink \in [Block -> Int]
  BY DEF SearchTypes
<1>5. /\ index' = [index EXCEPT ![s] = num]
      /\ lowlink' = [lowlink EXCEPT ![s] = num]
      /\ tarjan' = <<s>> \o tarjan
  <2>1. nodes \ LF!Unindexed = Seen(nodes, index)
    BY <1>1, Names
  <2> QED BY <2>1, Names DEF LF!Enter
<1>6. calls' = <<f>> \o q
  BY Names
<1> HIDE DEF f, num, K
<1>7. /\ index'[s] = num /\ \A m \in nodes : m # s => index'[m] = index[m]
      /\ lowlink'[s] = num /\ \A m \in nodes : m # s => lowlink'[m] = lowlink[m]
      /\ index' \in [Block -> Int] /\ lowlink' \in [Block -> Int]
  BY <1>1, <1>2, <1>3, <1>4, <1>5
<1>8. Seen(nodes, index') = Seen(nodes, index) \cup {s} /\ s \in nodes
  BY <1>2, <1>7 DEF Seen
<1>9. \A m \in Seen(nodes, index) : index[m] < num /\ index'[m] = index[m] /\ m # s
  BY <1>1, <1>7 DEF Searching, num
<1>10. /\ tarjan' \in Seq(Block)
       /\ StackOf(tarjan') = K \cup {s}
       /\ StackInOrder(index', tarjan')
  <2>1. StackInOrder(index', tarjan)
    <3>1. \A k \in DOMAIN tarjan : index'[tarjan[k]] = index[tarjan[k]]
      BY <1>1, <1>9 DEF StackOf, K
    <3> QED BY <3>1 DEF Searching, StackInOrder
  <2>2. \A x \in K : index'[x] < index'[s]
    BY <1>1, <1>7, <1>9
  <2> QED BY <1>1, <1>3, <1>5, <2>1, <2>2, StackPushed DEF K
<1>11. /\ calls' \in Seq(Call)
       /\ CallingOf(calls') = CallingOf(calls) \cup {s}
       /\ \A a, b : <<a, b>> \in LeftOf(calls') <=> <<a, b>> \in LeftOf(q) \/ (a = s /\ b \in SuccsOf(succ, s) \cap nodes)
       /\ CallsInOrder(index', calls')
  <2>1. CallsInOrder(index', q)
    <3>1. \A k \in DOMAIN q : index'[q[k].node] = index[q[k].node]
      BY <1>1, <1>9 DEF CallingOf
    <3> QED BY <3>1 DEF CallsInOrder
  <2>2. \A c \in CallingOf(q) : index'[c] < index'[s]
    BY <1>1, <1>7, <1>9
  <2> QED BY <1>3, <1>6, <2>1, <2>2, CallPushed
<1>12. SearchOK(succ, nodes, index', lowlink', K \cup {s}, CallingOf(calls) \cup {s}, LeftOf(calls'))
  <2> DEFINE P == LeftOf(calls)
             P2 == LeftOf(calls')
             C == CallingOf(calls)
  <2>1. SearchOK(succ, nodes, index, lowlink, K, C, P)
    BY DEF Searching, K
  <2>2. C = {} \/ (Innermost(index, C, n) /\ <<n, s>> \in P)
    <3>1. calls = <<>> => C = {}
      BY DEF CallingOf
    <3> QED BY <3>1
  <2>3. \A a, b : <<a, b>> \in P2 <=> \/ <<a, b>> \in P /\ ~(a = n /\ b = s)
                                      \/ a = s /\ b \in SuccsOf(succ, s) /\ b \in nodes
    BY <1>11
  <2>4. index[s] = -1
    BY DEF Seen
  <2>5. \A m \in Seen(nodes, index) : index[m] < num
    BY <1>9
  <2> HIDE DEF P, P2, C
  <2>6. Entering(succ, nodes, index, lowlink, K, C, P, s, n, index', lowlink', P2)
    BY <1>2, <1>7, <2>1, <2>2, <2>3, <2>4, <2>5 DEF Entering
  <2>7. SearchOK(succ, nodes, index', lowlink', K \cup {s}, C \cup {s}, P2)
    BY <1>1, <2>6, EnterKeeps
  <2> QED BY <2>7 DEF P2, C
<1>13. Kept(succ, nodes, index', K \cup {s}, comps)
  <2>1. Seen(nodes, index') \ (K \cup {s}) = Seen(nodes, index) \ K
    BY <1>8, <1>9
  <2> QED BY <2>1 DEF Searching, Kept, K
<1>14. \A m \in Seen(nodes, index') : index'[m] < Cardinality(Seen(nodes, index'))
  <2>1. Cardinality(Seen(nodes, index) \cup {s}) = num + 1
    BY <1>2, <1>9, FS_AddElement DEF num
  <2>2. \A m \in Seen(nodes, index) \cup {s} : index'[m] < num + 1
    <3>1. \A m \in Seen(nodes, index) : index[m] \in Nat /\ index[m] < num /\ index'[m] = index[m]
      BY <1>1, <1>9
    <3> QED BY <1>2, <1>7, <3>1
  <2> QED BY <1>8, <2>1, <2>2
<1>15. Searching'
  BY <1>10, <1>11, <1>12, <1>13, <1>14 DEF Searching
<1>16. SearchTypes'
  BY <1>7, <1>10, <1>11 DEF SearchTypes, LF!LFTypeOK, LF!reserved
<1> QED BY <1>15, <1>16

\* stronglyConnComponents calls traverse for a block that was not seen
\* (LoopFind.cc:106-115).
LEMMA RootCallStep ==
    ASSUME SearchTypes, Searching, LF!stronglyConnComponents, UNCHANGED succ
    PROVE  SearchTypes' /\ Searching'
<1>1. search = "components" /\ calls = <<>> /\ UNCHANGED <<succ, search, nodes, comps, base2Loop, BB2Base>>
  BY DEF LF!stronglyConnComponents
<1>2. PICK s \in LF!Unindexed : /\ LF!Enter(s)
                                /\ calls' = << [node |-> s, left |-> LF!CFGsuccs(s)] >>
  BY DEF LF!stronglyConnComponents
<1>3. s \in nodes /\ s \notin Seen(nodes, index)
  BY Names
<1>4. calls \in Seq(Call) /\ CallsInOrder(index, calls)
  BY DEF SearchTypes, Searching
<1>5. LeftOf(calls) = {}
  BY <1>1 DEF LeftOf
<1>6. calls' = << [node |-> s, left |-> LF!CFGsuccs(s)] >> \o calls
  <2> DEFINE f == [node |-> s, left |-> LF!CFGsuccs(s)]
  <2>1. <<f>> \in Seq({f})
    OBVIOUS
  <2>2. <<f>> \o <<>> = <<f>>
    BY <2>1, ConcatEmptySeq
  <2> QED BY <1>1, <1>2, <2>2
<1>7. \A a, b : <<a, b>> \in LeftOf(calls) <=> <<a, b>> \in LeftOf(calls) /\ ~(a = root /\ b = s)
  BY <1>5
<1> QED BY <1>1, <1>2, <1>3, <1>4, <1>6, <1>7, EnterStep

\* traverse looks at an edge of the innermost call (LoopFind.cc:125-132).
LEMMA EdgeStep ==
    ASSUME SearchTypes, Searching, LF!Edge, UNCHANGED succ
    PROVE  SearchTypes' /\ Searching'
<1> DEFINE n == Head(calls).node
           K == StackOf(tarjan)
           C == CallingOf(calls)
           P == LeftOf(calls)
<1>1. search = "components" /\ calls # <<>> /\ UNCHANGED <<succ, search, nodes, comps, base2Loop, BB2Base>>
  BY DEF LF!Edge
<1>2. PICK s \in Head(calls).left :
        \/ /\ index[s] = LF!Unset
           /\ LF!Enter(s)
           /\ calls' = << [node |-> s, left |-> LF!CFGsuccs(s)] >> \o Without(calls, s)
        \/ /\ index[s] # LF!Unset
           /\ IF LF!onStack(s) THEN LF!Lower(n, index[s]) ELSE UNCHANGED lowlink
           /\ calls' = Without(calls, s)
           /\ UNCHANGED <<index, tarjan>>
  BY DEF LF!Edge, Without
<1>3. /\ nodes \subseteq Block /\ IsFiniteSet(nodes)
      /\ tarjan \in Seq(Block) /\ calls \in Seq(Call)
      /\ K \subseteq Seen(nodes, index) /\ Seen(nodes, index) \subseteq nodes
      /\ C \subseteq K
      /\ \A m \in Seen(nodes, index) : index[m] \in Nat
  BY SearchFacts
<1>4. CallsInOrder(index, calls) /\ \A c \in C : index[c] \in Nat
  BY <1>3 DEF Searching
<1>5. /\ Innermost(index, C, n)
      /\ \A b : <<n, b>> \in P <=> b \in Head(calls).left
  BY <1>1, <1>3, <1>4, InnermostCall
<1>6. /\ Without(calls, s) \in Seq(Call)
      /\ CallingOf(Without(calls, s)) = C
      /\ CallsInOrder(index, Without(calls, s))
      /\ \A a, b : <<a, b>> \in LeftOf(Without(calls, s)) <=> <<a, b>> \in P /\ ~(a = n /\ b = s)
  BY <1>1, <1>3, <1>4, EdgeIsTaken
<1>7. <<n, s>> \in P /\ s \in nodes
  <2>1. <<n, s>> \in P
    BY <1>5
  <2> QED BY <2>1 DEF Searching, SearchOK, EdgesLeft
<1>8. LF!Unset = -1 /\ (LF!onStack(s) <=> s \in K)
  BY Names
<1> HIDE DEF n, K, C, P
<1>9. CASE index[s] = -1
  <2>1. /\ LF!Enter(s)
        /\ calls' = << [node |-> s, left |-> LF!CFGsuccs(s)] >> \o Without(calls, s)
    BY <1>2, <1>8, <1>9
  <2>2. s \notin Seen(nodes, index)
    BY <1>9 DEF Seen
  <2> DEFINE q == Without(calls, s)
  <2> HIDE DEF q
  <2> QED BY <1>1, <1>5, <1>6, <1>7, <2>1, <2>2, EnterStep DEF q, C, P
<1>10. CASE index[s] # -1
  <2>1. /\ IF s \in K THEN LF!Lower(n, index[s]) ELSE UNCHANGED lowlink
        /\ calls' = Without(calls, s)
        /\ UNCHANGED <<index, tarjan>>
    BY <1>2, <1>8, <1>10
  <2>2. s \in Seen(nodes, index) /\ n \in nodes /\ n \in Block /\ n \in K /\ s \in Block
    BY <1>3, <1>5, <1>7, <1>10 DEF Seen, Innermost
  <2>3. index \in [Block -> Int] /\ lowlink \in [Block -> Int]
    BY DEF SearchTypes
  <2>4. /\ lowlink' \in [Block -> Int]
        /\ \A m \in nodes : m # n => lowlink'[m] = lowlink[m]
        /\ lowlink'[n] = IF s \in K /\ index[s] < lowlink[n] THEN index[s] ELSE lowlink[n]
    BY <1>3, <2>1, <2>2, <2>3 DEF LF!Lower
  <2> DEFINE P2 == LeftOf(calls')
  <2>5. \A a, b : <<a, b>> \in P2 <=> <<a, b>> \in P /\ ~(a = n /\ b = s)
    BY <1>6, <2>1
  <2> HIDE DEF P2
  <2>6. LooksAt(succ, nodes, index, lowlink, K, C, P, n, s, lowlink', P2)
    <3>1. SearchOK(succ, nodes, index, lowlink, K, C, P)
      BY DEF Searching, K, C, P
    <3> QED BY <1>5, <1>7, <2>2, <2>4, <2>5, <3>1 DEF LooksAt
  <2>7. SearchOK(succ, nodes, index, lowlink', K, C, P2)
    BY <1>3, <2>6, EdgeKeeps
  <2>8. Searching'
    BY <1>1, <1>6, <2>1, <2>7 DEF Searching, K, C, P2
  <2>9. SearchTypes'
    BY <1>1, <1>6, <2>1, <2>4 DEF SearchTypes, LF!LFTypeOK, LF!reserved
  <2> QED BY <2>8, <2>9
<1> QED BY <1>9, <1>10

\* traverse ends: a block that is its own link takes its component off the stack
\* (LoopFind.cc:134-147).
LEMMA ReturnStep ==
    ASSUME SearchTypes, Searching, LF!Return, UNCHANGED succ
    PROVE  SearchTypes' /\ Searching'
<1> DEFINE n == Head(calls).node
           p == Head(Tail(calls)).node
           K == StackOf(tarjan)
           C == CallingOf(calls)
           P == LeftOf(calls)
           d == CHOOSE k \in DOMAIN tarjan : tarjan[k] = n
           S == {tarjan[k] : k \in 1 .. d}
           cut == SubSeq(tarjan, d + 1, Len(tarjan))
           r == Tail(calls)
<1>1. /\ search = "components" /\ calls # <<>> /\ Head(calls).left = {}
      /\ UNCHANGED <<succ, search, nodes, index, base2Loop, BB2Base>>
  BY DEF LF!Return
<1>2. /\ IF index[n] = lowlink[n]
         THEN /\ tarjan' = cut
              /\ comps' = IF Cardinality(S) = 1 THEN comps ELSE comps \cup {S}
         ELSE UNCHANGED <<tarjan, comps>>
      /\ calls' = r
      /\ IF r = <<>> THEN UNCHANGED lowlink ELSE LF!Lower(p, lowlink[n])
  BY Names DEF LF!Return
<1>3. /\ nodes \subseteq Block /\ IsFiniteSet(nodes)
      /\ tarjan \in Seq(Block) /\ calls \in Seq(Call)
      /\ K \subseteq Seen(nodes, index) /\ Seen(nodes, index) \subseteq nodes
      /\ C \subseteq K
      /\ \A m \in Seen(nodes, index) : index[m] \in Nat
  BY SearchFacts
<1>4. CallsInOrder(index, calls) /\ StackInOrder(index, tarjan) /\ \A c \in C : index[c] \in Nat
  BY <1>3 DEF Searching
<1>5. /\ Innermost(index, C, n) /\ r \in Seq(Call)
      /\ CallingOf(r) = C \ {n}
      /\ CallsInOrder(index, r)
      /\ \A b : <<n, b>> \notin P
      /\ \A a, b : <<a, b>> \in LeftOf(r) <=> <<a, b>> \in P /\ a # n
  BY <1>1, <1>3, <1>4, InnermostCall
<1>6. n \in C /\ n \in K /\ n \in nodes /\ n \in Block
  BY <1>3, <1>5 DEF Innermost
<1>7. d \in DOMAIN tarjan /\ tarjan[d] = n
  <2>1. \E k \in DOMAIN tarjan : tarjan[k] = n
    BY <1>6 DEF StackOf
  <2> QED BY <2>1
<1>8. SearchOK(succ, nodes, index, lowlink, K, C, P)
  BY DEF Searching
<1> HIDE DEF n, p, K, C, P, d
<1>9. /\ lowlink' \in [Block -> Int]
      /\ Ends(succ, nodes, index, lowlink, K, C, P, n, p, lowlink')
  <2>1. index \in [Block -> Int] /\ lowlink \in [Block -> Int]
    BY DEF SearchTypes
  <2>2. CASE r = <<>>
    <3>1. C \ {n} = {}
      <4>1. CallingOf(r) = {}
        BY <2>2 DEF CallingOf
      <4> QED BY <1>5, <4>1
    <3> HIDE DEF r
    <3> QED BY <1>2, <1>5, <1>8, <2>1, <2>2, <3>1 DEF Ends
  <2>3. CASE r # <<>>
    <3>1. \A c \in CallingOf(r) : index[c] \in Nat
      BY <1>4, <1>5
    <3> HIDE DEF r
    <3>2. Innermost(index, CallingOf(r), Head(r).node)
      BY <1>5, <2>3, <3>1, InnermostCall
    <3>3. Innermost(index, C \ {n}, p)
      BY <1>5, <3>2 DEF p, r
    <3>4. p \in Block /\ p \in nodes
      BY <1>3, <3>3 DEF Innermost
    <3>5. /\ lowlink' \in [Block -> Int]
          /\ lowlink'[p] = IF lowlink[n] < lowlink[p] THEN lowlink[n] ELSE lowlink[p]
          /\ \A m \in nodes : m # p => lowlink'[m] = lowlink[m]
      BY <1>2, <1>3, <1>6, <2>1, <2>3, <3>4 DEF LF!Lower
    <3> QED BY <1>5, <1>8, <3>3, <3>5 DEF Ends
  <2> QED BY <2>2, <2>3
<1>10. /\ \A a, b : <<a, b>> \in LeftOf(calls') <=> <<a, b>> \in P
       /\ CallingOf(calls') = C \ {n}
       /\ calls' \in Seq(Call) /\ CallsInOrder(index, calls')
  <2>1. ASSUME NEW a, NEW b PROVE <<a, b>> \in LeftOf(r) <=> <<a, b>> \in P
    BY <1>5
  <2> HIDE DEF r
  <2> QED BY <1>2, <1>5, <2>1
<1>11. LeftOf(calls') = P
  <2>1. \A x \in LeftOf(calls') : \E a, b : x = <<a, b>>
    BY DEF LeftOf
  <2>2. \A x \in P : \E a, b : x = <<a, b>>
    BY DEF LeftOf, P
  <2>3. LeftOf(calls') \subseteq P
    BY <1>10, <2>1
  <2>4. P \subseteq LeftOf(calls')
    BY <1>10, <2>2
  <2> QED BY <2>3, <2>4
<1>12. CASE index[n] # lowlink[n]
  <2>1. SearchOK(succ, nodes, index, lowlink', K, C \ {n}, P)
    BY <1>3, <1>9, <1>12, ReturnKeeps
  <2>2. UNCHANGED <<tarjan, comps>>
    BY <1>2, <1>12
  <2>3. Searching'
    BY <1>1, <1>4, <1>10, <1>11, <2>1, <2>2 DEF Searching, K
  <2>4. SearchTypes'
    BY <1>1, <1>9, <1>10, <2>2 DEF SearchTypes, LF!LFTypeOK, LF!reserved
  <2> QED BY <2>3, <2>4
<1>13. CASE index[n] = lowlink[n]
  <2> DEFINE F == From(K, index, n)
  <2>1. /\ S = F
        /\ cut \in Seq(Block)
        /\ StackOf(cut) = K \ F
        /\ StackInOrder(index, cut)
    BY <1>3, <1>4, <1>7, StackCut DEF K
  <2>2. F = Component(succ, nodes, n)
    <3>1. IsFiniteSet(nodes) /\ Ends(succ, nodes, index, lowlink, K, C, P, n, p, lowlink')
      BY <1>3, <1>9
    <3>2. lowlink[n] = index[n]
      BY <1>13
    <3> HIDE DEF S, cut, r
    <3>3. /\ From(K, index, n) = Component(succ, nodes, n)
          /\ Closed(succ, nodes, From(K, index, n) \cup (Seen(nodes, index) \ K))
      BY <3>1, <3>2, PopsComponent
    <3> QED BY <3>3
  <2>3. SearchOK(succ, nodes, index, lowlink', K \ F, C \ {n}, P)
    BY <1>3, <1>9, <1>13, PopKeeps
  <2>4. F \subseteq K
    BY DEF From
  <2> HIDE DEF F, S, cut
  <2>5. tarjan' = cut /\ comps' = IF Cardinality(F) = 1 THEN comps ELSE comps \cup {F}
    BY <1>2, <1>13, <2>1
  <2>6. Kept(succ, nodes, index, K \ F, comps')
    <3>1. Kept(succ, nodes, index, K, comps)
      BY DEF Searching, K
    <3> QED BY <1>3, <1>6, <2>2, <2>4, <2>5, <3>1, PopIsKept
  <2>7. Searching'
    BY <1>1, <1>4, <1>10, <1>11, <2>1, <2>3, <2>5, <2>6 DEF Searching
  <2>8. SearchTypes'
    <3>1. comps' \subseteq SUBSET Block
      BY <1>3, <2>4, <2>5 DEF SearchTypes, LF!LFTypeOK
    <3> QED BY <1>1, <1>9, <1>10, <2>1, <2>5, <3>1 DEF SearchTypes, LF!LFTypeOK, LF!reserved
  <2> QED BY <2>7, <2>8
<1> QED BY <1>12, <1>13

-----------------------------------------------------------------------------
(* The rounds of searches, and what they have found                        *)

\* The header of a loop in a set of blocks that has no header of a loop around it.
Outermost(g, r, N, h) ==
    /\ h \in LoopsOf(g, r) \cap N
    /\ \A k \in LoopsOf(g, r) : k # h /\ h \in NaturalLoop(g, r, k) => k \notin N

\* The bases of the loops around b that were found.
Around(b) == {h \in DOMAIN base2Loop : b \in base2Loop[h]}

\* A block has the base of the smallest of the found loops around it.
InnermostBase(b) ==
    IF Around(b) = {} THEN b \notin DOMAIN BB2Base
    ELSE /\ b \in DOMAIN BB2Base /\ BB2Base[b] \in Around(b)
         /\ \A h \in Around(b) : base2Loop[BB2Base[b]] \subseteq base2Loop[h]

\* What was found so far in a graph whose cycles are entered through one block: the
\* search has the whole loop of every header it still has.
LoopsFoundSoFar ==
    /\ DOMAIN base2Loop \subseteq LoopsOf(succ, root)
    /\ \A h \in DOMAIN base2Loop : base2Loop[h] = NaturalLoop(succ, root, h)
    /\ \A h \in LoopsOf(succ, root) \cap nodes : NaturalLoop(succ, root, h) \subseteq nodes
    /\ \A b \in Block : InnermostBase(b)
    /\ search = "bases" =>
         \A set \in comps : \E h \in nodes : Outermost(succ, root, nodes, h) /\ set = NaturalLoop(succ, root, h)

\* Whatever the graph: the blocks that are searched are those in use that are no
\* base; every base has a predecessor outside of its loop; the components still
\* to be taken are disjoint; in the end no component has two blocks.
RoundsOK ==
    /\ search = "off" => /\ nodes = {} /\ DOMAIN base2Loop = {} /\ DOMAIN BB2Base = {} /\ comps = {}
                         /\ Seen(InUse(succ, root), index) = {}
    /\ search # "off" => nodes = InUse(succ, root) \ DOMAIN base2Loop
    /\ \A b \in DOMAIN base2Loop : PredsOf(succ, b) \ base2Loop[b] # {}
    /\ search = "bases" => /\ \A set \in comps : set \subseteq nodes
                           /\ \A set, other \in comps : set # other => set \cap other = {}
    /\ search = "found" => \A b \in nodes : Component(succ, nodes, b) = {b}

\* The invariant of LoopFind.
LFInv ==
    /\ SearchTypes
    /\ search = "components" => Searching
    /\ RoundsOK
    /\ Reducible(succ, root) => LoopsFoundSoFar

\* The graphs of FlowAnalyses are ones the lemmas on loops apply to.
LEMMA GraphIsAlive ==
    ASSUME succ \in Graphs
    PROVE  Alive(succ, root, None) /\ DOMAIN succ = Block
<1>1. succ \in [Block -> Seq(Block)] /\ DOMAIN succ = Block
  BY GraphAssumption
<1>2. \A b \in Block : /\ SuccsOf(succ, b) \subseteq Block \ {root}
                       /\ SuccsOf(succ, b) # {} => b \in Avoiding(succ, root, None)
  BY FlowAssumption
<1>3. IsGraph(succ)
  BY <1>1, <1>2, RootAssumption DEF IsGraph
<1> QED BY <1>1, <1>2, <1>3, RootAssumption DEF Alive

\* The loops of a graph are in use.
LEMMA LoopsInUse ==
    ASSUME NEW g, NEW r, NEW z, Alive(g, r, z), NEW h \in LoopsOf(g, r)
    PROVE  IsLoop(g, r, h) /\ h \in NaturalLoop(g, r, h) /\ NaturalLoop(g, r, h) \subseteq InUse(g, r)
<1>1. IsLoop(g, r, h) /\ h \in NaturalLoop(g, r, h)
  BY DEF LoopsOf, IsLoop, NaturalLoop
<1>2. ASSUME NEW y \in NaturalLoop(g, r, h) PROVE y \in InUse(g, r)
  <2>1. Reachable(g, r, y)
    BY <1>1, HeaderDominates, AliveFacts
  <2>2. r \in InUse(g, r) /\ \A x \in InUse(g, r) \cap DOMAIN g : SuccsOf(g, x) \subseteq InUse(g, r)
    BY DEF InUse
  <2> QED BY <2>1, <2>2 DEF Reachable
<1> QED BY <1>1, <1>2

\* LFInv holds before the pass runs.
LEMMA LFInitially ==
    ASSUME LF!LFInit, succ \in Graphs
    PROVE  LFInv
<1>1. /\ search = "off" /\ nodes = {} /\ calls = <<>> /\ tarjan = <<>> /\ comps = {}
      /\ base2Loop = <<>> /\ BB2Base = <<>>
      /\ index = [b \in Block |-> -1] /\ lowlink = [b \in Block |-> -1]
  BY Names DEF LF!LFInit
<1>2. DOMAIN base2Loop = {} /\ DOMAIN BB2Base = {}
  BY <1>1
<1>3. InUse(succ, root) \subseteq Block
  BY GraphIsAlive DEF InUse, Alive, IsGraph
<1>4. SearchTypes
  BY <1>1, <1>2 DEF SearchTypes, LF!LFTypeOK, LF!reserved
<1>5. RoundsOK
  BY <1>1, <1>2, <1>3 DEF RoundsOK, Seen
<1>6. LoopsFoundSoFar
  BY <1>1, <1>2 DEF LoopsFoundSoFar, InnermostBase, Around
<1> QED BY <1>1, <1>4, <1>5, <1>6 DEF LFInv

\* buildCFG gives the blocks to be searched.
LEMMA BuildStep ==
    ASSUME LFInv, LF!buildCFG, UNCHANGED succ
    PROVE  LFInv'
<1>1. /\ search = "off" /\ search' = "components" /\ nodes' = InUse(succ, root)
      /\ UNCHANGED <<index, lowlink, calls, tarjan, comps, base2Loop, BB2Base>>
  BY DEF LF!buildCFG, LF!InUse, InUse, LF!SuccsOf, SuccsOf
<1>2. SearchTypes /\ succ \in Graphs /\ RoundsOK
  BY DEF LFInv, SearchTypes
<1>3. Alive(succ, root, None) /\ DOMAIN succ = Block
  BY <1>2, GraphIsAlive
<1>4. InUse(succ, root) \subseteq Block /\ IsFiniteSet(InUse(succ, root))
  <2>1. InUse(succ, root) \subseteq Block
    BY <1>3 DEF InUse, Alive, IsGraph
  <2> QED BY <2>1, RootAssumption, FS_Subset
<1>5. calls = <<>> /\ tarjan = <<>> /\ comps = {}
  BY <1>1, <1>2 DEF SearchTypes, RoundsOK
<1>6. StackOf(tarjan) = {} /\ CallingOf(calls) = {} /\ LeftOf(calls) = {}
  BY <1>5 DEF StackOf, CallingOf, LeftOf
<1>7. Seen(nodes', index) = {}
  BY <1>1, <1>2 DEF RoundsOK
<1>8. SearchTypes'
  BY <1>1, <1>2, <1>4 DEF SearchTypes, LF!LFTypeOK, LF!reserved
<1>9. Searching'
  <2>1. SearchOK(succ, nodes', index, lowlink, {}, {}, {})
    BY <1>7 DEF SearchOK, Indexed, EdgesLeft, Linked, Traversed
  <2>2. Kept(succ, nodes', index, {}, comps)
    BY <1>5, <1>7 DEF Kept
  <2>3. StackInOrder(index, tarjan) /\ CallsInOrder(index, calls)
    BY <1>5 DEF StackInOrder, CallsInOrder
  <2> QED BY <1>1, <1>6, <1>7, <2>1, <2>2, <2>3 DEF Searching
<1>10. RoundsOK'
  BY <1>1, <1>2 DEF RoundsOK
<1>11. Reducible(succ, root) => LoopsFoundSoFar'
  <2> SUFFICES ASSUME Reducible(succ, root) PROVE LoopsFoundSoFar'
    OBVIOUS
  <2>1. LoopsFoundSoFar
    BY DEF LFInv
  <2>2. \A h \in LoopsOf(succ, root) : NaturalLoop(succ, root, h) \subseteq nodes'
    BY <1>1, <1>3, LoopsInUse
  <2> QED BY <1>1, <2>1, <2>2 DEF LoopsFoundSoFar, InnermostBase, Around
<1> QED BY <1>1, <1>8, <1>9, <1>10, <1>11 DEF LFInv

\* The steps of a search keep what the rounds have found.
LEMMA RoundsStay ==
    ASSUME LFInv, search = "components",
           UNCHANGED <<succ, search, nodes, base2Loop, BB2Base>>
    PROVE  RoundsOK' /\ (Reducible(succ', root) => LoopsFoundSoFar')
<1>1. RoundsOK'
  BY DEF LFInv, RoundsOK
<1>2. Reducible(succ, root) => LoopsFoundSoFar'
  BY DEF LFInv, LoopsFoundSoFar, InnermostBase, Around
<1> QED BY <1>1, <1>2

\* A search ends with the components of two blocks and more.  Where every cycle
\* has one entry, each is the whole loop of an outermost header.
LEMMA EndSearchStep ==
    ASSUME LFInv, LF!EndSearch, UNCHANGED succ
    PROVE  LFInv'
<1> DEFINE W(c) == Component(succ, nodes, c)
<1>1. /\ search = "components" /\ calls = <<>> /\ LF!Unindexed = {}
      /\ search' = IF comps = {} THEN "found" ELSE "bases"
      /\ UNCHANGED <<nodes, index, lowlink, calls, tarjan, comps, base2Loop, BB2Base>>
  BY DEF LF!EndSearch
<1>2. SearchTypes /\ Searching /\ RoundsOK /\ succ \in Graphs
  BY <1>1 DEF LFInv, SearchTypes
<1>3. /\ nodes \subseteq Block /\ IsFiniteSet(nodes) /\ tarjan \in Seq(Block)
  BY <1>2, SearchFacts
<1>4. Seen(nodes, index) = nodes
  BY <1>1, Names DEF Seen
<1>5. CallingOf(calls) = {}
  BY <1>1 DEF CallingOf
<1>6. StackOf(tarjan) = {}
  BY <1>2, <1>5, NoneIsLeft DEF Searching
<1>7. tarjan = <<>>
  <2>1. DOMAIN tarjan = {}
    BY <1>6 DEF StackOf
  <2> QED BY <1>3, <2>1
<1>8. /\ \A set \in comps : \E c \in nodes : set = W(c) /\ set # {c}
      /\ \A c \in nodes : W(c) \in comps \/ W(c) = {c}
  BY <1>2, <1>4, <1>6 DEF Searching, Kept
<1>9. SearchTypes'
  BY <1>1, <1>2, <1>7 DEF SearchTypes, LF!LFTypeOK, LF!reserved
<1>10. RoundsOK'
  <2>1. ASSUME NEW set \in comps PROVE set \subseteq nodes
    BY <1>3, <1>8, ComponentFacts
  <2>2. ASSUME NEW set \in comps, NEW other \in comps, NEW x \in set, x \in other PROVE set = other
    <3>1. PICK c \in nodes : set = W(c)
      BY <1>8
    <3>2. PICK e \in nodes : other = W(e)
      BY <1>8
    <3> QED BY <1>3, <2>2, <3>1, <3>2, ComponentOfMember
  <2>3. \A set, other \in comps : set # other => set \cap other = {}
    BY <2>2
  <2>4. comps = {} => \A c \in nodes : W(c) = {c}
    BY <1>8
  <2> QED BY <1>1, <1>2, <2>1, <2>3, <2>4 DEF RoundsOK
<1>11. ASSUME Reducible(succ, root) PROVE LoopsFoundSoFar'
  <2>1. Alive(succ, root, None) /\ nodes \subseteq DOMAIN succ
    BY <1>2, <1>3, GraphIsAlive
  <2>2. LoopsFoundSoFar
    BY <1>11 DEF LFInv
  <2>3. \A k \in LoopsOf(succ, root) \cap nodes : NaturalLoop(succ, root, k) \subseteq nodes
    BY <2>2 DEF LoopsFoundSoFar
  <2>4. ASSUME NEW set \in comps
        PROVE  \E h \in nodes : Outermost(succ, root, nodes, h) /\ set = NaturalLoop(succ, root, h)
    <3>1. PICK c \in nodes : set = W(c) /\ set # {c}
      BY <1>8
    <3>2. PICK h \in W(c) : \A x \in W(c) : DominatesIn(succ, root, h, x)
      BY <1>11, <2>1, ReducibleHeader
    <3>3. W(c) # {h}
      <4>1. c \in W(c)
        BY DEF Component
      <4> QED BY <3>1, <4>1
    <3>4. /\ h \in LoopsOf(succ, root) \cap nodes
          /\ W(c) = NaturalLoop(succ, root, h)
          /\ \A k \in LoopsOf(succ, root) : k # h /\ h \in NaturalLoop(succ, root, k) => k \notin nodes
      BY <2>1, <2>3, <3>2, <3>3, ComponentIsLoop
    <3> QED BY <3>1, <3>4 DEF Outermost
  <2> QED BY <1>1, <2>2, <2>4 DEF LoopsFoundSoFar, InnermostBase, Around
<1> QED BY <1>1, <1>9, <1>10, <1>11 DEF LFInv

\* The next round begins on the blocks that are left, with none seen.
LEMMA NextRoundStep ==
    ASSUME LFInv, LF!NextRound, UNCHANGED succ
    PROVE  LFInv'
<1>1. /\ search = "bases" /\ comps = {} /\ search' = "components"
      /\ index' = [b \in Block |-> -1] /\ lowlink' = [b \in Block |-> -1]
      /\ UNCHANGED <<nodes, calls, tarjan, comps, base2Loop, BB2Base>>
  BY Names DEF LF!NextRound
<1>2. SearchTypes /\ RoundsOK /\ succ \in Graphs /\ nodes \subseteq Block /\ calls = <<>> /\ tarjan = <<>>
  BY <1>1 DEF LFInv, SearchTypes, LF!LFTypeOK
<1>3. StackOf(tarjan) = {} /\ CallingOf(calls) = {} /\ LeftOf(calls) = {}
  BY <1>2 DEF StackOf, CallingOf, LeftOf
<1>4. Seen(nodes, index') = {}
  BY <1>1, <1>2 DEF Seen
<1>5. SearchTypes'
  BY <1>1, <1>2 DEF SearchTypes, LF!LFTypeOK, LF!reserved
<1>6. Searching'
  <2>1. SearchOK(succ, nodes, index', lowlink', {}, {}, {})
    BY <1>4 DEF SearchOK, Indexed, EdgesLeft, Linked, Traversed
  <2>2. Kept(succ, nodes, index', {}, comps)
    BY <1>1, <1>4 DEF Kept
  <2>3. StackInOrder(index', tarjan) /\ CallsInOrder(index', calls)
    BY <1>2 DEF StackInOrder, CallsInOrder
  <2> QED BY <1>1, <1>3, <1>4, <2>1, <2>2, <2>3 DEF Searching
<1>7. RoundsOK'
  BY <1>1, <1>2 DEF RoundsOK
<1>8. Reducible(succ, root) => LoopsFoundSoFar'
  BY <1>1 DEF LFInv, LoopsFoundSoFar, InnermostBase, Around
<1> QED BY <1>1, <1>5, <1>6, <1>7, <1>8 DEF LFInv

\* The block that is taken for the base of a component has a predecessor outside of
\* it; a component that is a natural loop is entered through its header only.
LEMMA BaseFacts ==
    ASSUME LFInv, search = "bases", NEW set \in comps, NEW base \in LF!findLoopBase(set)
    PROVE  /\ base \in set /\ set \subseteq nodes
           /\ PredsOf(succ, base) \ set # {}
           /\ Reducible(succ, root) => Outermost(succ, root, nodes, base) /\ set = NaturalLoop(succ, root, base)
<1>1. SearchTypes /\ RoundsOK /\ succ \in Graphs /\ set \subseteq nodes /\ nodes \subseteq Block
  BY DEF LFInv, SearchTypes, RoundsOK, LF!LFTypeOK
<1>2. Alive(succ, root, None) /\ DOMAIN succ = Block
  BY <1>1, GraphIsAlive
<1>3. nodes \cap DOMAIN base2Loop = {} /\ DOMAIN base2Loop \subseteq Block
  BY <1>1 DEF RoundsOK, SearchTypes, LF!LFTypeOK, LF!reserved
<1>4. base \in set /\ \E p \in Block : p \notin set /\ base \in SuccsOf(succ, p)
  <2>1. CASE LF!Entered(set) # {}
    <3>1. base \in set /\ LF!CFGpreds(base) \ set # {}
      BY <2>1 DEF LF!findLoopBase, LF!Entered
    <3>2. LF!CFGpreds(base) = PredsOf(succ, base) \cap nodes
      BY Names
    <3> QED BY <1>2, <3>1, <3>2 DEF PredsOf
  <2>2. CASE LF!Entered(set) = {}
    <3>1. base \in set \cap UNION {LF!SuccsOf(succ, res) : res \in DOMAIN base2Loop}
      BY <2>2, Names DEF LF!findLoopBase
    <3>2. PICK res \in DOMAIN base2Loop : base \in LF!SuccsOf(succ, res)
      BY <3>1
    <3>3. base \in SuccsOf(succ, res)
      BY <3>2 DEF SuccsOf, LF!SuccsOf
    <3> QED BY <1>1, <1>3, <3>1, <3>3
  <2> QED BY <2>1, <2>2
<1>5. PICK p \in Block : p \notin set /\ base \in SuccsOf(succ, p)
  BY <1>4
<1>6. ASSUME Reducible(succ, root)
      PROVE  Outermost(succ, root, nodes, base) /\ set = NaturalLoop(succ, root, base)
  <2>1. PICK h \in nodes : Outermost(succ, root, nodes, h) /\ set = NaturalLoop(succ, root, h)
    BY <1>6 DEF LFInv, LoopsFoundSoFar
  <2>2. base = h
    BY <1>1, <1>2, <1>4, <1>5, <2>1, LoopEntry
  <2> QED BY <2>1, <2>2
<1> QED BY <1>1, <1>2, <1>4, <1>5, <1>6 DEF PredsOf

\* A loop is stored for its base, and the base leaves the blocks to be searched.
LEMMA TakeStep ==
    ASSUME LFInv, LF!TakeLoop, UNCHANGED succ
    PROVE  LFInv'
<1>1. search = "bases" /\ UNCHANGED <<index, lowlink, calls, tarjan>>
  BY DEF LF!TakeLoop
<1>2. PICK set \in comps :
        IF LF!findLoopBase(set) = {}
        THEN search' = "exit" /\ UNCHANGED <<nodes, comps, base2Loop, BB2Base>>
        ELSE \E base \in LF!findLoopBase(set) :
               /\ LF!StoreLoop(set, base)
               /\ nodes' = nodes \ {base}
               /\ comps' = comps \ {set}
               /\ UNCHANGED search
  BY DEF LF!TakeLoop
<1>3. SearchTypes /\ RoundsOK /\ succ \in Graphs
  BY DEF LFInv, SearchTypes
<1>4. CASE LF!findLoopBase(set) = {}
  <2>1. search' = "exit" /\ UNCHANGED <<nodes, comps, base2Loop, BB2Base>>
    BY <1>2, <1>4
  <2>2. SearchTypes'
    BY <1>1, <1>3, <2>1 DEF SearchTypes, LF!LFTypeOK, LF!reserved
  <2>3. RoundsOK'
    BY <1>1, <1>3, <2>1 DEF RoundsOK
  <2>4. Reducible(succ, root) => LoopsFoundSoFar'
    BY <2>1 DEF LFInv, LoopsFoundSoFar, InnermostBase, Around
  <2> QED BY <2>1, <2>2, <2>3, <2>4 DEF LFInv
<1>5. CASE LF!findLoopBase(set) # {}
  <2>1. PICK base \in LF!findLoopBase(set) :
               /\ LF!StoreLoop(set, base)
               /\ nodes' = nodes \ {base}
               /\ comps' = comps \ {set}
               /\ UNCHANGED search
    BY <1>2, <1>5
  <2>2. /\ base \in set /\ set \subseteq nodes
        /\ PredsOf(succ, base) \ set # {}
        /\ Reducible(succ, root) => Outermost(succ, root, nodes, base) /\ set = NaturalLoop(succ, root, base)
    BY <1>1, BaseFacts
  <2>3. /\ base2Loop' = [x \in DOMAIN base2Loop \cup {base} |-> IF x \in {base} THEN set ELSE base2Loop[x]]
        /\ BB2Base' = [x \in DOMAIN BB2Base \cup set |-> IF x \in set THEN base ELSE BB2Base[x]]
    BY <2>1 DEF LF!StoreLoop, LF!Stored
  <2>4. /\ DOMAIN base2Loop' = DOMAIN base2Loop \cup {base}
        /\ base2Loop'[base] = set /\ \A h \in DOMAIN base2Loop : h # base => base2Loop'[h] = base2Loop[h]
        /\ DOMAIN BB2Base' = DOMAIN BB2Base \cup set
        /\ \A x \in set : BB2Base'[x] = base
        /\ \A x \in DOMAIN BB2Base : x \notin set => BB2Base'[x] = BB2Base[x]
    BY <2>3
  <2>5. nodes \subseteq Block /\ base \in Block /\ base \notin DOMAIN base2Loop /\ set \subseteq Block
    BY <1>1, <1>3, <2>2 DEF SearchTypes, LF!LFTypeOK, RoundsOK
  <2>6. SearchTypes'
    BY <1>1, <1>3, <2>1, <2>4, <2>5 DEF SearchTypes, LF!LFTypeOK, LF!reserved
  <2>7. RoundsOK'
    <3>1. nodes' = InUse(succ, root) \ DOMAIN base2Loop'
      BY <1>1, <1>3, <2>1, <2>4 DEF RoundsOK
    <3>2. \A b \in DOMAIN base2Loop' : PredsOf(succ, b) \ base2Loop'[b] # {}
      BY <1>3, <2>2, <2>4 DEF RoundsOK
    <3>3. ASSUME NEW other \in comps' PROVE other \subseteq nodes'
      <4>1. other \in comps /\ other # set
        BY <2>1, <3>3
      <4>2. other \subseteq nodes /\ other \cap set = {}
        BY <1>1, <1>3, <4>1 DEF RoundsOK
      <4> QED BY <2>1, <2>2, <4>2
    <3>4. \A s, other \in comps' : s # other => s \cap other = {}
      BY <1>1, <1>3, <2>1 DEF RoundsOK
    <3> QED BY <1>1, <2>1, <3>1, <3>2, <3>3, <3>4 DEF RoundsOK
  <2>8. ASSUME Reducible(succ, root) PROVE LoopsFoundSoFar'
    <3> DEFINE L(h) == NaturalLoop(succ, root, h)
    <3>1. LoopsFoundSoFar /\ Outermost(succ, root, nodes, base) /\ set = L(base)
      BY <2>2, <2>8 DEF LFInv
    <3>2. Alive(succ, root, None) /\ base \in LoopsOf(succ, root)
      BY <1>3, <3>1, GraphIsAlive DEF Outermost
    <3>3. \A h \in LoopsOf(succ, root) : IsLoop(succ, root, h) /\ h \in L(h)
      BY <3>2, LoopsInUse
    <3>4. DOMAIN base2Loop' \subseteq LoopsOf(succ, root)
      BY <2>4, <3>1, <3>2 DEF LoopsFoundSoFar
    <3>5. \A h \in DOMAIN base2Loop' : base2Loop'[h] = L(h)
      BY <2>4, <2>5, <3>1 DEF LoopsFoundSoFar
    <3>6. ASSUME NEW h \in LoopsOf(succ, root) \cap nodes' PROVE L(h) \subseteq nodes'
      <4>1. h \in nodes /\ h # base /\ L(h) \subseteq nodes
        BY <2>1, <3>1, <3>6 DEF LoopsFoundSoFar
      <4>2. base \notin L(h)
        BY <3>1, <3>6, <4>1 DEF Outermost
      <4> QED BY <2>1, <4>1, <4>2
    <3>7. ASSUME NEW s \in comps' PROVE \E h \in nodes' : Outermost(succ, root, nodes', h) /\ s = L(h)
      <4>1. s \in comps /\ s # set
        BY <2>1, <3>7
      <4>2. s \cap set = {}
        BY <1>1, <1>3, <4>1 DEF RoundsOK
      <4>3. PICK h \in nodes : Outermost(succ, root, nodes, h) /\ s = L(h)
        BY <1>1, <3>1, <4>1 DEF LoopsFoundSoFar
      <4>4. h \in s
        BY <3>3, <4>3 DEF Outermost
      <4>5. h \in nodes'
        BY <2>1, <2>2, <4>2, <4>4
      <4>6. Outermost(succ, root, nodes', h)
        BY <2>1, <4>3, <4>5 DEF Outermost
      <4> QED BY <4>3, <4>5, <4>6
    <3>8. ASSUME NEW b \in Block PROVE InnermostBase(b)'
      <4>1. InnermostBase(b)
        BY <3>1 DEF LoopsFoundSoFar
      <4>2. CASE b \notin set
        <5>1. Around(b)' = Around(b)
          BY <2>4, <2>5, <4>2 DEF Around
        <5>2. \A h \in Around(b) : h \in DOMAIN base2Loop /\ base2Loop'[h] = base2Loop[h]
          BY <2>4, <2>5 DEF Around
        <5>3. CASE Around(b) = {}
          BY <2>4, <4>1, <4>2, <5>1, <5>3 DEF InnermostBase
        <5>4. CASE Around(b) # {}
          <6>1. /\ b \in DOMAIN BB2Base /\ BB2Base[b] \in Around(b)
                /\ \A h \in Around(b) : base2Loop[BB2Base[b]] \subseteq base2Loop[h]
            BY <4>1, <5>4 DEF InnermostBase
          <6>2. b \in DOMAIN BB2Base' /\ BB2Base'[b] = BB2Base[b]
            BY <2>4, <4>2, <6>1
          <6>3. \A h \in Around(b) : base2Loop'[BB2Base[b]] \subseteq base2Loop'[h]
            BY <5>2, <6>1
          <6> QED BY <5>1, <5>4, <6>1, <6>2, <6>3 DEF InnermostBase
        <5> QED BY <5>3, <5>4
      <4>3. CASE b \in set
        <5>1. base \in Around(b)' /\ b \in DOMAIN BB2Base' /\ BB2Base'[b] = base
          BY <2>4, <4>3 DEF Around
        <5>2. ASSUME NEW h \in Around(b)' PROVE base2Loop'[base] \subseteq base2Loop'[h]
          <6>1. h \in DOMAIN base2Loop' /\ b \in L(h) /\ base2Loop'[h] = L(h) /\ base2Loop'[base] = L(base)
            BY <2>4, <3>1, <3>5, <5>2 DEF Around
          <6>2. CASE h = base
            BY <6>2
          <6>3. CASE h # base
            <7>1. h \in DOMAIN base2Loop /\ IsLoop(succ, root, h) /\ IsLoop(succ, root, base)
              BY <2>4, <3>2, <3>3, <3>4, <6>1, <6>3
            <7>2. h \notin nodes
              BY <1>1, <1>3, <7>1 DEF RoundsOK
            <7>3. h \notin L(base)
              BY <2>2, <3>1, <7>2
            <7>4. base \in L(h)
              BY <3>1, <3>2, <4>3, <6>1, <7>1, <7>3, LoopsShare
            <7>5. L(base) \subseteq L(h)
              BY <3>2, <6>3, <7>1, <7>4, LoopsNest
            <7> QED BY <6>1, <7>5
          <6> QED BY <6>2, <6>3
        <5> QED BY <5>1, <5>2 DEF InnermostBase
      <4> QED BY <4>2, <4>3
    <3> QED BY <1>1, <2>1, <3>4, <3>5, <3>6, <3>7, <3>8 DEF LoopsFoundSoFar
  <2>9. search' = "bases"
    BY <1>1, <2>1
  <2> QED BY <2>6, <2>7, <2>8, <2>9 DEF LFInv
<1> QED BY <1>4, <1>5

\* Every step of LoopFind keeps LFInv.
LEMMA LFStep ==
    ASSUME LFInv, LF!LFWork, UNCHANGED succ
    PROVE  LFInv'
<1>1. CASE LF!buildCFG
  BY <1>1, BuildStep
<1>2. CASE LF!stronglyConnComponents
  <2>1. search = "components" /\ UNCHANGED <<succ, search, nodes, base2Loop, BB2Base>>
    BY <1>2 DEF LF!stronglyConnComponents
  <2>2. SearchTypes' /\ Searching'
    BY <1>2, <2>1, RootCallStep DEF LFInv
  <2> QED BY <2>1, <2>2, RoundsStay DEF LFInv
<1>3. CASE LF!Edge
  <2>1. search = "components" /\ UNCHANGED <<succ, search, nodes, base2Loop, BB2Base>>
    BY <1>3 DEF LF!Edge
  <2>2. SearchTypes' /\ Searching'
    BY <1>3, <2>1, EdgeStep DEF LFInv
  <2> QED BY <2>1, <2>2, RoundsStay DEF LFInv
<1>4. CASE LF!Return
  <2>1. search = "components" /\ UNCHANGED <<succ, search, nodes, base2Loop, BB2Base>>
    BY <1>4 DEF LF!Return
  <2>2. SearchTypes' /\ Searching'
    BY <1>4, <2>1, ReturnStep DEF LFInv
  <2> QED BY <2>1, <2>2, RoundsStay DEF LFInv
<1>5. CASE LF!EndSearch
  BY <1>5, EndSearchStep
<1>6. CASE LF!TakeLoop
  BY <1>6, TakeStep
<1>7. CASE LF!NextRound
  BY <1>7, NextRoundStep
<1> QED BY <1>1, <1>2, <1>3, <1>4, <1>5, <1>6, <1>7 DEF LF!LFWork

-----------------------------------------------------------------------------
(* What is found                                                           *)

\* In the end no header is left.
LEMMA NoHeaderIsLeft ==
    ASSUME LFInv, search = "found", Reducible(succ, root)
    PROVE  DOMAIN base2Loop = LoopsOf(succ, root)
<1>1. RoundsOK /\ LoopsFoundSoFar /\ Alive(succ, root, None) /\ nodes \subseteq Block
  BY GraphIsAlive DEF LFInv, SearchTypes, LF!LFTypeOK
<1>2. IsFiniteSet(nodes)
  BY <1>1, RootAssumption, FS_Subset
<1>3. ASSUME NEW h \in LoopsOf(succ, root), h \notin DOMAIN base2Loop PROVE FALSE
  <2> DEFINE L == NaturalLoop(succ, root, h)
  <2>1. IsLoop(succ, root, h) /\ h \in L /\ L \subseteq InUse(succ, root) /\ L # {h}
    BY <1>1, LoopsInUse DEF LoopsOf
  <2>2. h \in nodes
    BY <1>1, <1>3, <2>1 DEF RoundsOK
  <2>3. L \subseteq nodes
    BY <1>1, <2>2 DEF LoopsFoundSoFar
  <2>4. PICK y \in L : y # h
    BY <2>1
  <2>5. y \in WithinFrom(succ, nodes, h) /\ h \in WithinFrom(succ, nodes, y)
    BY <1>1, <1>2, <2>1, <2>3, LoopIsConnected
  <2>6. y \in Component(succ, nodes, h)
    BY <2>3, <2>5 DEF Component
  <2> QED BY <1>1, <2>2, <2>4, <2>6 DEF RoundsOK
<1> QED BY <1>1, <1>3 DEF LoopsFoundSoFar

\* LFInv gives the first part of LoopsFound.
LEMMA InvGivesNatural ==
    ASSUME LFInv
    PROVE  LoopsAreNatural
<1> SUFFICES ASSUME search = "found" PROVE LoopsAreNatural
  BY DEF LoopsAreNatural
<1>1. RoundsOK
  BY DEF LFInv
<1>2. ASSUME NEW b \in nodes, NEW c \in nodes \ {b},
             c \in WithinFrom(succ, nodes, b), b \in WithinFrom(succ, nodes, c)
      PROVE  FALSE
  <2>1. c \in Component(succ, nodes, b)
    BY <1>2 DEF Component
  <2> QED BY <1>1, <1>2, <2>1 DEF RoundsOK
<1>3. ASSUME Reducible(succ, root)
      PROVE  /\ LF!reserved = LoopsOf(succ, root)
             /\ \A h \in LF!reserved : base2Loop[h] = NaturalLoop(succ, root, h)
             /\ \A b \in Block :
                  LET around == {h \in LF!reserved : b \in base2Loop[h]} IN
                  IF around = {} THEN b \notin DOMAIN BB2Base
                  ELSE /\ BB2Base[b] \in around
                       /\ \A h \in around : base2Loop[BB2Base[b]] \subseteq base2Loop[h]
  <2>1. LoopsFoundSoFar /\ LF!reserved = DOMAIN base2Loop /\ DOMAIN base2Loop = LoopsOf(succ, root)
    BY <1>3, Names, NoHeaderIsLeft DEF LFInv
  <2>2. \A b \in Block : InnermostBase(b)
    BY <2>1 DEF LoopsFoundSoFar
  <2>3. \A b : Around(b) = {h \in LF!reserved : b \in base2Loop[h]}
    BY <2>1 DEF Around
  <2> QED BY <2>1, <2>2, <2>3 DEF LoopsFoundSoFar, InnermostBase
<1> QED BY <1>2, <1>3 DEF LoopsAreNatural

\* LFInv gives the second: the block a loop is entered from has a loop of its own
\* just when there is a loop around, and its innermost is the next.
LEMMA InvGivesParent ==
    ASSUME LFInv
    PROVE  ParentIsSmallest
<1> SUFFICES ASSUME search = "found", NEW base \in DOMAIN base2Loop
             PROVE  /\ LF!EntryPreds(base) # {}
                    /\ Reducible(succ, root) =>
                         \A pred \in LF!EntryPreds(base) :
                           LET parent == LF!getParentLoop(base, pred) IN
                           parent # {} =>
                             /\ base2Loop[base] \subseteq parent /\ base2Loop[base] # parent
                             /\ \A h \in DOMAIN base2Loop :
                                  base \in base2Loop[h] => h = base \/ parent \subseteq base2Loop[h]
  BY Names DEF ParentIsSmallest
<1>1. RoundsOK
  BY DEF LFInv
<1>2. LF!EntryPreds(base) = PredsOf(succ, base) \ base2Loop[base]
  BY DEF LF!EntryPreds, LF!PredsOf, PredsOf, LF!SuccsOf, SuccsOf
<1>3. LF!EntryPreds(base) # {}
  BY <1>1, <1>2 DEF RoundsOK
<1>4. ASSUME Reducible(succ, root), NEW pred \in LF!EntryPreds(base),
             NEW parent, parent = LF!getParentLoop(base, pred), parent # {}
      PROVE  /\ base2Loop[base] \subseteq parent /\ base2Loop[base] # parent
             /\ \A h \in DOMAIN base2Loop :
                  base \in base2Loop[h] => h = base \/ parent \subseteq base2Loop[h]
  <2> DEFINE L(h) == NaturalLoop(succ, root, h)
  <2>1. LoopsFoundSoFar /\ Alive(succ, root, None) /\ DOMAIN succ = Block
    BY <1>4, GraphIsAlive DEF LFInv, SearchTypes
  <2>2. pred \in Block /\ base \in SuccsOf(succ, pred) /\ pred \notin L(base)
    BY <1>2, <2>1 DEF PredsOf, LoopsFoundSoFar
  <2> DEFINE q == BB2Base[pred]
  <2>3. pred \in DOMAIN BB2Base /\ parent = base2Loop[q] /\ base \in parent
    BY <1>4 DEF LF!getParentLoop, LF!getBaseLoop
  <2>4. InnermostBase(pred)
    BY <2>1, <2>2 DEF LoopsFoundSoFar
  <2>5. q \in Around(pred) /\ \A h \in Around(pred) : base2Loop[q] \subseteq base2Loop[h]
    BY <2>3, <2>4 DEF InnermostBase
  <2> HIDE DEF q
  <2>6. q \in DOMAIN base2Loop /\ pred \in L(q) /\ parent = L(q) /\ base \in L(q)
    BY <2>1, <2>3, <2>5 DEF Around, LoopsFoundSoFar
  <2>7. \A h \in DOMAIN base2Loop : /\ base2Loop[h] = L(h) /\ h \in LoopsOf(succ, root)
                                    /\ IsLoop(succ, root, h) /\ h \in L(h) /\ h \in DOMAIN succ
    BY <2>1, LoopsInUse DEF LoopsFoundSoFar, LoopsOf
  <2>8. q # base
    BY <2>2, <2>6
  <2>9. L(base) \subseteq L(q) /\ q \notin L(base)
    BY <2>1, <2>6, <2>7, <2>8, LoopsNest
  <2>10. ASSUME NEW h \in DOMAIN base2Loop, base \in base2Loop[h], h # base
         PROVE  parent \subseteq base2Loop[h]
    <3>1. pred \in L(h)
      BY <2>1, <2>2, <2>7, <2>10, LoopEntry
    <3> QED BY <2>3, <2>5, <2>7, <3>1 DEF Around
  <2> QED BY <2>6, <2>7, <2>9, <2>10
<1> QED BY <1>3, <1>4

\* For every graph whose blocks in use can be reached and whose entry nothing jumps
\* to, LoopFind leaves no cycle of two blocks in what it has not taken for bases;
\* and where every cycle is entered through one block, it finds exactly the natural
\* loops of two blocks and more, each under its header, for each block the base of
\* the innermost loop around it, and getParentLoop gives the next loop around.
THEOREM FoundLoopsAreNatural == SpecBoth => []LoopsFound
<1>1. InitBoth => LFInv
  <2>1. InitBoth => LF!LFInit /\ succ \in Graphs
    BY DEF InitBoth, Init
  <2> QED BY <2>1, LFInitially
<1>2. LFInv /\ [NextBoth]_<<vars, lfvars>> => LFInv'
  <2> SUFFICES ASSUME LFInv, [NextBoth]_<<vars, lfvars>> PROVE LFInv'
    OBVIOUS
  <2>1. CASE FindLoops
    <3>1. LF!LFWork /\ UNCHANGED succ
      BY <2>1 DEF FindLoops, vars
    <3> QED BY <3>1, LFStep
  <2>2. CASE ~FindLoops
    <3>1. UNCHANGED <<lfvars, succ>>
      <4>1. Work => UNCHANGED succ
        BY DEF Work, Descend, Finish, StartIDom, NextBlock, SkipRoot, Climb, NextPred, SetIDom,
               EndSweep, CreateTrees
      <4>2. FindDominators => UNCHANGED <<lfvars, succ>>
        BY <4>1 DEF FindDominators
      <4>3. UNCHANGED <<vars, lfvars>> => UNCHANGED <<lfvars, succ>>
        BY DEF vars
      <4> QED BY <2>2, <4>2, <4>3 DEF NextBoth, BothStopped
    <3>2. UNCHANGED <<succ, search, nodes, index, lowlink, calls, tarjan, comps, base2Loop, BB2Base>>
      BY <3>1 DEF lfvars
    <3> QED BY <3>2 DEF LFInv, SearchTypes, LF!LFTypeOK, LF!reserved, Searching, RoundsOK,
                        LoopsFoundSoFar, InnermostBase, Around
  <2> QED BY <2>1, <2>2
<1>3. LFInv => LoopsFound
  BY InvGivesNatural, InvGivesParent DEF LoopsFound
<1> QED BY <1>1, <1>2, <1>3, PTL DEF SpecBoth
=============================================================================
