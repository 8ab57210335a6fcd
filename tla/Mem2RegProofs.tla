---------------------------- MODULE Mem2RegProofs ----------------------------
(***************************************************************************)
(* Mem2Reg keeps what a function computes, whatever the function: the      *)
(* theorems are at the end.                                                *)
(*                                                                         *)
(* A definition of a variable is a phi or a store.  At a point of the      *)
(* function the last definition on the way down the dominator tree is the  *)
(* one that is seen, Current.  The walk of ReName keeps, on the stack of a *)
(* variable, the values of the definitions of the blocks that are open, in *)
(* this order; so a load is replaced by what it sees.  At run time a       *)
(* variable contains what the definition seen is worth: an edge either     *)
(* leads to a phi, or what is seen stays, for otherwise the block would be *)
(* in the frontier of the definition and have a phi.                       *)
(***************************************************************************)
EXTENDS Mem2Reg, FlowGraphProofs, SequenceTheorems

Dom(a, b) == DominatesIn(f.succ, 1, a, b)
Succs(b) == SuccsOf(f.succ, b)
Index(b) == DOMAIN f.code[b]
End(b) == Len(f.code[b]) + 1
Before(c, i, b, n) == Precedes(f, c, i, b, n)
IsLoad(b, i, x, l) == /\ b \in Blocks /\ i \in Index(b) /\ ~f.code[b][i].isStore
                      /\ f.code[b][i].var = x /\ f.code[b][i].val = l

\* What the assumption says of the function at hand.
LEMMA FunctionFacts ==
    ASSUME f \in Functions
    PROVE  /\ f.succ \in Seq(Seq(Nat)) /\ Connected(f.succ, 1) /\ 1 \in Blocks
           /\ Blocks = 1 .. Len(f.succ) /\ Blocks \subseteq Nat
           /\ IsFiniteSet(Blocks)
           /\ DOMAIN f.code = Blocks
           /\ \A b \in Blocks : Succs(b) \subseteq Blocks
           /\ \A b \in Blocks : f.code[b] \in Seq(Instruction)
           /\ \A b \in Blocks : /\ Len(f.code[b]) \in Nat /\ Index(b) = 1 .. Len(f.code[b])
                                /\ \A i \in Index(b) : f.code[b][i] \in Instruction
<1>1. /\ f.succ \in Seq(Seq(Nat)) /\ f.code \in Seq(Seq(Instruction))
      /\ Len(f.succ) > 0 /\ Len(f.code) = Len(f.succ)
      /\ \A b \in DOMAIN f.succ : /\ SuccsOf(f.succ, b) \subseteq DOMAIN f.succ
                                  /\ b \in Avoiding(f.succ, 1, 0)
  BY FunctionAssumption
<1>2. Blocks = 1 .. Len(f.succ) /\ DOMAIN f.code = Blocks /\ Len(f.succ) \in Nat
  BY <1>1 DEF Blocks
<1>3. IsFiniteSet(Blocks)
  BY <1>2, FS_Interval
<1>4. IsGraph(f.succ)
  BY <1>1, <1>3 DEF IsGraph, Blocks
<1>5. 1 \in Blocks /\ 0 \notin Blocks
  BY <1>1, <1>2
<1>6. Connected(f.succ, 1)
  BY <1>1, <1>4, <1>5, ReachedIsConnected DEF Blocks
<1>7. \A b \in Blocks : f.code[b] \in Seq(Instruction)
  BY <1>1, <1>2
<1>8. \A b \in Blocks : /\ Len(f.code[b]) \in Nat /\ Index(b) = 1 .. Len(f.code[b])
                        /\ \A i \in Index(b) : f.code[b][i] \in Instruction
  BY <1>7 DEF Index
<1>9. Blocks \subseteq Nat
  BY <1>2
<1> QED BY <1>1, <1>2, <1>3, <1>5, <1>6, <1>7, <1>8, <1>9 DEF Blocks, Succs

\* A load names one value, and a store's operand has been loaded before.
LEMMA LoadFacts ==
    ASSUME f \in Functions
    PROVE  /\ \A b, i, x, c, j, y, l : IsLoad(b, i, x, l) /\ IsLoad(c, j, y, l) => b = c /\ i = j
           /\ \A b, i, x, l : IsLoad(b, i, x, l) => l \in LoadId /\ x \in Var
           /\ \A b \in Blocks : \A i \in Index(b) :
                f.code[b][i].isStore =>
                  \/ f.code[b][i].val \in Const \ LoadId
                  \/ /\ f.code[b][i].val \in LoadId
                     /\ \E c, j, y : IsLoad(c, j, y, f.code[b][i].val) /\ Before(c, j, b, i)
<1>1. DOMAIN f.code = Blocks
  BY FunctionFacts
<1>2. \A b \in Blocks : \A i \in Index(b) : f.code[b][i] \in Instruction
  BY FunctionFacts
<1> DEFINE Loads(b) == {i \in DOMAIN f.code[b] : ~f.code[b][i].isStore}
<1>3. /\ \A b, c \in DOMAIN f.code : \A i \in Loads(b) : \A j \in Loads(c) :
           f.code[b][i].val = f.code[c][j].val => b = c /\ i = j
      /\ \A b \in DOMAIN f.code : \A i \in Loads(b) : f.code[b][i].val \in LoadId
      /\ \A b \in DOMAIN f.code : \A i \in DOMAIN f.code[b] \ Loads(b) :
           f.code[b][i].val \in LoadId =>
             \E c \in DOMAIN f.code : \E j \in Loads(c) :
               f.code[c][j].val = f.code[b][i].val /\ Precedes(f, c, j, b, i)
  BY FunctionAssumption
<1>4. \A b, i, x, c, j, y, l : IsLoad(b, i, x, l) /\ IsLoad(c, j, y, l) => b = c /\ i = j
  BY <1>1, <1>3 DEF IsLoad, Index
<1>5. \A b, i, x, l : IsLoad(b, i, x, l) => l \in LoadId /\ x \in Var
  BY <1>1, <1>2, <1>3 DEF IsLoad, Index, Instruction
<1>6. ASSUME NEW b \in Blocks, NEW i \in Index(b), f.code[b][i].isStore
      PROVE  \/ f.code[b][i].val \in Const \ LoadId
             \/ /\ f.code[b][i].val \in LoadId
                /\ \E c, j, y : IsLoad(c, j, y, f.code[b][i].val) /\ Before(c, j, b, i)
  <2>1. CASE f.code[b][i].val \notin LoadId
    BY <1>2, <2>1 DEF Instruction
  <2>2. CASE f.code[b][i].val \in LoadId
    <3>1. i \in DOMAIN f.code[b] \ Loads(b)
      BY <1>6 DEF Index
    <3>2. PICK c \in DOMAIN f.code : \E j \in Loads(c) :
                 f.code[c][j].val = f.code[b][i].val /\ Precedes(f, c, j, b, i)
      BY <1>1, <1>3, <2>2, <3>1
    <3>3. PICK j \in Loads(c) : f.code[c][j].val = f.code[b][i].val /\ Precedes(f, c, j, b, i)
      BY <3>2
    <3>4. IsLoad(c, j, f.code[c][j].var, f.code[b][i].val) /\ Before(c, j, b, i)
      BY <1>1, <3>3 DEF IsLoad, Index, Before
    <3> QED BY <2>2, <3>4
  <2> QED BY <2>1, <2>2
<1> QED BY <1>4, <1>5, <1>6

\* A phi is a value of its own.
LEMMA PhiFacts ==
    ASSUME f \in Functions
    PROVE  \A b \in Blocks : \A x \in Var : Phi(b, x) \notin Const \cup LoadId \cup {Uninit}
BY FunctionAssumption DEF Blocks

\* Dominance in the function at hand.
LEMMA DomFacts ==
    ASSUME f \in Functions
    PROVE  /\ \A a : Dom(a, a)
           /\ \A a, b, c : Dom(a, b) /\ Dom(b, c) => Dom(a, c)
           /\ \A a, b : a \in Blocks /\ Dom(a, b) /\ Dom(b, a) => a = b
           /\ \A b : Dom(1, b)
           /\ \A a, b, c : a \in Blocks /\ b \in Blocks /\ c \in Blocks /\ Dom(a, c) /\ Dom(b, c)
                             => Dom(a, b) \/ Dom(b, a)
           /\ \A a, p, b : p \in Blocks /\ b \in Succs(p) /\ a # b /\ Dom(a, b) => Dom(a, p)
<1>1. Connected(f.succ, 1) /\ IsGraph(f.succ) /\ 1 \in DOMAIN f.succ
  BY FunctionFacts DEF Connected, Blocks
<1>2. \A a : Dom(a, a)
  BY <1>1, DominanceIsReflexive DEF Dom
<1>3. \A a, b, c : Dom(a, b) /\ Dom(b, c) => Dom(a, c)
  BY <1>1, DominanceIsTransitive DEF Dom
<1>4. \A a, b : a \in Blocks /\ Dom(a, b) /\ Dom(b, a) => a = b
  BY <1>1, DominanceIsAntisymmetric DEF Dom, Blocks
<1>5. \A b : Dom(1, b)
  BY <1>1, RootDominates DEF Dom
<1>6. \A a, b, c : a \in Blocks /\ b \in Blocks /\ c \in Blocks /\ Dom(a, c) /\ Dom(b, c)
                     => Dom(a, b) \/ Dom(b, a)
  BY <1>1, DominatorsAreInLine DEF Dom, Blocks
<1>7. \A a, p, b : p \in Blocks /\ b \in Succs(p) /\ a # b /\ Dom(a, b) => Dom(a, p)
  BY <1>1, DominatesPredecessor DEF Dom, Blocks, Succs
<1> QED BY <1>2, <1>3, <1>4, <1>5, <1>6, <1>7

\* Its dominator tree.
LEMMA TreeFacts ==
    ASSUME f \in Functions
    PROVE  /\ \A b \in Blocks \ {1} : /\ IDom(b) \in Blocks /\ IDom(b) # b /\ Dom(IDom(b), b)
                                      /\ \A c \in Blocks \ {b} : Dom(c, b) => Dom(c, IDom(b))
           /\ \A a, d \in Blocks : a # d /\ Dom(a, d) => \E c \in DomTreeSucc(a) : Dom(c, d)
<1>1. Connected(f.succ, 1)
  BY FunctionFacts
<1>2. \A b \in Blocks \ {1} : Closest(f.succ, 1, IDom(b), b)
  BY <1>1, ClosestExists DEF IDom, Blocks
<1>3. \A b \in Blocks \ {1} : /\ IDom(b) \in Blocks /\ IDom(b) # b /\ Dom(IDom(b), b)
                              /\ \A c \in Blocks \ {b} : Dom(c, b) => Dom(c, IDom(b))
  BY <1>2 DEF Closest, Dom, Blocks
<1>4. ASSUME NEW a \in Blocks, NEW d \in Blocks, a # d, Dom(a, d)
      PROVE  \E c \in DomTreeSucc(a) : Dom(c, d)
  <2>1. PICK c \in DOMAIN f.succ \ {1} : ClosestDominator(f.succ, 1, c) = a /\ DominatesIn(f.succ, 1, c, d)
    BY <1>1, <1>4, ChildOnTheWay DEF Dom, Blocks
  <2> QED BY <2>1 DEF DomTreeSucc, IDom, Dom, Blocks
<1> QED BY <1>3, <1>4

-----------------------------------------------------------------------------
(* Definitions of a variable, and which of them a point of the function sees *)

\* Block c defines x at i: by a phi at 0, or by a store.
Def(c, i, x) == /\ c \in Blocks
                /\ \/ i = 0 /\ x \in phis[c]
                   \/ i \in Index(c) /\ f.code[c][i].isStore /\ f.code[c][i].var = x

DefsBefore(b, n, x) ==
    {d \in Blocks \X Nat : Def(d[1], d[2], x) /\ Before(d[1], d[2], b, n)}

\* The last definition on the way from the root of the dominator tree.
Current(d, b, n, x) ==
    /\ d \in DefsBefore(b, n, x)
    /\ \A e \in DefsBefore(b, n, x) : e = d \/ Before(e[1], e[2], d[1], d[2])

\* Where on the stack of x the definition puts its value, and the value.
Rank(d, x) == Cardinality(DefsBefore(d[1], d[2] + 1, x))
Symbol(rep, d, x) == IF d[2] = 0 THEN Phi(d[1], x) ELSE Operand(rep, f.code[d[1]][d[2]].val)

\* What is before on every path is so in turn.
LEMMA BeforeIsTransitive ==
    ASSUME f \in Functions, NEW a \in Blocks, NEW b \in Blocks, NEW c \in Blocks,
           NEW i \in Nat, NEW j \in Nat, NEW n \in Nat,
           Before(a, i, b, j), Before(b, j, c, n)
    PROVE  Before(a, i, c, n)
<1>2. (IF a = b THEN i < j ELSE Dom(a, b)) /\ (IF b = c THEN j < n ELSE Dom(b, c))
  BY DEF Before, Precedes, Dom
<1>3. IF a = c THEN i < n ELSE Dom(a, c)
  <2>1. CASE a = b /\ b = c
    BY <1>2, <2>1
  <2>2. CASE a # b /\ b # c
    <3>1. Dom(a, b) /\ Dom(b, c) /\ Dom(a, c)
      BY <1>2, <2>2, DomFacts
    <3>2. a # c
      BY <2>2, <3>1, DomFacts
    <3> QED BY <3>1, <3>2
  <2>3. CASE a = b /\ b # c
    BY <1>2, <2>3
  <2>4. CASE a # b /\ b = c
    BY <1>2, <2>4
  <2> QED BY <2>1, <2>2, <2>3, <2>4
<1> QED BY <1>3 DEF Before, Precedes, Dom

\* A variable has finitely many definitions.
LEMMA DefsAreFinite ==
    ASSUME f \in Functions, NEW x, NEW D, D \subseteq {d \in Blocks \X Nat : Def(d[1], d[2], x)}
    PROVE  IsFiniteSet(D) /\ Cardinality(D) \in Nat
<1> DEFINE Points == [b \in Blocks |-> {b} \X (0 .. Len(f.code[b]))]
           T == {Points[b] : b \in Blocks}
<1>1. IsFiniteSet(Blocks)
  BY FunctionFacts
<1>2. Points \in Surjection(Blocks, T)
  BY DEF Surjection
<1>3. IsFiniteSet(T)
  BY <1>1, <1>2, FS_Surjection
<1>4. ASSUME NEW t \in T PROVE IsFiniteSet(t)
  <2>1. PICK b \in Blocks : t = {b} \X (0 .. Len(f.code[b]))
    BY <1>4
  <2>2. Len(f.code[b]) \in Nat
    BY FunctionFacts
  <2>3. IsFiniteSet({b}) /\ IsFiniteSet(0 .. Len(f.code[b]))
    <3>1. \A n \in Nat : IsFiniteSet(0 .. n)
      BY FS_Interval
    <3>2. IsFiniteSet({b})
      BY FS_Singleton
    <3> QED BY <2>2, <3>1, <3>2
  <2> QED BY <2>1, <2>3, FS_Product
<1>5. IsFiniteSet(UNION T)
  BY <1>3, <1>4, FS_UNION
<1>6. D \subseteq UNION T
  <2> SUFFICES ASSUME NEW d \in D PROVE d \in UNION T
    OBVIOUS
  <2>1. d \in Blocks \X Nat /\ Def(d[1], d[2], x)
    OBVIOUS
  <2>2. d[1] \in Blocks /\ d[2] \in 0 .. Len(f.code[d[1]])
    BY <2>1, FunctionFacts DEF Def
  <2>3. d \in Points[d[1]]
    BY <2>1, <2>2
  <2> QED BY <2>2, <2>3
<1> QED BY <1>5, <1>6, FS_Subset, FS_CardinalityType

\* And so before any point.
LEMMA DefsBeforeFinite ==
    ASSUME f \in Functions, NEW b, NEW n, NEW x
    PROVE  IsFiniteSet(DefsBefore(b, n, x)) /\ Cardinality(DefsBefore(b, n, x)) \in Nat
BY DefsAreFinite DEF DefsBefore

\* The definition a point sees is the last of those before the point.
LEMMA RankOfCurrent ==
    ASSUME f \in Functions, NEW b \in Blocks, NEW n \in Nat, NEW x, NEW d, Current(d, b, n, x)
    PROVE  DefsBefore(d[1], d[2] + 1, x) = DefsBefore(b, n, x)
<1>1. d \in Blocks \X Nat /\ Before(d[1], d[2], b, n)
  BY DEF Current, DefsBefore
<1>2. ASSUME NEW e \in DefsBefore(b, n, x) PROVE e \in DefsBefore(d[1], d[2] + 1, x)
  <2>1. e \in Blocks \X Nat /\ Def(e[1], e[2], x)
    BY <1>2 DEF DefsBefore
  <2>2. e = d \/ Before(e[1], e[2], d[1], d[2])
    BY <1>2 DEF Current
  <2>3. Before(e[1], e[2], d[1], d[2] + 1)
    BY <1>1, <2>1, <2>2 DEF Before, Precedes
  <2> QED BY <2>1, <2>3 DEF DefsBefore
<1>3. ASSUME NEW e \in DefsBefore(d[1], d[2] + 1, x) PROVE e \in DefsBefore(b, n, x)
  <2>1. e \in Blocks \X Nat /\ Def(e[1], e[2], x) /\ Before(e[1], e[2], d[1], d[2] + 1)
    BY <1>3 DEF DefsBefore
  <2>2. (e[1] = d[1] /\ e[2] = d[2]) \/ Before(e[1], e[2], d[1], d[2])
    BY <1>1, <2>1 DEF Before, Precedes
  <2>3. Before(e[1], e[2], b, n)
    BY <1>1, <2>1, <2>2, BeforeIsTransitive
  <2> QED BY <2>1, <2>3 DEF DefsBefore
<1> QED BY <1>2, <1>3

-----------------------------------------------------------------------------
(* The instructions of a block, one after the other *)

Symbols == Const \cup {Uninit} \cup Phis
States == [newest : [Var -> Seq(Symbols)], rep : [LoadId -> Symbols]]

\* Renaming an instruction takes a state to a state.
LEMMA RenamedType ==
    ASSUME NEW st \in States, NEW inst \in Instruction
    PROVE  Renamed(st, inst) \in States
<1>1. st.newest \in [Var -> Seq(Symbols)] /\ st.rep \in [LoadId -> Symbols]
  BY DEF States
<1>2. inst.var \in Var /\ inst.val \in Const \cup LoadId
  BY DEF Instruction
<1>3. st = [newest |-> st.newest, rep |-> st.rep]
  BY DEF States
<1>4. CASE inst.isStore
  <2>1. Operand(st.rep, inst.val) \in Symbols
    BY <1>1, <1>2 DEF Operand, Symbols
  <2>2. Append(st.newest[inst.var], Operand(st.rep, inst.val)) \in Seq(Symbols)
    BY <1>1, <1>2, <2>1
  <2>3. Pushed(st.newest, inst.var, Operand(st.rep, inst.val)) \in [Var -> Seq(Symbols)]
    BY <1>1, <1>2, <2>2 DEF Pushed
  <2> QED BY <1>1, <1>3, <1>4, <2>3 DEF Renamed, States
<1>5. CASE ~inst.isStore /\ st.newest[inst.var] = <<>>
  BY <1>5 DEF Renamed
<1>6. CASE ~inst.isStore /\ st.newest[inst.var] # <<>>
  <2>1. Last(st.newest[inst.var]) \in Symbols
    BY <1>1, <1>2, <1>6 DEF Last
  <2>2. [st.rep EXCEPT ![inst.val] = Last(st.newest[inst.var])] \in [LoadId -> Symbols]
    BY <1>1, <2>1
  <2>3. Renamed(st, inst) = [newest |-> st.newest, rep |-> [st.rep EXCEPT ![inst.val] = Last(st.newest[inst.var])]]
    BY <1>3, <1>6 DEF Renamed
  <2> QED BY <1>1, <2>2, <2>3 DEF States
<1> QED BY <1>4, <1>5, <1>6

FoldEq(base, code, h) ==
    h = [s \in SUBSET DOMAIN code |->
           IF s = {} THEN base ELSE Renamed(h[s \ {Max(s)}], code[Max(s)])]

\* The fold over a block's instructions is a function that satisfies the fold's equation.
LEMMA FoldIsChosen ==
    ASSUME NEW base, NEW code
    PROVE  FoldLeft(Renamed, base, code) = (CHOOSE h : FoldEq(base, code, h))[DOMAIN code]
BY DEF FoldLeft, MapThenFoldSet, FoldEq

\* The maximum is a member.
LEMMA MaxIsIn ==
    ASSUME NEW n \in Nat, NEW s, s \subseteq 1 .. n, s # {}
    PROVE  Max(s) \in s /\ \A x \in s : x <= Max(s)
<1>1. s \subseteq Nat /\ \A x \in s : x <= n
  OBVIOUS
<1>2. \E x \in s : \A y \in s : y <= x
  BY <1>1, GreatestNumber
<1>3. \E x \in s : \A y \in s : x >= y
  BY <1>1, <1>2
<1> QED BY <1>1, <1>3 DEF Max

\* The fold is the states the instructions lead through, one after the other.
LEMMA RenamedInTurn ==
    ASSUME NEW base \in States, NEW code \in Seq(Instruction)
    PROVE  \E st : /\ st[0] = base
                   /\ \A n \in 0 .. Len(code) : st[n] \in States
                   /\ \A n \in 1 .. Len(code) : st[n] = Renamed(st[n - 1], code[n])
                   /\ st[Len(code)] = FoldLeft(Renamed, base, code)
<1> DEFINE N == Len(code)
           D == DOMAIN code
           next == [s \in SUBSET D |-> Max(s)]
           G == [p \in (SUBSET D) \X States |->
                   IF p[1] = {} THEN base ELSE Renamed(p[2], code[Max(p[1])])]
<1>1. N \in Nat /\ D = 1 .. N /\ IsFiniteSet(D) /\ \A n \in D : code[n] \in Instruction
  <2>1. N \in Nat /\ D = 1 .. N /\ \A n \in D : code[n] \in Instruction
    OBVIOUS
  <2> QED BY <2>1, FS_Interval
<1>2. \A s \in SUBSET D : s # {} => Max(s) \in s
  BY <1>1, MaxIsIn
<1>3. \A s \in SUBSET D : s # {} => next[s] \in s
  BY <1>2
<1>4. G \in [(SUBSET D) \X States -> States]
  <2>1. ASSUME NEW p \in (SUBSET D) \X States
        PROVE  (IF p[1] = {} THEN base ELSE Renamed(p[2], code[Max(p[1])])) \in States
    <3>1. CASE p[1] = {}
      BY <3>1
    <3>2. CASE p[1] # {}
      <4>1. p[2] \in States /\ code[Max(p[1])] \in Instruction
        BY <1>1, <1>2, <3>2
      <4> QED BY <3>2, <4>1, RenamedType
    <3> QED BY <3>1, <3>2
  <2> QED BY <2>1
<1>5. \E h : FoldEq(base, code, h)
  <2>1. PICK h \in [SUBSET D -> States] :
          \A s \in SUBSET D : h[s] = IF s = {} THEN base ELSE G[<<s, h[s \ {next[s]}]>>]
    <3>1. IsFiniteSet(D) /\ IsChoice(D, next)
      BY <1>1, <1>3 DEF IsChoice
    <3>2. SetRecursive(D, States, base, next, G)
      <4> HIDE DEF D, next, G
      <4> QED BY <1>4, <3>1, SetRecursion
    <3> HIDE DEF D, next, G
    <3> QED BY <3>2 DEF SetRecursive
  <2>2. ASSUME NEW s \in SUBSET D
        PROVE  h[s] = IF s = {} THEN base ELSE Renamed(h[s \ {Max(s)}], code[Max(s)])
    <3>1. s \ {Max(s)} \in SUBSET D /\ h[s \ {Max(s)}] \in States
      OBVIOUS
    <3> QED BY <2>1, <3>1
  <2>3. FoldEq(base, code, h)
    BY <2>1, <2>2 DEF FoldEq
  <2> QED BY <2>3
<1>6. PICK h : FoldEq(base, code, h) /\ FoldLeft(Renamed, base, code) = h[DOMAIN code]
  BY <1>5, FoldIsChosen
<1> DEFINE st == [n \in 0 .. N |-> h[1 .. n]]
<1>7. \A s \in SUBSET D : h[s] = IF s = {} THEN base ELSE Renamed(h[s \ {Max(s)}], code[Max(s)])
  BY <1>6 DEF FoldEq
<1>8. st[0] = base /\ st[N] = FoldLeft(Renamed, base, code)
  <2>1. 1 .. 0 = {} /\ {} \in SUBSET D /\ 0 \in 0 .. N /\ N \in 0 .. N
    BY <1>1
  <2>2. st[0] = h[{}] /\ st[N] = h[1 .. N]
    BY <2>1
  <2>3. h[{}] = base
    BY <1>7, <2>1
  <2> QED BY <1>1, <1>6, <2>2, <2>3
<1>9. ASSUME NEW n \in 1 .. N PROVE st[n] = Renamed(st[n - 1], code[n])
  <2>1. n \in 1 .. n /\ n \in Nat /\ n - 1 \in 0 .. N /\ n \in 0 .. N /\ n <= N /\ n - 1 \in Nat
    BY <1>1
  <2>5. 1 .. n \in SUBSET D /\ 1 .. n # {}
    BY <1>1, <2>1
  <2>2. Max(1 .. n) = n
    <3>1. Max(1 .. n) \in 1 .. n /\ n <= Max(1 .. n)
      BY <2>1, <2>5, MaxIsIn
    <3> QED BY <2>1, <3>1
  <2>3. (1 .. n) \ {n} = 1 .. (n - 1)
    BY <2>1
  <2>4. h[1 .. n] = Renamed(h[(1 .. n) \ {Max(1 .. n)}], code[Max(1 .. n)])
    BY <1>7, <2>5
  <2>6. st[n] = h[1 .. n] /\ st[n - 1] = h[1 .. (n - 1)]
    BY <2>1
  <2> QED BY <2>2, <2>3, <2>4, <2>6
<1> HIDE DEF st
<1> DEFINE T == {n \in Nat : n \in 0 .. N => st[n] \in States}
<1>10. 0 \in T
  BY <1>8
<1>11. ASSUME NEW n \in Nat, n \in T PROVE n + 1 \in T
  <2> SUFFICES ASSUME n + 1 \in 0 .. N PROVE st[n + 1] \in States
    OBVIOUS
  <2>1. n + 1 \in 1 .. N /\ (n + 1) - 1 = n /\ n \in 0 .. N
    BY <1>1
  <2>2. st[n + 1] = Renamed(st[n], code[n + 1])
    BY <1>9, <2>1
  <2> QED BY <1>1, <1>11, <2>1, <2>2, RenamedType
<1>12. \A n \in 0 .. N : st[n] \in States
  <2> HIDE DEF T
  <2>1. Nat \subseteq T
    BY <1>10, <1>11, NatSetInduction
  <2> QED BY <1>1, <2>1 DEF T
<1> QED BY <1>8, <1>9, <1>12

-----------------------------------------------------------------------------
(* How many values blocks push *)

DefsIn(set, x) == {d \in Blocks \X Nat : Def(d[1], d[2], x) /\ d[1] \in set}

\* A set of blocks has finitely many definitions.
LEMMA DefsInFinite ==
    ASSUME f \in Functions, NEW set, NEW x
    PROVE  IsFiniteSet(DefsIn(set, x)) /\ Cardinality(DefsIn(set, x)) \in Nat
BY DefsAreFinite DEF DefsIn

\* A block pushes once for each of its definitions.
LEMMA PushesAreDefs ==
    ASSUME f \in Functions, NEW b \in Blocks, NEW x
    PROVE  Pushes(b, x) = Cardinality(DefsIn({b}, x))
<1> DEFINE S == {i \in DOMAIN f.code[b] : f.code[b][i].isStore /\ f.code[b][i].var = x}
           P == {<<b, i>> : i \in S}
           D == DefsIn({b}, x)
<1>1. Len(f.code[b]) \in Nat /\ DOMAIN f.code[b] = 1 .. Len(f.code[b])
  BY FunctionFacts DEF Index
<1>2. S \subseteq Nat \ {0}
  BY <1>1
<1>3. IsFiniteSet(S) /\ Cardinality(S) \in Nat
  <2>1. \A n \in Nat : IsFiniteSet(1 .. n)
    BY FS_Interval
  <2> QED BY <1>1, <2>1, FS_Subset, FS_CardinalityType
<1>4. IsFiniteSet(P) /\ Cardinality(P) = Cardinality(S)
  <2> DEFINE h == [i \in S |-> <<b, i>>]
  <2>3. h \in [S -> P] /\ \A i \in S : h[i] = <<b, i>>
    OBVIOUS
  <2>4. \A i, j \in S : h[i] = h[j] => i = j
    BY <2>3
  <2>5. \A t \in P : \E i \in S : h[i] = t
    BY <2>3
  <2>1. h \in Bijection(S, P)
    <3> HIDE DEF h, S, P
    <3> QED BY <2>3, <2>4, <2>5 DEF Bijection, Injection, Surjection, IsInjective
  <2>2. ExistsBijection(S, P)
    BY <2>1 DEF ExistsBijection
  <2> HIDE DEF S, P
  <2> QED BY <1>3, <2>2, FS_Bijection
<1>5. <<b, 0>> \notin P
  BY <1>2
<1>6. D = P \cup (IF x \in phis[b] THEN {<<b, 0>>} ELSE {})
  <2>1. ASSUME NEW d \in D PROVE d \in P \cup (IF x \in phis[b] THEN {<<b, 0>>} ELSE {})
    <3>1. d \in Blocks \X Nat /\ d = <<b, d[2]>> /\ Def(b, d[2], x)
      BY <2>1 DEF DefsIn
    <3>2. (d[2] = 0 /\ x \in phis[b]) \/ d[2] \in S
      BY <3>1 DEF Def, Index
    <3> QED BY <3>1, <3>2
  <2>2. ASSUME NEW i \in S PROVE <<b, i>> \in D
    BY <1>2 DEF DefsIn, Def, Index
  <2>3. x \in phis[b] => <<b, 0>> \in D
    BY DEF DefsIn, Def
  <2> QED BY <2>1, <2>2, <2>3
<1>7. Pushes(b, x) = Cardinality(S) + (IF x \in phis[b] THEN 1 ELSE 0)
  BY DEF Pushes
<1> HIDE DEF S, P, D
<1>8. CASE x \in phis[b]
  BY <1>3, <1>4, <1>5, <1>6, <1>7, <1>8, FS_AddElement DEF D
<1>9. CASE x \notin phis[b]
  <2>1. D = P
    BY <1>6, <1>9
  <2> QED BY <1>3, <1>4, <1>7, <1>9, <2>1 DEF D
<1> QED BY <1>8, <1>9

\* The definitions of one block more.
LEMMA DefsAdd ==
    ASSUME f \in Functions, NEW set, NEW b \in set, b \in Blocks, NEW x
    PROVE  Cardinality(DefsIn(set, x)) = Cardinality(DefsIn(set \ {b}, x)) + Pushes(b, x)
<1> DEFINE A == DefsIn(set \ {b}, x)
           B == DefsIn({b}, x)
<1>1. DefsIn(set, x) = A \cup B /\ A \cap B = {}
  BY DEF DefsIn
<1>2. IsFiniteSet(A) /\ IsFiniteSet(B) /\ Cardinality(A) \in Nat /\ Cardinality(B) \in Nat
  BY DefsInFinite
<1>3. Pushes(b, x) = Cardinality(B)
  BY PushesAreDefs
<1> HIDE DEF A, B
<1>4. Cardinality(A \cap B) = 0
  BY <1>1, FS_EmptySet
<1>5. Cardinality(A \cup B) = Cardinality(A) + Cardinality(B)
  <2>1. Cardinality(A \cup B) = Cardinality(A) + Cardinality(B) - Cardinality(A \cap B)
    BY <1>2, FS_Union
  <2> QED BY <1>2, <1>4, <2>1
<1> QED BY <1>1, <1>3, <1>5 DEF A

SumEq(D, x, h) ==
    h = [s \in SUBSET D |->
           IF s = {} THEN 0 ELSE h[s \ {CHOOSE b \in s : TRUE}] + Pushes(CHOOSE b \in s : TRUE, x)]

\* The sum over blocks is a function that satisfies the sum's equation.
LEMMA SumIsChosen ==
    ASSUME NEW D, NEW x
    PROVE  FoldSet(LAMBDA b, n : n + Pushes(b, x), 0, D) = (CHOOSE h : SumEq(D, x, h))[D]
BY DEF FoldSet, MapThenFoldSet, SumEq

\* So the pushes of a set of blocks are its definitions.
LEMMA SumOfPushes ==
    ASSUME f \in Functions, NEW D, D \subseteq Blocks, NEW x
    PROVE  FoldSet(LAMBDA b, n : n + Pushes(b, x), 0, D) = Cardinality(DefsIn(D, x))
<1> DEFINE g == [s \in SUBSET D |-> Cardinality(DefsIn(s, x))]
           c(s) == CHOOSE b \in s : TRUE
<1>1. ASSUME NEW s \in SUBSET D
      PROVE  g[s] = IF s = {} THEN 0 ELSE g[s \ {c(s)}] + Pushes(c(s), x)
  <2>1. CASE s = {}
    <3>1. DefsIn({}, x) = {}
      BY DEF DefsIn
    <3> QED BY <2>1, <3>1, FS_EmptySet
  <2>2. CASE s # {}
    <3>1. c(s) \in s /\ c(s) \in Blocks /\ s \ {c(s)} \in SUBSET D
      BY <2>2
    <3> QED BY <2>2, <3>1, DefsAdd
  <2> QED BY <2>1, <2>2
<1>2. SumEq(D, x, g)
  BY <1>1 DEF SumEq
<1>3. PICK h : SumEq(D, x, h) /\ FoldSet(LAMBDA b, n : n + Pushes(b, x), 0, D) = h[D]
  BY <1>2, SumIsChosen
<1>4. \A s \in SUBSET D : h[s] = IF s = {} THEN 0 ELSE h[s \ {c(s)}] + Pushes(c(s), x)
  BY <1>3 DEF SumEq
<1>5. IsFiniteSet(D)
  BY FunctionFacts, FS_Subset
<1> DEFINE T == {n \in Nat : \A s \in SUBSET D : Cardinality(s) = n => h[s] = g[s]}
<1>6. \A s \in SUBSET D : IsFiniteSet(s) /\ Cardinality(s) \in Nat
  BY <1>5, FS_Subset, FS_CardinalityType
<1>7. 0 \in T
  <2>1. \A s \in SUBSET D : Cardinality(s) = 0 => s = {}
    BY <1>6, FS_EmptySet
  <2> QED BY <1>1, <1>4, <2>1
<1> HIDE DEF g
<1>8. ASSUME NEW n \in Nat, n \in T PROVE n + 1 \in T
  <2> SUFFICES ASSUME NEW s \in SUBSET D, Cardinality(s) = n + 1 PROVE h[s] = g[s]
    OBVIOUS
  <2>1. s # {}
    BY FS_EmptySet
  <2>2. c(s) \in s /\ s \ {c(s)} \in SUBSET D
    BY <2>1
  <2>3. \A e \in s : Cardinality(s \ {e}) = n
    BY <1>6, FS_RemoveElement
  <2>4. h[s \ {c(s)}] = g[s \ {c(s)}]
    BY <1>8, <2>2, <2>3
  <2> QED BY <1>1, <1>4, <2>1, <2>4
<1>9. h[D] = g[D]
  <2> HIDE DEF T
  <2>1. Cardinality(D) \in T
    BY <1>6, <1>7, <1>8, NatSetInduction
  <2> QED BY <2>1 DEF T
<1> QED BY <1>3, <1>9 DEF g

-----------------------------------------------------------------------------
(* What is on the stacks *)

\* What one more instruction defines.
LEMMA NextDefs ==
    ASSUME f \in Functions, NEW b \in Blocks, NEW n \in Nat, NEW x
    PROVE  /\ DefsBefore(b, n + 1, x) =
                DefsBefore(b, n, x) \cup (IF Def(b, n, x) THEN {<<b, n>>} ELSE {})
           /\ <<b, n>> \notin DefsBefore(b, n, x)
<1>1. \A m \in Nat : Before(b, m, b, n + 1) <=> m < n \/ m = n
  BY DEF Before, Precedes
<1>2. \A m \in Nat : Before(b, m, b, n) <=> m < n
  BY DEF Before, Precedes
<1>3. \A c, m : c # b => (Before(c, m, b, n + 1) <=> Before(c, m, b, n))
  BY DEF Before, Precedes
<1>4. ASSUME NEW d \in Blocks \X Nat
      PROVE  d \in DefsBefore(b, n + 1, x) <=>
               d \in DefsBefore(b, n, x) \/ (Def(b, n, x) /\ d = <<b, n>>)
  <2>1. CASE d[1] = b
    <3>1. d = <<b, d[2]>> /\ d[2] \in Nat
      BY <2>1
    <3> QED BY <1>1, <1>2, <2>1, <3>1 DEF DefsBefore
  <2>2. CASE d[1] # b
    BY <1>3, <2>2 DEF DefsBefore
  <2> QED BY <2>1, <2>2
<1>5. <<b, n>> \in Blocks \X Nat
  OBVIOUS
<1>6. DefsBefore(b, n + 1, x) \subseteq Blocks \X Nat /\ DefsBefore(b, n, x) \subseteq Blocks \X Nat
  BY DEF DefsBefore
<1>7. <<b, n>> \notin DefsBefore(b, n, x)
  BY <1>2 DEF DefsBefore
<1> QED BY <1>4, <1>5, <1>6, <1>7

\* A definition's place on the stack is within the stack.
LEMMA RankIsWithin ==
    ASSUME f \in Functions, NEW b \in Blocks, NEW n \in Nat, NEW x, NEW d \in DefsBefore(b, n, x)
    PROVE  /\ Rank(d, x) \in Nat /\ 1 <= Rank(d, x)
           /\ Rank(d, x) <= Cardinality(DefsBefore(b, n, x))
<1> DEFINE R == DefsBefore(d[1], d[2] + 1, x)
           D == DefsBefore(b, n, x)
<1>1. d \in Blocks \X Nat /\ Def(d[1], d[2], x) /\ Before(d[1], d[2], b, n)
  BY DEF DefsBefore
<1>2. d \in R
  BY <1>1, NextDefs
<1>3. R \subseteq D
  <2> SUFFICES ASSUME NEW e \in R PROVE e \in D
    OBVIOUS
  <2>1. e \in Blocks \X Nat /\ Def(e[1], e[2], x) /\ Before(e[1], e[2], d[1], d[2] + 1)
    BY DEF DefsBefore
  <2>2. (e[1] = d[1] /\ e[2] = d[2]) \/ Before(e[1], e[2], d[1], d[2])
    BY <1>1, <2>1 DEF Before, Precedes
  <2>3. Before(e[1], e[2], b, n)
    BY <1>1, <2>1, <2>2, BeforeIsTransitive
  <2> QED BY <2>1, <2>3 DEF DefsBefore
<1>4. IsFiniteSet(R) /\ Cardinality(R) \in Nat /\ IsFiniteSet(D) /\ Cardinality(D) \in Nat
  BY DefsBeforeFinite
<1> HIDE DEF R, D
<1>5. Cardinality(R) # 0
  BY <1>2, <1>4, FS_EmptySet
<1>6. Cardinality(R) <= Cardinality(D)
  BY <1>3, <1>4, FS_Subset
<1>7. Rank(d, x) = Cardinality(R)
  BY DEF Rank, R
<1> QED BY <1>4, <1>5, <1>6, <1>7 DEF D

\* The stack s of x holds the values of the definitions in D, each at its rank.
Holds(s, rep, D, x) ==
    /\ Len(s) = Cardinality(D)
    /\ \A d \in D : s[Rank(d, x)] = Symbol(rep, d, x)
    /\ \A m \in 1 .. Len(s) : \E d \in D : Rank(d, x) = m

StackAt(newest, rep, b, n) == \A x \in Var : Holds(newest[x], rep, DefsBefore(b, n, x), x)

\* One definition more.
LEMMA PushHolds ==
    ASSUME f \in Functions, NEW b \in Blocks, NEW n \in Nat, NEW x, NEW s \in Seq(Symbols), NEW rep,
           Holds(s, rep, DefsBefore(b, n, x), x), Def(b, n, x)
    PROVE  Holds(Append(s, Symbol(rep, <<b, n>>, x)), rep, DefsBefore(b, n + 1, x), x)
<1> DEFINE D == DefsBefore(b, n, x)
           E == DefsBefore(b, n + 1, x)
           e == <<b, n>>
           v == Symbol(rep, e, x)
           t == Append(s, v)
<1>1. E = D \cup {e} /\ e \notin D
  BY NextDefs
<1>2. IsFiniteSet(D) /\ Cardinality(D) \in Nat
  BY DefsBeforeFinite
<1>3. Cardinality(E) = Cardinality(D) + 1
  <2> HIDE DEF D, E, e
  <2> QED BY <1>1, <1>2, FS_AddElement
<1>4. Rank(e, x) = Cardinality(E)
  BY DEF Rank
<1>5. \A d \in D : Rank(d, x) \in Nat /\ 1 <= Rank(d, x) /\ Rank(d, x) <= Cardinality(D)
  BY RankIsWithin
<1>6. Len(s) = Cardinality(D) /\ (\A d \in D : s[Rank(d, x)] = Symbol(rep, d, x))
      /\ (\A m \in 1 .. Len(s) : \E d \in D : Rank(d, x) = m)
  BY DEF Holds
<1>7. /\ Len(t) = Len(s) + 1 /\ t[Len(s) + 1] = v
      /\ \A m \in 1 .. Len(s) : t[m] = s[m]
  <2> HIDE DEF v
  <2> QED OBVIOUS
<1> HIDE DEF D, E, e, v, t
<1>8. ASSUME NEW d \in E PROVE t[Rank(d, x)] = Symbol(rep, d, x)
  <2>1. CASE d = e
    BY <1>3, <1>4, <1>6, <1>7, <2>1 DEF v
  <2>2. CASE d \in D
    <3>1. Rank(d, x) \in 1 .. Len(s)
      BY <1>2, <1>5, <1>6, <2>2
    <3> QED BY <1>6, <1>7, <2>2, <3>1
  <2> QED BY <1>1, <2>1, <2>2
<1>9. ASSUME NEW m \in 1 .. Len(t) PROVE \E d \in E : Rank(d, x) = m
  <2>1. CASE m = Len(s) + 1
    BY <1>1, <1>3, <1>4, <1>6, <2>1
  <2>2. CASE m # Len(s) + 1
    <3>1. m \in 1 .. Len(s)
      BY <1>2, <1>6, <1>7, <2>2
    <3> QED BY <1>1, <1>6, <3>1
  <2> QED BY <2>1, <2>2
<1>10. Len(t) = Cardinality(E)
  BY <1>3, <1>6, <1>7
<1>11. Holds(t, rep, E, x)
  BY <1>8, <1>9, <1>10 DEF Holds
<1> QED BY <1>11 DEF t, v, e, E

-----------------------------------------------------------------------------
(* ReName on one block *)

\* The states between the instructions of b.
InTurn(st, b) ==
    /\ \A n \in 0 .. Len(f.code[b]) : st[n] \in States
    /\ \A n \in 1 .. Len(f.code[b]) : st[n] = Renamed(st[n - 1], f.code[b][n])

LoadRenamed(s, t, b, n) ==
    /\ \A l \in LoadId : (\A x : ~IsLoad(b, n, x, l)) => t.rep[l] = s.rep[l]
    /\ \A x, l : IsLoad(b, n, x, l) =>
         t.rep[l] = IF s.newest[x] = <<>> THEN s.rep[l] ELSE Last(s.newest[x])

StoreRenamed(s, t, inst) ==
    \A x \in Var : t.newest[x] =
      IF inst.isStore /\ inst.var = x THEN Append(s.newest[x], Operand(s.rep, inst.val))
      ELSE s.newest[x]

\* What one instruction does to the names and the stacks.
LEMMA RenamedStep ==
    ASSUME f \in Functions, NEW b \in Blocks, NEW st, InTurn(st, b), NEW n \in Index(b)
    PROVE  /\ LoadRenamed(st[n - 1], st[n], b, n)
           /\ StoreRenamed(st[n - 1], st[n], f.code[b][n])
<1> DEFINE s == st[n - 1]
           inst == f.code[b][n]
<1>0. n \in 1 .. Len(f.code[b]) /\ n - 1 \in 0 .. Len(f.code[b]) /\ inst \in Instruction
  BY FunctionFacts
<1>1. s \in States /\ st[n] = Renamed(s, inst) /\ inst \in Instruction
  BY <1>0 DEF InTurn
<1>2. /\ s = [newest |-> s.newest, rep |-> s.rep]
      /\ s.rep \in [LoadId -> Symbols] /\ s.newest \in [Var -> Seq(Symbols)]
  <2> HIDE DEF s
  <2> QED BY <1>1 DEF States
<1>3. \A x, l : IsLoad(b, n, x, l) <=> ~inst.isStore /\ x = inst.var /\ l = inst.val
  BY DEF IsLoad
<1>4. \A x, l : IsLoad(b, n, x, l) => l \in LoadId
  BY LoadFacts
<1> HIDE DEF s, inst
<1>5. CASE inst.isStore
  <2>1. st[n] = [newest |-> Pushed(s.newest, inst.var, Operand(s.rep, inst.val)), rep |-> s.rep]
    BY <1>1, <1>2, <1>5 DEF Renamed
  <2>2. LoadRenamed(s, st[n], b, n)
    BY <1>3, <1>5, <2>1 DEF LoadRenamed
  <2>3. StoreRenamed(s, st[n], inst)
    BY <1>2, <1>5, <2>1 DEF StoreRenamed, Pushed
  <2> QED BY <2>2, <2>3 DEF s, inst
<1>6. CASE ~inst.isStore /\ s.newest[inst.var] = <<>>
  <2>1. st[n] = s
    BY <1>1, <1>6 DEF Renamed
  <2>2. LoadRenamed(s, st[n], b, n)
    BY <1>3, <1>6, <2>1 DEF LoadRenamed
  <2>3. StoreRenamed(s, st[n], inst)
    BY <1>6, <2>1 DEF StoreRenamed
  <2> QED BY <2>2, <2>3 DEF s, inst
<1>7. CASE ~inst.isStore /\ s.newest[inst.var] # <<>>
  <2>1. st[n] = [newest |-> s.newest, rep |-> [s.rep EXCEPT ![inst.val] = Last(s.newest[inst.var])]]
    BY <1>1, <1>2, <1>7 DEF Renamed
  <2>2. \A l \in LoadId : l # inst.val => st[n].rep[l] = s.rep[l]
    BY <1>2, <2>1
  <2>3. inst.val \in LoadId /\ st[n].rep[inst.val] = Last(s.newest[inst.var])
    <3>1. IsLoad(b, n, inst.var, inst.val)
      BY <1>3, <1>7
    <3>2. inst.val \in LoadId
      BY <1>4, <3>1
    <3> QED BY <1>2, <2>1, <3>2
  <2>4. LoadRenamed(s, st[n], b, n)
    BY <1>3, <1>7, <2>2, <2>3 DEF LoadRenamed
  <2>5. StoreRenamed(s, st[n], inst)
    BY <1>7, <2>1 DEF StoreRenamed
  <2> QED BY <2>4, <2>5 DEF s, inst
<1> QED BY <1>5, <1>6, <1>7

\* A load is replaced when the walk comes to it, and then stays as it is.
LoadedAfter(b, l, n) == \A j, x : IsLoad(b, j, x, l) => j > n
LoadedBy(b, l, n) == \A j, x : IsLoad(b, j, x, l) => j <= n

\* A load's name stands for nothing new before the load.
LEMMA RepBefore ==
    ASSUME f \in Functions, NEW b \in Blocks, NEW st, InTurn(st, b), NEW l \in LoadId,
           NEW n \in 0 .. Len(f.code[b]), LoadedAfter(b, l, n)
    PROVE  st[n].rep[l] = st[0].rep[l]
<1> DEFINE N == Len(f.code[b])
           T == {m \in Nat : m \in 0 .. N /\ LoadedAfter(b, l, m) => st[m].rep[l] = st[0].rep[l]}
<1>1. N \in Nat /\ Index(b) = 1 .. N
  BY FunctionFacts
<1>2. \A j, x : IsLoad(b, j, x, l) => j \in 1 .. N
  BY <1>1 DEF IsLoad
<1>3. 0 \in T
  OBVIOUS
<1>4. ASSUME NEW m \in Nat, m \in T PROVE m + 1 \in T
  <2> DEFINE j == m + 1
  <2> SUFFICES ASSUME j \in 0 .. N, LoadedAfter(b, l, j) PROVE st[j].rep[l] = st[0].rep[l]
    OBVIOUS
  <2>1. j \in Index(b) /\ m \in 0 .. N /\ j - 1 = m
    BY <1>1
  <2>2. \A x : ~IsLoad(b, j, x, l)
    BY <1>1 DEF LoadedAfter
  <2>3. LoadedAfter(b, l, m)
    BY <1>2 DEF LoadedAfter
  <2> HIDE DEF j
  <2>4. LoadRenamed(st[m], st[j], b, j)
    BY <2>1, RenamedStep
  <2>5. st[j].rep[l] = st[m].rep[l]
    BY <2>2, <2>4 DEF LoadRenamed
  <2> QED BY <1>4, <2>1, <2>3, <2>5
<1> HIDE DEF T
<1>5. n \in T
  BY <1>1, <1>3, <1>4, NatSetInduction
<1> QED BY <1>5 DEF T

\* After the load it stands for the same to the end of the block.
LEMMA RepAfter ==
    ASSUME f \in Functions, NEW b \in Blocks, NEW st, InTurn(st, b), NEW l \in LoadId,
           NEW n \in 0 .. Len(f.code[b]), LoadedBy(b, l, n)
    PROVE  st[n].rep[l] = st[Len(f.code[b])].rep[l]
<1> DEFINE N == Len(f.code[b])
           T == {m \in Nat : m \in 0 .. N /\ LoadedBy(b, l, N - m) => st[N - m].rep[l] = st[N].rep[l]}
<1>1. N \in Nat /\ Index(b) = 1 .. N
  BY FunctionFacts
<1>2. \A i, x : IsLoad(b, i, x, l) => i \in 1 .. N
  BY <1>1 DEF IsLoad
<1>3. 0 \in T
  BY <1>1
<1>4. ASSUME NEW m \in Nat, m \in T PROVE m + 1 \in T
  <2> DEFINE i == N - (m + 1)
             j == N - m
  <2> SUFFICES ASSUME m + 1 \in 0 .. N, LoadedBy(b, l, i) PROVE st[i].rep[l] = st[N].rep[l]
    OBVIOUS
  <2>1. j \in Index(b) /\ m \in 0 .. N /\ j - 1 = i
    BY <1>1
  <2>2. \A x : ~IsLoad(b, j, x, l)
    BY <1>1 DEF LoadedBy
  <2>3. LoadedBy(b, l, j)
    BY <1>1, <1>2 DEF LoadedBy
  <2>6. st[j].rep[l] = st[N].rep[l]
    BY <1>4, <2>1, <2>3
  <2> HIDE DEF i, j
  <2>4. LoadRenamed(st[i], st[j], b, j)
    BY <2>1, RenamedStep
  <2>5. st[j].rep[l] = st[i].rep[l]
    BY <2>2, <2>4 DEF LoadRenamed
  <2> QED BY <2>5, <2>6
<1>5. N - n \in Nat /\ N - (N - n) = n /\ N - n \in 0 .. N
  BY <1>1
<1> HIDE DEF T
<1>6. N - n \in T
  BY <1>1, <1>3, <1>4, <1>5, NatSetInduction
<1> QED BY <1>5, <1>6 DEF T

\* The stacks while b is renamed: in the end, with loads as they are replaced in
\* the end, they hold what the instructions of b have been given to see.
LEMMA BlockRenamed ==
    ASSUME f \in Functions, phis \in [Blocks -> SUBSET Var], NEW b \in Blocks,
           NEW st, InTurn(st, b), NEW start, start \in [Var -> Seq(Symbols)],
           st[0].newest = [x \in Var |-> IF x \in phis[b] THEN Append(start[x], Phi(b, x)) ELSE start[x]],
           StackAt(start, st[0].rep, b, 0)
    PROVE  LET rep == st[Len(f.code[b])].rep IN
           /\ StackAt(start, rep, b, 0)
           /\ \A n \in 0 .. Len(f.code[b]) : StackAt(st[n].newest, rep, b, n + 1)
<1> DEFINE N == Len(f.code[b])
           rep == st[N].rep
<1>1. N \in Nat /\ Index(b) = 1 .. N
  BY FunctionFacts
<1>2. \A j, x, l : IsLoad(b, j, x, l) => j \in 1 .. N
  BY <1>1 DEF IsLoad
\* Operands have been loaded before.
<1>3. ASSUME NEW d \in Blocks \X Nat, NEW x, Def(d[1], d[2], x), NEW n \in 0 .. N,
             IF n = 0 THEN Before(d[1], d[2], b, 0) ELSE d = <<b, n>>
      PROVE  Symbol(rep, d, x) = Symbol(IF n = 0 THEN st[0].rep ELSE st[n - 1].rep, d, x)
  <2>1. CASE d[2] = 0 \/ f.code[d[1]][d[2]].val \notin LoadId
    BY <2>1 DEF Symbol, Operand
  <2>2. CASE d[2] # 0 /\ f.code[d[1]][d[2]].val \in LoadId
    <3> DEFINE l == f.code[d[1]][d[2]].val
    <3>1. d[1] \in Blocks /\ d[2] \in Index(d[1]) /\ f.code[d[1]][d[2]].isStore
      BY <1>3, <2>2 DEF Def
    <3>2. PICK c, j, y : IsLoad(c, j, y, l) /\ Before(c, j, d[1], d[2])
      BY <2>2, <3>1, LoadFacts
    <3>3. \A e, i, z : IsLoad(e, i, z, l) => e = c /\ i = j
      BY <3>2, LoadFacts
    <3>4. c \in Blocks /\ j \in Nat
      <4>1. c \in Blocks /\ j \in Index(c)
        BY <3>2 DEF IsLoad
      <4>2. Index(c) = 1 .. Len(f.code[c]) /\ Len(f.code[c]) \in Nat
        BY <4>1, FunctionFacts
      <4> QED BY <4>1, <4>2
    <3>5. CASE n = 0
      <4>1. Before(c, j, b, 0)
        BY <1>3, <3>1, <3>2, <3>4, <3>5, BeforeIsTransitive
      <4>2. c # b
        BY <3>4, <4>1 DEF Before, Precedes
      <4>3. \A i, z : ~IsLoad(b, i, z, l)
        BY <3>3, <4>2
      <4>5. LoadedBy(b, l, 0) /\ 0 \in 0 .. N
        BY <1>1, <4>3 DEF LoadedBy
      <4>6. l \in LoadId /\ 0 \in 0 .. Len(f.code[b])
        BY <2>2, <4>5
      <4> HIDE DEF l
      <4>7. st[0].rep[l] = st[Len(f.code[b])].rep[l]
        BY <4>5, <4>6, RepAfter
      <4>4. rep[l] = st[0].rep[l]
        BY <4>7
      <4> USE DEF l
      <4> QED BY <2>2, <3>5, <4>4 DEF Symbol, Operand
    <3>6. CASE n # 0
      <4>1. d[1] = b /\ d[2] = n /\ n - 1 \in 0 .. N
        BY <1>1, <1>3, <3>6
      <4>2. LoadedBy(b, l, n - 1)
        <5> SUFFICES ASSUME NEW i, NEW z, IsLoad(b, i, z, l) PROVE i <= n - 1
          BY DEF LoadedBy
        <5>1. c = b /\ i = j
          BY <3>3
        <5>2. j < n
          BY <3>2, <4>1, <5>1 DEF Before, Precedes
        <5> QED BY <3>4, <5>1, <5>2
      <4>3. rep[l] = st[n - 1].rep[l]
        <5> DEFINE p == n - 1
        <5>1. p \in 0 .. N /\ LoadedBy(b, l, p)
          BY <4>1, <4>2
        <5>3. l \in LoadId
          BY <2>2
        <5> HIDE DEF p, l
        <5>2. st[p].rep[l] = st[Len(f.code[b])].rep[l]
          BY <5>1, <5>3, RepAfter
        <5> QED BY <5>2 DEF p
      <4> QED BY <2>2, <3>6, <4>3 DEF Symbol, Operand
    <3> QED BY <3>5, <3>6
  <2> QED BY <2>1, <2>2
<1>4. \A n \in 0 .. N : st[n].newest \in [Var -> Seq(Symbols)]
  BY DEF InTurn, States
<1> HIDE DEF N, rep
<1>5. StackAt(start, rep, b, 0)
  <2> SUFFICES ASSUME NEW x \in Var PROVE Holds(start[x], rep, DefsBefore(b, 0, x), x)
    BY DEF StackAt
  <2>1. Holds(start[x], st[0].rep, DefsBefore(b, 0, x), x)
    BY DEF StackAt
  <2>2. \A d \in DefsBefore(b, 0, x) : Symbol(rep, d, x) = Symbol(st[0].rep, d, x)
    BY <1>1, <1>3 DEF DefsBefore
  <2> QED BY <2>1, <2>2 DEF Holds
<1> DEFINE T == {n \in Nat : n \in 0 .. N => StackAt(st[n].newest, rep, b, n + 1)}
<1>6. 0 \in T
  <2> SUFFICES ASSUME NEW x \in Var
               PROVE  Holds(st[0].newest[x], rep, DefsBefore(b, 0 + 1, x), x)
    BY DEF StackAt
  <2>1. Holds(start[x], rep, DefsBefore(b, 0, x), x)
    BY <1>5 DEF StackAt
  <2>2. Def(b, 0, x) <=> x \in phis[b]
    BY <1>1 DEF Def
  <2>3. CASE x \in phis[b]
    <3>1. st[0].newest[x] = Append(start[x], Symbol(rep, <<b, 0>>, x))
      BY <2>3 DEF Symbol
    <3> QED BY <2>1, <2>2, <2>3, <3>1, PushHolds
  <2>4. CASE x \notin phis[b]
    <3>1. DefsBefore(b, 0 + 1, x) = DefsBefore(b, 0, x) \cup {}
      BY <2>2, <2>4, NextDefs
    <3>2. st[0].newest[x] = start[x]
      BY <2>4
    <3> QED BY <2>1, <3>1, <3>2
  <2> QED BY <2>3, <2>4
<1>7. ASSUME NEW m \in Nat, m \in T PROVE m + 1 \in T
  <2> SUFFICES ASSUME m + 1 \in 0 .. N, NEW x \in Var
               PROVE  Holds(st[m + 1].newest[x], rep, DefsBefore(b, (m + 1) + 1, x), x)
    BY DEF StackAt
  <2> DEFINE n == m + 1
             inst == f.code[b][n]
  <2>1. n \in Index(b) /\ n \in 0 .. N /\ n \in Nat /\ m \in 0 .. N /\ n - 1 = m /\ n # 0
    BY <1>1
  <2>2. Holds(st[m].newest[x], rep, DefsBefore(b, n, x), x)
    BY <1>7, <2>1 DEF StackAt
  <2>3. Def(b, n, x) <=> inst.isStore /\ inst.var = x
    BY <2>1 DEF Def
  <2>4. st[m].newest \in [Var -> Seq(Symbols)]
    BY <1>4, <2>1
  <2> HIDE DEF n
  <2>7. StoreRenamed(st[m], st[n], inst)
    BY <2>1, RenamedStep
  <2>5. CASE inst.isStore /\ inst.var = x
    <3>1. st[n].newest[x] = Append(st[m].newest[x], Operand(st[m].rep, inst.val))
      BY <2>5, <2>7 DEF StoreRenamed
    <3>2. Symbol(rep, <<b, n>>, x) = Symbol(st[m].rep, <<b, n>>, x)
      <4> DEFINE d == <<b, n>>
      <4>1. d \in Blocks \X Nat /\ d[1] = b /\ d[2] = n /\ Def(d[1], d[2], x)
        BY <2>1, <2>3, <2>5
      <4> HIDE DEF d
      <4>2. d = <<b, n>>
        BY DEF d
      <4>3. Symbol(rep, d, x) = Symbol(IF n = 0 THEN st[0].rep ELSE st[n - 1].rep, d, x)
        BY <1>3, <2>1, <4>1, <4>2
      <4> QED BY <2>1, <4>2, <4>3
    <3>3. Symbol(rep, <<b, n>>, x) = Operand(st[m].rep, inst.val)
      BY <2>1, <3>2 DEF Symbol
    <3>4. st[m].newest[x] \in Seq(Symbols)
      BY <2>4
    <3>5. Holds(Append(st[m].newest[x], Symbol(rep, <<b, n>>, x)), rep, DefsBefore(b, n + 1, x), x)
      BY <2>1, <2>2, <2>3, <2>5, <3>4, PushHolds
    <3> QED BY <3>1, <3>3, <3>5 DEF n
  <2>6. CASE ~(inst.isStore /\ inst.var = x)
    <3>1. DefsBefore(b, n + 1, x) = DefsBefore(b, n, x) \cup {}
      BY <2>1, <2>3, <2>6, NextDefs
    <3>2. st[n].newest[x] = st[m].newest[x]
      BY <2>6, <2>7 DEF StoreRenamed
    <3> QED BY <2>2, <3>1, <3>2 DEF n
  <2> QED BY <2>5, <2>6
<1>8. \A n \in 0 .. N : StackAt(st[n].newest, rep, b, n + 1)
  <2> HIDE DEF T
  <2>1. Nat \subseteq T
    BY <1>6, <1>7, NatSetInduction
  <2> QED BY <1>1, <2>1 DEF T
<1> QED BY <1>5, <1>8 DEF rep, N

-----------------------------------------------------------------------------
(* GenPhi *)

WorkList(x, N, h) ==
    h = [n \in 0 .. N |-> IF n = 0 THEN {b \in Blocks : Stores(b, x)}
                          ELSE h[n - 1] \cup UNION {[c \in Blocks |-> DF(c)][b] : b \in h[n - 1]}]

\* The blocks that get phis, by the work list's function.
LEMMA PhiBlocksChosen ==
    ASSUME NEW x
    PROVE  PhiBlocks(x) = UNION {[c \in Blocks |-> DF(c)][b] :
                                   b \in (CHOOSE h : WorkList(x, Len(f.succ), h))[Len(f.succ)]}
BY DEF PhiBlocks, WorkList

\* The blocks with a phi are closed under the frontier.
LEMMA PhisAreClosed ==
    ASSUME f \in Functions, NEW x
    PROVE  \A b \in Blocks : Stores(b, x) \/ b \in PhiBlocks(x) => DF(b) \subseteq PhiBlocks(x)
<1> DEFINE N == Len(f.succ)
           V == SUBSET Blocks
           defs == {b \in Blocks : Stores(b, x)}
           F == [b \in Blocks |-> DF(b)]
           On(w) == w \cup UNION {F[b] : b \in w}
           G == [w \in V |-> On(w)]
<1>1. N \in Nat /\ Blocks = 1 .. N
  BY FunctionFacts
<1>2. \A b \in Blocks : F[b] = DF(b) /\ DF(b) \subseteq Blocks
  BY DEF DF, FrontierOf, Blocks
<1>3. \A w \in V : On(w) \in V
  BY <1>2
<1>4. defs \in V /\ G \in [V -> V] /\ \A w \in V : G[w] = On(w)
  BY <1>3
<1>5. \E h : WorkList(x, N, h)
  <2>1. Iterated(V, defs, G, N)
    <3> HIDE DEF V, defs, G, N
    <3> QED BY <1>1, <1>4, Iteration
  <2>2. PICK h \in [0 .. N -> V] : \A i \in 0 .. N : h[i] = IF i = 0 THEN defs ELSE G[h[i - 1]]
    BY <2>1 DEF Iterated
  <2>3. \A i \in 0 .. N : i # 0 => h[i - 1] \in V
    BY <1>1
  <2>4. \A i \in 0 .. N : h[i] = IF i = 0 THEN defs ELSE On(h[i - 1])
    <3> HIDE DEF V, On, G, N, defs
    <3> QED BY <1>4, <2>2, <2>3
  <2>5. WorkList(x, N, h)
    BY <2>4 DEF WorkList
  <2> QED BY <2>5
<1>6. PICK h : WorkList(x, N, h) /\ PhiBlocks(x) = UNION {F[b] : b \in h[N]}
  BY <1>5, PhiBlocksChosen
<1>7. \A i \in 0 .. N : h[i] = IF i = 0 THEN defs ELSE On(h[i - 1])
  BY <1>6 DEF WorkList
<1> HIDE DEF On, F, V, defs, G
<1> DEFINE T == {n \in Nat : n \in 0 .. N => h[n] \in V /\ defs \subseteq h[n]}
<1>8. \A n \in 0 .. N : h[n] \in V /\ defs \subseteq h[n]
  <2>1. 0 \in T
    BY <1>1, <1>4, <1>7
  <2>2. ASSUME NEW n \in Nat, n \in T PROVE n + 1 \in T
    <3> DEFINE m == n + 1
    <3> SUFFICES ASSUME m \in 0 .. N PROVE h[m] \in V /\ defs \subseteq h[m]
      OBVIOUS
    <3>1. m - 1 = n /\ m # 0 /\ n \in 0 .. N
      BY <1>1
    <3> HIDE DEF m
    <3>2. h[m] = On(h[n]) /\ h[n] \in V /\ defs \subseteq h[n]
      BY <1>7, <2>2, <3>1
    <3>3. h[n] \subseteq On(h[n])
      BY DEF On
    <3> QED BY <1>3, <3>2, <3>3
  <2> HIDE DEF T
  <2>3. Nat \subseteq T
    BY <2>1, <2>2, NatSetInduction
  <2> QED BY <1>1, <2>3 DEF T
<1>9. On(h[N]) = h[N]
  <2>1. CASE defs = {}
    <3> DEFINE U == {n \in Nat : n \in 0 .. N => h[n] = {}}
    <3>1. 0 \in U
      BY <1>1, <1>7, <2>1
    <3>2. ASSUME NEW n \in Nat, n \in U PROVE n + 1 \in U
      <4> DEFINE m == n + 1
      <4> SUFFICES ASSUME m \in 0 .. N PROVE h[m] = {}
        OBVIOUS
      <4>1. m - 1 = n /\ m # 0 /\ n \in 0 .. N
        BY <1>1
      <4> HIDE DEF m
      <4>2. h[m] = On(h[n]) /\ h[n] = {}
        BY <1>7, <3>2, <4>1
      <4> QED BY <4>2 DEF On
    <3> HIDE DEF U
    <3>3. N \in U
      BY <1>1, <3>1, <3>2, NatSetInduction
    <3>4. h[N] = {}
      BY <1>1, <3>3 DEF U
    <3> QED BY <3>4 DEF On
  <2>2. CASE defs # {}
    <3> DEFINE g == [n \in 0 .. N + 1 |-> IF n = N + 1 THEN On(h[N]) ELSE h[n]]
    <3>1. IsFiniteSet(Blocks) /\ Cardinality(Blocks) = N
      <4>1. \A n \in Nat : IsFiniteSet(1 .. n) /\ Cardinality(1 .. n) = n
        BY FS_Interval
      <4> QED BY <1>1, <4>1
    <3>2. \A n \in 0 .. N : g[n] = h[n] /\ n + 1 \in 0 .. N + 1 /\ n \in 0 .. N + 1
      BY <1>1
    <3>3. g[N + 1] = On(h[N]) /\ N \in 0 .. N
      BY <1>1
    <3>4. ASSUME NEW n \in 0 .. N PROVE g[n + 1] = On(g[n])
      <4>1. CASE n = N
        BY <3>2, <3>3, <4>1
      <4>2. CASE n # N
        <5>1. n + 1 \in 0 .. N /\ (n + 1) - 1 = n /\ n + 1 # 0
          BY <1>1, <4>2
        <5> DEFINE m == n + 1
        <5>2. m \in 0 .. N /\ m - 1 = n /\ m # 0
          BY <5>1
        <5> HIDE DEF m
        <5>3. h[m] = On(h[n])
          BY <1>7, <5>2
        <5> HIDE DEF g
        <5> QED BY <3>2, <5>2, <5>3 DEF m
      <4> QED BY <4>1, <4>2
    <3>5. \A n \in 0 .. N + 1 : g[n] \subseteq Blocks
      <4>1. \A n \in 0 .. N : g[n] \in V
        BY <1>8, <3>2
      <4>2. On(h[N]) \in V
        BY <1>3, <1>8, <3>3
      <4>3. \A n \in 0 .. N + 1 : n \in 0 .. N \/ n = N + 1
        BY <1>1
      <4> HIDE DEF g
      <4> QED BY <3>3, <4>1, <4>2, <4>3 DEF V
    <3> HIDE DEF g
    <3>6. \A n \in 0 .. N : g[n] \subseteq g[n + 1]
      BY <3>4 DEF On
    <3>7. ASSUME NEW n \in 0 .. N, n # 0, g[n - 1] = g[n] PROVE g[n] = g[n + 1]
      <4> DEFINE m == n - 1
      <4>1. m \in 0 .. N /\ m + 1 = n
        BY <1>1, <3>7
      <4> HIDE DEF m
      <4>2. g[n] = On(g[m])
        BY <3>4, <4>1
      <4> QED BY <3>4, <3>7, <4>2 DEF m
    <3>8. g[0] # {}
      BY <1>1, <1>8, <2>2, <3>2
    <3>9. g[N] = g[N + 1]
      BY <3>1, <3>5, <3>6, <3>7, <3>8, GrowthEnds
    <3> QED BY <3>2, <3>3, <3>9
  <2> QED BY <2>1, <2>2
<1>10. defs \subseteq h[N] /\ h[N] \subseteq Blocks
  BY <1>1, <1>8 DEF V
<1>11. PhiBlocks(x) \subseteq h[N]
  BY <1>6, <1>9 DEF On
<1>12. ASSUME NEW b \in Blocks, Stores(b, x) \/ b \in PhiBlocks(x)
       PROVE  DF(b) \subseteq PhiBlocks(x)
  <2>1. b \in h[N]
    BY <1>10, <1>11, <1>12 DEF defs
  <2>2. F[b] = DF(b)
    BY <1>2 DEF F
  <2> QED BY <1>6, <2>1, <2>2
<1> QED BY <1>12

-----------------------------------------------------------------------------
(* The invariant *)

Entries == [call : BOOLEAN, block : Blocks]
Values == Const \cup {Uninit}

TypeInv ==
    /\ f \in Functions /\ stage \in {"genphi", "rename", "run"}
    /\ phis \in [Blocks -> SUBSET Var]
    /\ walk \in Seq(Entries)
    /\ newest_live_var \in [Var -> Seq(Symbols)]
    /\ replaced \in [LoadId -> Symbols]
    /\ params \in [Blocks \X Var \X Blocks -> Symbols]
    /\ bb \in Blocks /\ k \in 1 .. End(bb)
    /\ mem \in [Var -> Values] /\ loaded \in [LoadId -> Values] /\ ssa \in [Phis -> Values]

OpenBlocks == {walk[n].block : n \in {m \in DOMAIN walk : ~walk[m].call}}
Pending(b) == \/ stage = "genphi"
              \/ \E n \in DOMAIN walk : walk[n].call /\ Dom(walk[n].block, b)

\* The blocks to be called dominate nothing else that is on the way; those to be
\* ended dominate what comes before them; and all that dominate a block come
\* after it.
InOrder(w) ==
    /\ \A n, m \in DOMAIN w : n # m /\ w[n].call => ~Dom(w[n].block, w[m].block)
    /\ \A n, m \in DOMAIN w :
         n < m /\ ~w[m].call => w[m].block # w[n].block /\ Dom(w[m].block, w[n].block)
    /\ \A n \in DOMAIN w : \A a \in Blocks :
         a # w[n].block /\ Dom(a, w[n].block) =>
           \E m \in DOMAIN w : n < m /\ ~w[m].call /\ w[m].block = a

WalkInv == (stage # "rename" => walk = <<>>) /\ InOrder(walk)

\* The stacks hold the definitions of the blocks that are open.
StackInv == \A x \in Var : Holds(newest_live_var[x], replaced, DefsIn(OpenBlocks, x), x)

\* Where the dominance of a definition ends there is a phi.
PhiInv ==
    stage # "genphi" =>
      \A c \in Blocks : \A x \in Var :
        Stores(c, x) \/ x \in phis[c] => \A s \in DF(c) : x \in phis[s]

\* A load has been replaced by the definition it sees, and a phi it has been
\* replaced by is in a block that dominates it.
Replaced(rep, b, i, x, l) ==
    /\ \A d \in DefsBefore(b, i, x) : Current(d, b, i, x) => rep[l] = Symbol(rep, d, x)
    /\ \A e \in Blocks : \A y \in Var : rep[l] = Phi(e, y) => Dom(e, b)

LoadInv ==
    \A b \in Blocks : \A i \in Index(b) : ~f.code[b][i].isStore =>
      IF Pending(b) THEN replaced[f.code[b][i].val] = Uninit
      ELSE Replaced(replaced, b, i, f.code[b][i].var, f.code[b][i].val)

\* The operand of a phi for a predecessor is what is seen at the predecessor's end.
ParamInv ==
    \A b \in Blocks : ~Pending(b) =>
      \A s \in Succs(b) : \A x \in phis[s] : \A d \in DefsBefore(b, End(b), x) :
        Current(d, b, End(b), x) => params[<<s, x, b>>] = Symbol(replaced, d, x)

\* The run: a variable contains the value of the definition that is seen, and a
\* load that is before on every path has read what it has been replaced by.
MemInv ==
    \A x \in Var : mem[x] # Uninit =>
      \E d \in DefsBefore(bb, k, x) :
        Current(d, bb, k, x) /\ Content(Symbol(replaced, d, x)) = mem[x]

LoadedInv ==
    \A b \in Blocks : \A i \in Index(b) :
      LET l == f.code[b][i].val IN
      ~f.code[b][i].isStore /\ Before(b, i, bb, k) /\ loaded[l] # Uninit =>
        Content(replaced[l]) = loaded[l]

RunInv ==
    IF stage = "run" THEN MemInv /\ LoadedInv
    ELSE /\ bb = 1 /\ k = 1 /\ mem = [x \in Var |-> Uninit]
         /\ loaded = [l \in LoadId |-> Uninit]

Inv == /\ TypeInv /\ WalkInv /\ StackInv /\ PhiInv
       /\ LoadInv /\ ParamInv /\ RunInv

\* What depends on the function only, and what on its phis too.
LEMMA SameFunction ==
    ASSUME UNCHANGED f
    PROVE  /\ Blocks' = Blocks /\ Phis' = Phis /\ Symbols' = Symbols /\ Entries' = Entries
           /\ \A b : Succs(b)' = Succs(b) /\ Index(b)' = Index(b) /\ End(b)' = End(b)
           /\ \A a, b : Dom(a, b)' = Dom(a, b)
           /\ \A c, i, b, n : Before(c, i, b, n)' = Before(c, i, b, n)
           /\ \A rep, d, x : Symbol(rep, d, x)' = Symbol(rep, d, x)
           /\ \A b : DF(b)' = DF(b)
           /\ \A b, x : Stores(b, x)' = Stores(b, x)
<1>1. Blocks' = Blocks
  BY DEF Blocks
<1>2. Phis' = Phis /\ Symbols' = Symbols
  BY <1>1 DEF Phis, Symbols
<1>3. Entries' = Entries
  BY <1>1 DEF Entries
<1>4. \A b : Succs(b)' = Succs(b) /\ Index(b)' = Index(b) /\ End(b)' = End(b)
  BY DEF Succs, Index, End
<1>5. \A a, b : Dom(a, b)' = Dom(a, b)
  BY DEF Dom
<1>6. \A c, i, b, n : Before(c, i, b, n)' = Before(c, i, b, n)
  BY DEF Before
<1>7. \A rep, d, x : Symbol(rep, d, x)' = Symbol(rep, d, x)
  BY DEF Symbol
<1>8. (\A b : DF(b)' = DF(b)) /\ \A b, x : Stores(b, x)' = Stores(b, x)
  BY DEF DF, Stores
<1> QED BY <1>1, <1>2, <1>3, <1>4, <1>5, <1>6, <1>7, <1>8

\* What is said of definitions stays so while the code and the phis do.
LEMMA SameDefs ==
    ASSUME UNCHANGED <<f, phis>>
    PROVE  /\ \A b, n, x : DefsBefore(b, n, x)' = DefsBefore(b, n, x)
           /\ \A d, b, n, x : Current(d, b, n, x)' = Current(d, b, n, x)
           /\ \A set, x : DefsIn(set, x)' = DefsIn(set, x)
           /\ \A s, rep, set, x : Holds(s, rep, set, x)' = Holds(s, rep, set, x)
           /\ \A rep, b, i, x, l : Replaced(rep, b, i, x, l)' = Replaced(rep, b, i, x, l)
<1>1. \A c, i, x : Def(c, i, x)' = Def(c, i, x)
  BY SameFunction DEF Def
<1>2. \A b, n, x : DefsBefore(b, n, x)' = DefsBefore(b, n, x)
  BY <1>1, SameFunction DEF DefsBefore
<1>3. \A d, b, n, x : Current(d, b, n, x)' = Current(d, b, n, x)
  BY <1>2, SameFunction DEF Current
<1>4. \A set, x : DefsIn(set, x)' = DefsIn(set, x)
  BY <1>1, SameFunction DEF DefsIn
<1>5. \A d, x : Rank(d, x)' = Rank(d, x)
  BY <1>2 DEF Rank
<1>6. \A s, rep, set, x : Holds(s, rep, set, x)' = Holds(s, rep, set, x)
  BY <1>5, SameFunction DEF Holds
<1>7. \A rep, b, i, x, l : Replaced(rep, b, i, x, l)' = Replaced(rep, b, i, x, l)
  BY <1>2, <1>3, SameFunction DEF Replaced
<1> QED BY <1>2, <1>3, <1>4, <1>6, <1>7

\* A block that has been renamed is not pending, nor are those that dominate it.
LEMMA PendingFacts ==
    ASSUME TypeInv, WalkInv
    PROVE  /\ stage = "run" => \A b : ~Pending(b)
           /\ \A a, b : Dom(a, b) /\ Pending(a) => Pending(b)
           /\ stage = "genphi" => \A b : Pending(b)
<1>1. \A a, b : Dom(a, b) /\ Pending(a) => Pending(b)
  BY DomFacts DEF TypeInv, Pending
<1>2. stage = "run" => \A b : ~Pending(b)
  BY DEF WalkInv, InOrder, Pending
<1> QED BY <1>1, <1>2 DEF Pending

\* The initial states satisfy the invariant.
LEMMA InitInv == Init => Inv
<1> SUFFICES ASSUME Init PROVE Inv
  OBVIOUS
<1> USE DEF Init
<1>1. /\ Blocks = 1 .. Len(f.succ) /\ 1 \in Blocks
      /\ \A b \in Blocks : Len(f.code[b]) \in Nat /\ Index(b) = 1 .. Len(f.code[b])
  BY FunctionFacts
<1>2. Uninit \in Symbols /\ Uninit \in Values
  BY DEF Symbols, Values
<1>3. TypeInv
  <2>1. params \in [Blocks \X Var \X Blocks -> Symbols]
    BY <1>2
  <2>2. phis \in [Blocks -> SUBSET Var] /\ walk \in Seq(Entries)
    OBVIOUS
  <2>3. newest_live_var \in [Var -> Seq(Symbols)] /\ replaced \in [LoadId -> Symbols]
    BY <1>2
  <2>4. mem \in [Var -> Values] /\ loaded \in [LoadId -> Values] /\ ssa \in [Phis -> Values]
    BY <1>2
  <2>5. bb \in Blocks /\ k \in 1 .. End(bb)
    BY <1>1 DEF End
  <2> QED BY <2>1, <2>2, <2>3, <2>4, <2>5 DEF TypeInv
<1>4. WalkInv
  BY DEF WalkInv, InOrder
<1>5. StackInv
  <2>1. OpenBlocks = {}
    BY DEF OpenBlocks
  <2>2. \A x : DefsIn({}, x) = {}
    BY DEF DefsIn
  <2>3. \A x \in Var : Holds(<<>>, replaced, {}, x)
    BY FS_EmptySet DEF Holds
  <2> QED BY <2>1, <2>2, <2>3 DEF StackInv
<1>6. PhiInv
  BY DEF PhiInv
<1>7. \A b : Pending(b)
  BY DEF Pending
<1>8. LoadInv
  <2> SUFFICES ASSUME NEW b \in Blocks, NEW i \in Index(b), ~f.code[b][i].isStore
               PROVE  replaced[f.code[b][i].val] = Uninit
    BY <1>7 DEF LoadInv
  <2>1. IsLoad(b, i, f.code[b][i].var, f.code[b][i].val)
    BY DEF IsLoad
  <2>2. f.code[b][i].val \in LoadId
    BY <2>1, LoadFacts
  <2> QED BY <2>2
<1>9. ParamInv
  BY <1>7 DEF ParamInv
<1>10. RunInv
  BY DEF RunInv
<1> QED BY <1>3, <1>4, <1>5, <1>6, <1>8, <1>9, <1>10 DEF Inv

\* A step of GenPhi keeps the invariant.
LEMMA GenPhiInv == Inv /\ GenPhi => Inv'
<1> SUFFICES ASSUME Inv, GenPhi PROVE Inv'
  OBVIOUS
<1> DEFINE blocks == [x \in Var |-> IF Global(x) THEN PhiBlocks(x) ELSE {}]
<1>1. /\ f \in Functions /\ f' = f /\ stage = "genphi" /\ stage' = "rename"
      /\ walk = <<>> /\ walk' = <<[call |-> TRUE, block |-> 1]>>
      /\ UNCHANGED <<newest_live_var, replaced, params, bb, k, mem, loaded, ssa>>
  BY DEF Inv, TypeInv, WalkInv, InOrder, GenPhi, run
<1>2. phis' = [b \in Blocks |-> {x \in Var : b \in blocks[x]}]
  BY DEF GenPhi
<1>3. /\ Blocks' = Blocks /\ Phis' = Phis /\ Symbols' = Symbols /\ Entries' = Entries
      /\ \A b : Index(b)' = Index(b) /\ End(b)' = End(b) /\ DF(b)' = DF(b)
      /\ \A a, b : Dom(a, b)' = Dom(a, b)
      /\ \A b, x : Stores(b, x)' = Stores(b, x)
  BY <1>1, SameFunction
<1>4. 1 \in Blocks
  BY <1>1, FunctionFacts
<1>5. DOMAIN walk' = {1} /\ walk'[1].call /\ walk'[1].block = 1
  BY <1>1
<1>6. TypeInv'
  <2>1. phis' \in [Blocks -> SUBSET Var]
    BY <1>2
  <2>2. walk' \in Seq(Entries)
    BY <1>1, <1>4 DEF Entries
  <2> QED BY <1>1, <1>3, <2>1, <2>2 DEF Inv, TypeInv
<1>7. WalkInv'
  <2>1. \A a : a \in Blocks /\ Dom(a, 1) => a = 1
    BY <1>1, <1>4, DomFacts
  <2> QED BY <1>1, <1>3, <1>5, <2>1 DEF WalkInv, InOrder
<1>8. StackInv'
  <2>1. OpenBlocks = {} /\ OpenBlocks' = {}
    BY <1>1, <1>5 DEF OpenBlocks
  <2>2. \A x : DefsIn({}, x) = {} /\ DefsIn({}, x)' = {}
    BY DEF DefsIn
  <2>3. \A x \in Var : Len(newest_live_var[x]) = 0
    BY <2>1, <2>2, FS_EmptySet DEF Inv, StackInv, Holds
  <2> SUFFICES ASSUME NEW x \in Var
               PROVE  Holds(newest_live_var[x], replaced, DefsIn(OpenBlocks, x), x)'
    BY DEF StackInv
  <2>4. DefsIn(OpenBlocks, x)' = {}
    BY <2>1, <2>2
  <2>5. Len(newest_live_var'[x]) = 0 /\ Cardinality({}) = 0
    BY <1>1, <2>3, FS_EmptySet
  <2> QED BY <2>4, <2>5 DEF Holds
<1>9. PhiInv'
  <2> SUFFICES ASSUME NEW c \in Blocks, NEW x \in Var, Stores(c, x) \/ x \in phis'[c],
                      NEW s \in DF(c)
               PROVE  x \in phis'[s]
    BY <1>3 DEF PhiInv
  <2>1. s \in Blocks
    BY DEF DF, FrontierOf, Blocks
  <2>2. \A d \in Blocks : x \in phis'[d] <=> Global(x) /\ d \in PhiBlocks(x)
    BY <1>2
  <2>3. Global(x)
    <3>1. CASE x \in phis'[c]
      BY <2>2, <3>1
    <3>2. CASE Stores(c, x)
      <4>1. PICK i \in DOMAIN f.code[c] : f.code[c][i].isStore /\ f.code[c][i].var = x
        BY <3>2 DEF Stores
      <4>2. \A j \in Index(c) : f.code[c][j] \in Instruction
        BY <1>1, FunctionFacts
      <4>3. Index(c) = 1 .. Len(f.code[c]) /\ Len(f.code[c]) \in Nat
        BY <1>1, FunctionFacts
      <4>4. \A j \in 1 .. i - 1 : f.code[c][j].var \in Var
        BY <4>2, <4>3 DEF Index, Instruction
      <4>5. f.code[c][i].val \in Const \cup LoadId
        BY <4>1, <4>2 DEF Index, Instruction
      <4>6. f.code[c][i].val \notin {f.code[c][j].var : j \in {h \in 1 .. i - 1 : f.code[c][h].isStore}}
        BY <4>4, <4>5, NameAssumption
      <4> QED BY <4>1, <4>6 DEF Global
    <3> QED BY <3>1, <3>2
  <2>4. DF(c) \subseteq PhiBlocks(x)
    BY <1>1, <2>2, PhisAreClosed
  <2> QED BY <2>1, <2>2, <2>3, <2>4
<1>10. \A b : Pending(b) /\ Pending(b)'
  <2>1. \A b : Pending(b)
    BY <1>1 DEF Pending
  <2>2. \A b : Dom(1, b)
    BY <1>1, DomFacts
  <2>3. \A b : Dom(1, b)'
    BY <1>3, <2>2
  <2>4. \A b : Pending(b)'
    BY <1>5, <2>3 DEF Pending
  <2> QED BY <2>1, <2>4
<1>11. LoadInv'
  BY <1>1, <1>3, <1>10 DEF Inv, LoadInv
<1>12. ParamInv'
  BY <1>10 DEF ParamInv
<1>13. RunInv'
  BY <1>1 DEF Inv, RunInv
<1> QED BY <1>6, <1>7, <1>8, <1>9, <1>11, <1>12, <1>13 DEF Inv

\* A step of StartRun keeps the invariant.
LEMMA StartRunInv == Inv /\ StartRun => Inv'
<1> SUFFICES ASSUME Inv, StartRun PROVE Inv'
  OBVIOUS
<1>1. /\ f \in Functions /\ stage = "rename" /\ stage' = "run" /\ walk = <<>>
      /\ UNCHANGED <<f, phis, walk, newest_live_var, replaced, params, bb, k, mem, loaded, ssa>>
  BY DEF Inv, TypeInv, StartRun, run
<1>2. /\ Blocks' = Blocks /\ Phis' = Phis /\ Symbols' = Symbols /\ Entries' = Entries
      /\ \A b : Succs(b)' = Succs(b) /\ Index(b)' = Index(b) /\ End(b)' = End(b)
      /\ \A b : DF(b)' = DF(b)
      /\ \A a, b : Dom(a, b)' = Dom(a, b)
      /\ \A c, i, b, n : Before(c, i, b, n)' = Before(c, i, b, n)
      /\ \A b, x : Stores(b, x)' = Stores(b, x)
      /\ \A rep, d, x : Symbol(rep, d, x)' = Symbol(rep, d, x)
  BY <1>1, SameFunction
<1>3. TypeInv'
  BY <1>1, <1>2 DEF Inv, TypeInv
<1>4. WalkInv'
  BY <1>1, <1>2 DEF WalkInv, InOrder
<1>5. StackInv'
  <2>1. OpenBlocks' = OpenBlocks
    BY <1>1 DEF OpenBlocks
  <2> QED BY <1>1, <2>1, SameDefs DEF Inv, StackInv
<1>6. PhiInv'
  BY <1>1, <1>2 DEF Inv, PhiInv
<1>7. \A b : ~Pending(b) /\ ~Pending(b)'
  BY <1>1 DEF Pending
<1>8. LoadInv'
  <2>1. \A rep, b, i, x, l : Replaced(rep, b, i, x, l)' = Replaced(rep, b, i, x, l)
    BY <1>1, SameDefs
  <2> QED BY <1>1, <1>2, <1>7, <2>1 DEF Inv, LoadInv
<1>9. ParamInv'
  <2>1. /\ \A b, n, x : DefsBefore(b, n, x)' = DefsBefore(b, n, x)
        /\ \A d, b, n, x : Current(d, b, n, x)' = Current(d, b, n, x)
    BY <1>1, SameDefs
  <2> QED BY <1>1, <1>2, <1>7, <2>1 DEF Inv, ParamInv
<1>10. RunInv'
  <2>1. mem' = [x \in Var |-> Uninit] /\ loaded' = [l \in LoadId |-> Uninit]
    BY <1>1 DEF Inv, RunInv
  <2>2. MemInv'
    BY <2>1 DEF MemInv
  <2>3. LoadedInv'
    <3> SUFFICES ASSUME NEW b \in Blocks, NEW i \in Index(b), ~f.code[b][i].isStore
                 PROVE  loaded'[f.code[b][i].val] = Uninit
      BY <1>1, <1>2 DEF LoadedInv
    <3>1. IsLoad(b, i, f.code[b][i].var, f.code[b][i].val)
      BY DEF IsLoad
    <3>2. f.code[b][i].val \in LoadId
      BY <1>1, <3>1, LoadFacts
    <3> QED BY <2>1, <3>2
  <2> QED BY <1>1, <2>2, <2>3 DEF RunInv
<1> QED BY <1>3, <1>4, <1>5, <1>6, <1>8, <1>9, <1>10 DEF Inv

-----------------------------------------------------------------------------
(* The run *)

\* A step of the run leaves what renaming made alone.
LEMMA RunStepKeeps ==
    ASSUME Inv, UNCHANGED <<f, stage, phis, walk, newest_live_var, replaced, params>>
    PROVE  WalkInv' /\ StackInv' /\ PhiInv' /\ LoadInv' /\ ParamInv'
<1>1. /\ Blocks' = Blocks
      /\ \A b : Succs(b)' = Succs(b) /\ Index(b)' = Index(b) /\ End(b)' = End(b)
      /\ \A b : DF(b)' = DF(b)
      /\ \A a, b : Dom(a, b)' = Dom(a, b)
      /\ \A b, x : Stores(b, x)' = Stores(b, x)
      /\ \A rep, d, x : Symbol(rep, d, x)' = Symbol(rep, d, x)
  BY SameFunction
<1>2. /\ \A b, n, x : DefsBefore(b, n, x)' = DefsBefore(b, n, x)
      /\ \A d, b, n, x : Current(d, b, n, x)' = Current(d, b, n, x)
      /\ \A rep, b, i, x, l : Replaced(rep, b, i, x, l)' = Replaced(rep, b, i, x, l)
  BY SameDefs
<1>3. WalkInv'
  BY <1>1 DEF Inv, WalkInv, InOrder
<1>4. StackInv'
  <2>1. OpenBlocks' = OpenBlocks
    BY DEF OpenBlocks
  <2> QED BY <2>1, SameDefs DEF Inv, StackInv
<1>5. PhiInv'
  BY <1>1 DEF Inv, PhiInv
<1>6. \A b : Pending(b)' = Pending(b)
  BY <1>1 DEF Pending
<1>7. LoadInv'
  BY <1>1, <1>2, <1>6 DEF Inv, LoadInv
<1>8. ParamInv'
  BY <1>1, <1>2, <1>6 DEF Inv, ParamInv
<1> QED BY <1>3, <1>4, <1>5, <1>7, <1>8

\* A definition's value, when its block has been renamed.
LEMMA SymbolFacts ==
    ASSUME Inv, NEW x \in Var, NEW d \in Blocks \X Nat, Def(d[1], d[2], x), ~Pending(d[1])
    PROVE  /\ Symbol(replaced, d, x) \in Symbols
           /\ \A e \in Blocks : \A y \in Var : Symbol(replaced, d, x) = Phi(e, y) => Dom(e, d[1])
<1> DEFINE v == f.code[d[1]][d[2]].val
<1>1. f \in Functions /\ replaced \in [LoadId -> Symbols] /\ d[1] \in Blocks /\ d[2] \in Nat
  BY DEF Inv, TypeInv
<1>2. CASE d[2] = 0
  <2>1. Symbol(replaced, d, x) = Phi(d[1], x)
    BY <1>2 DEF Symbol
  <2>2. \A e, y : Phi(e, y) = Phi(d[1], x) => e = d[1]
    BY DEF Phi
  <2>3. Dom(d[1], d[1])
    BY <1>1, DomFacts
  <2> QED BY <1>1, <2>1, <2>2, <2>3 DEF Symbols, Phis
<1>3. CASE d[2] # 0
  <2>1. Symbol(replaced, d, x) = Operand(replaced, v) /\ d[2] \in Index(d[1]) /\ f.code[d[1]][d[2]].isStore
    BY <1>1, <1>3, FunctionFacts DEF Symbol, Def
  <2>2. CASE v \in Const \ LoadId
    <3>1. Symbol(replaced, d, x) = v
      BY <2>1, <2>2 DEF Operand
    <3>2. \A e \in Blocks : \A y \in Var : Phi(e, y) # v
      BY <1>1, <2>2, PhiFacts
    <3> QED BY <2>2, <3>1, <3>2 DEF Symbols
  <2>3. CASE v \in LoadId /\ \E c, j, y : IsLoad(c, j, y, v) /\ Before(c, j, d[1], d[2])
    <3>1. PICK c, j, y : IsLoad(c, j, y, v) /\ Before(c, j, d[1], d[2])
      BY <2>3
    <3>2. c \in Blocks /\ j \in Index(c) /\ ~f.code[c][j].isStore /\ f.code[c][j].val = v
      BY <3>1 DEF IsLoad
    <3>3. Dom(c, d[1])
      BY <1>1, <3>1, DomFacts DEF Before, Precedes, Dom
    <3>4. ~Pending(c)
      BY <3>3, PendingFacts DEF Inv
    <3>5. Replaced(replaced, c, j, f.code[c][j].var, v)
      BY <3>2, <3>4 DEF Inv, LoadInv
    <3>6. \A e \in Blocks : \A z \in Var : replaced[v] = Phi(e, z) => Dom(e, d[1])
      BY <1>1, <3>3, <3>5, DomFacts DEF Replaced
    <3>7. Symbol(replaced, d, x) = replaced[v]
      BY <2>1, <2>3 DEF Operand
    <3> QED BY <1>1, <2>3, <3>6, <3>7
  <2> QED BY <1>1, <2>1, <2>2, <2>3, LoadFacts
<1> QED BY <1>2, <1>3

\* What a symbol stands for during the run.
LEMMA ContentFacts ==
    ASSUME TypeInv
    PROVE  /\ \A v \in Const : Content(v) = v
           /\ \A v \in Phis : Content(v) = ssa[v]
           /\ \A v \in Symbols : Content(v) \in Values
<1>1. f \in Functions /\ DOMAIN ssa = Phis /\ ssa \in [Phis -> Values]
  BY DEF TypeInv
<1>2. \A v \in Phis : v \notin Const
  BY <1>1, PhiFacts DEF Phis
<1>3. \A v \in Const : Content(v) = v
  BY <1>1, <1>2 DEF Content
<1>4. \A v \in Phis : Content(v) = ssa[v]
  BY <1>1, <1>2 DEF Content
<1>5. \A v : v \notin Const /\ v \notin Phis => Content(v) = Uninit
  BY <1>1 DEF Content
<1> QED BY <1>1, <1>3, <1>4, <1>5 DEF Symbols, Values

\* At run time every block has been renamed.
LEMMA RunFacts ==
    ASSUME Inv, stage = "run"
    PROVE  /\ f \in Functions /\ bb \in Blocks /\ k \in Nat
           /\ \A b \in Blocks : \A i \in Index(b) : ~f.code[b][i].isStore =>
                Replaced(replaced, b, i, f.code[b][i].var, f.code[b][i].val)
           /\ \A x \in Var : \A d \in Blocks \X Nat : Def(d[1], d[2], x) =>
                /\ Symbol(replaced, d, x) \in Symbols
                /\ \A e \in Blocks : \A y \in Var : Symbol(replaced, d, x) = Phi(e, y) => Dom(e, d[1])
           /\ \A b \in Blocks : \A s \in Succs(b) : \A x \in phis[s] : \A d \in DefsBefore(b, End(b), x) :
                Current(d, b, End(b), x) => params[<<s, x, b>>] = Symbol(replaced, d, x)
<1>1. \A b : ~Pending(b)
  BY PendingFacts DEF Inv
<1>2. f \in Functions /\ bb \in Blocks /\ k \in Nat
  BY FunctionFacts DEF Inv, TypeInv, End
<1>3. \A b \in Blocks : \A i \in Index(b) : ~f.code[b][i].isStore =>
        Replaced(replaced, b, i, f.code[b][i].var, f.code[b][i].val)
  BY <1>1 DEF Inv, LoadInv
<1>4. \A x \in Var : \A d \in Blocks \X Nat : Def(d[1], d[2], x) =>
        /\ Symbol(replaced, d, x) \in Symbols
        /\ \A e \in Blocks : \A y \in Var : Symbol(replaced, d, x) = Phi(e, y) => Dom(e, d[1])
  BY <1>1, SymbolFacts
<1>5. \A b \in Blocks : \A s \in Succs(b) : \A x \in phis[s] : \A d \in DefsBefore(b, End(b), x) :
        Current(d, b, End(b), x) => params[<<s, x, b>>] = Symbol(replaced, d, x)
  BY <1>1 DEF Inv, ParamInv
<1> QED BY <1>2, <1>3, <1>4, <1>5

\* A step of Execute keeps the invariant.
LEMMA ExecuteInv == Inv /\ Execute => Inv'
<1> SUFFICES ASSUME Inv, Execute PROVE Inv'
  OBVIOUS
<1> DEFINE inst == f.code[bb][k]
<1>1. /\ stage = "run" /\ k <= Len(f.code[bb])
      /\ UNCHANGED <<f, stage, phis, walk, newest_live_var, replaced, params, bb, ssa>>
      /\ k' = k + 1
  BY DEF Execute
<1>2. /\ f \in Functions /\ bb \in Blocks /\ k \in Nat
      /\ mem \in [Var -> Values] /\ loaded \in [LoadId -> Values]
  BY <1>1, RunFacts DEF Inv, TypeInv
<1>3. Len(f.code[bb]) \in Nat /\ k \in Index(bb) /\ inst \in Instruction /\ k \in 1 .. End(bb)
  BY <1>1, <1>2, FunctionFacts DEF Inv, TypeInv, End
<1>4. inst.var \in Var /\ inst.val \in Const \cup LoadId
  BY <1>3 DEF Instruction
<1>5. /\ Blocks' = Blocks /\ Phis' = Phis /\ Symbols' = Symbols /\ Entries' = Entries
      /\ \A b : Index(b)' = Index(b) /\ End(b)' = End(b)
      /\ \A c, i, b, n : Before(c, i, b, n)' = Before(c, i, b, n)
      /\ \A rep, d, x : Symbol(rep, d, x)' = Symbol(rep, d, x)
  BY <1>1, SameFunction
<1>6. /\ \A b, n, x : DefsBefore(b, n, x)' = DefsBefore(b, n, x)
      /\ \A d, b, n, x : Current(d, b, n, x)' = Current(d, b, n, x)
  BY <1>1, SameDefs
<1>7. \A v : Content(v)' = Content(v)
  BY <1>1 DEF Content
<1>8. MemInv /\ LoadedInv
  BY <1>1 DEF Inv, RunInv
\* What the step does to the variables, the loads and the definitions seen.
<1>9. CASE inst.isStore
  <2>1. /\ mem' = [mem EXCEPT ![inst.var] =
                     IF inst.val \in LoadId THEN loaded[inst.val] ELSE inst.val]
        /\ loaded' = loaded
    BY <1>9 DEF Execute
  <2>2. TypeInv'
    <3>1. mem' \in [Var -> Values]
      BY <1>2, <1>4, <2>1 DEF Values
    <3>2. k + 1 \in 1 .. End(bb)
      BY <1>1, <1>3 DEF End
    <3> QED BY <1>1, <1>5, <2>1, <3>1, <3>2 DEF Inv, TypeInv
  <2>3. MemInv'
    <3> SUFFICES ASSUME NEW x \in Var, mem'[x] # Uninit
                 PROVE  \E d \in DefsBefore(bb, k + 1, x) :
                          Current(d, bb, k + 1, x) /\ Content(Symbol(replaced, d, x)) = mem'[x]
      BY <1>1, <1>5, <1>6, <1>7 DEF MemInv
    <3>1. CASE x = inst.var
      <4> DEFINE d == <<bb, k>>
      <4>1. Def(bb, k, x)
        BY <1>2, <1>3, <1>9, <3>1 DEF Def
      <4>2. DefsBefore(bb, k + 1, x) = DefsBefore(bb, k, x) \cup {d}
        BY <1>2, <4>1, NextDefs
      <4>3. \A e \in DefsBefore(bb, k, x) : Before(e[1], e[2], bb, k)
        BY DEF DefsBefore
      <4>4. Current(d, bb, k + 1, x)
        BY <4>2, <4>3 DEF Current
      <4>5. k # 0
        BY <1>3
      <4>6. Symbol(replaced, d, x) = Operand(replaced, inst.val)
        BY <4>5 DEF Symbol
      <4>7. mem'[x] = IF inst.val \in LoadId THEN loaded[inst.val] ELSE inst.val
        BY <1>2, <2>1, <3>1
      <4>8. Content(Operand(replaced, inst.val)) = mem'[x]
        <5>1. CASE inst.val \in Const \ LoadId
          BY <4>7, <5>1, ContentFacts DEF Inv, Operand
        <5>2. CASE inst.val \in LoadId /\ \E c, j, y : IsLoad(c, j, y, inst.val) /\ Before(c, j, bb, k)
          <6>1. PICK c, j, y : IsLoad(c, j, y, inst.val) /\ Before(c, j, bb, k)
            BY <5>2
          <6>2. c \in Blocks /\ j \in Index(c) /\ ~f.code[c][j].isStore /\ f.code[c][j].val = inst.val
            BY <6>1 DEF IsLoad
          <6>3. loaded[inst.val] # Uninit
            BY <3>1, <4>7, <5>2
          <6>4. Content(replaced[inst.val]) = loaded[inst.val]
            BY <1>8, <6>1, <6>2, <6>3 DEF LoadedInv
          <6> QED BY <4>7, <5>2, <6>4 DEF Operand
        <5> QED BY <1>2, <1>3, <1>9, <5>1, <5>2, LoadFacts
      <4> QED BY <4>2, <4>4, <4>6, <4>8
    <3>2. CASE x # inst.var
      <4>1. ~Def(bb, k, x)
        BY <1>3, <3>2 DEF Def
      <4>2. DefsBefore(bb, k + 1, x) = DefsBefore(bb, k, x)
        <5>1. DefsBefore(bb, k + 1, x) = DefsBefore(bb, k, x) \cup {}
          BY <1>2, <4>1, NextDefs
        <5> QED BY <5>1
      <4>3. mem'[x] = mem[x]
        BY <1>2, <2>1, <3>2
      <4>4. PICK d \in DefsBefore(bb, k, x) :
                   Current(d, bb, k, x) /\ Content(Symbol(replaced, d, x)) = mem[x]
        BY <1>8, <4>3 DEF MemInv
      <4> QED BY <4>2, <4>3, <4>4 DEF Current
    <3> QED BY <3>1, <3>2
  <2>4. LoadedInv'
    <3> SUFFICES ASSUME NEW b \in Blocks, NEW i \in Index(b), ~f.code[b][i].isStore,
                        Before(b, i, bb, k + 1), loaded[f.code[b][i].val] # Uninit
                 PROVE  Content(replaced[f.code[b][i].val]) = loaded[f.code[b][i].val]
      BY <1>1, <1>5, <1>7, <2>1 DEF LoadedInv
    <3>1. i \in Nat
      BY <1>2, FunctionFacts
    <3>2. Before(b, i, bb, k)
      BY <1>2, <1>9, <3>1 DEF Before, Precedes
    <3> QED BY <1>8, <3>2 DEF LoadedInv
  <2> QED BY <1>1, <2>2, <2>3, <2>4, RunStepKeeps DEF Inv, RunInv
<1>10. CASE ~inst.isStore
  <2>1. loaded' = [loaded EXCEPT ![inst.val] = mem[inst.var]] /\ mem' = mem
    BY <1>10 DEF Execute
  <2>2. IsLoad(bb, k, inst.var, inst.val)
    BY <1>2, <1>3, <1>10 DEF IsLoad
  <2>3. inst.val \in LoadId
    BY <1>2, <2>2, LoadFacts
  <2>4. TypeInv'
    <3>1. loaded' \in [LoadId -> Values]
      BY <1>2, <1>4, <2>1
    <3>2. k + 1 \in 1 .. End(bb)
      BY <1>1, <1>3 DEF End
    <3> QED BY <1>1, <1>5, <2>1, <3>1, <3>2 DEF Inv, TypeInv
  <2>5. MemInv'
    <3> SUFFICES ASSUME NEW x \in Var, mem[x] # Uninit
                 PROVE  \E d \in DefsBefore(bb, k + 1, x) :
                          Current(d, bb, k + 1, x) /\ Content(Symbol(replaced, d, x)) = mem[x]
      BY <1>1, <1>5, <1>6, <1>7, <2>1 DEF MemInv
    <3>1. ~Def(bb, k, x)
      BY <1>3, <1>10 DEF Def
    <3>2. DefsBefore(bb, k + 1, x) = DefsBefore(bb, k, x)
      <4>1. DefsBefore(bb, k + 1, x) = DefsBefore(bb, k, x) \cup {}
        BY <1>2, <3>1, NextDefs
      <4> QED BY <4>1
    <3>3. PICK d \in DefsBefore(bb, k, x) :
                 Current(d, bb, k, x) /\ Content(Symbol(replaced, d, x)) = mem[x]
      BY <1>8 DEF MemInv
    <3> QED BY <3>2, <3>3 DEF Current
  <2>6. LoadedInv'
    <3> SUFFICES ASSUME NEW b \in Blocks, NEW i \in Index(b), ~f.code[b][i].isStore,
                        Before(b, i, bb, k + 1), loaded'[f.code[b][i].val] # Uninit
                 PROVE  Content(replaced[f.code[b][i].val]) = loaded'[f.code[b][i].val]
      BY <1>1, <1>5, <1>7 DEF LoadedInv
    <3>1. i \in Nat
      BY <1>2, FunctionFacts
    <3>2. IsLoad(b, i, f.code[b][i].var, f.code[b][i].val)
      BY DEF IsLoad
    <3>3. CASE f.code[b][i].val = inst.val
      <4>1. b = bb /\ i = k
        BY <1>2, <2>2, <3>2, <3>3, LoadFacts
      <4>2. mem[inst.var] # Uninit /\ loaded'[inst.val] = mem[inst.var]
        BY <1>2, <2>1, <2>3, <3>3
      <4>3. PICK d \in DefsBefore(bb, k, inst.var) :
                   Current(d, bb, k, inst.var) /\ Content(Symbol(replaced, d, inst.var)) = mem[inst.var]
        BY <1>4, <1>8, <4>2 DEF MemInv
      <4>4. replaced[inst.val] = Symbol(replaced, d, inst.var)
        BY <1>1, <1>2, <1>3, <1>10, <4>3, RunFacts DEF Replaced
      <4> QED BY <3>3, <4>2, <4>3, <4>4
    <3>4. CASE f.code[b][i].val # inst.val
      <4>1. f.code[b][i].val \in LoadId
        BY <1>2, <3>2, LoadFacts
      <4>2. loaded'[f.code[b][i].val] = loaded[f.code[b][i].val]
        BY <1>2, <2>1, <3>4, <4>1
      <4>3. ~(b = bb /\ i = k)
        BY <3>4
      <4>4. Before(b, i, bb, k)
        BY <1>2, <3>1, <4>3 DEF Before, Precedes
      <4> QED BY <1>8, <4>2, <4>4 DEF LoadedInv
    <3> QED BY <3>3, <3>4
  <2> QED BY <1>1, <2>4, <2>5, <2>6, RunStepKeeps DEF Inv, RunInv
<1> QED BY <1>9, <1>10

\* A step of Branch keeps the invariant.
LEMMA BranchInv == ASSUME NEW s \in Blocks, Inv, Branch(s) PROVE Inv'
<1>1. /\ stage = "run" /\ k > Len(f.code[bb]) /\ s \in SuccsOf(f.succ, bb)
      /\ UNCHANGED <<f, stage, phis, walk, newest_live_var, replaced, params, mem, loaded>>
      /\ bb' = s /\ k' = 1
      /\ ssa' = [v \in DOMAIN ssa |-> IF v[2] = s /\ v[3] \in phis[s]
                                      THEN Content(params[<<s, v[3], bb>>]) ELSE ssa[v]]
  BY DEF Branch
<1>2. /\ f \in Functions /\ bb \in Blocks /\ k \in Nat /\ k \in 1 .. End(bb)
      /\ phis \in [Blocks -> SUBSET Var] /\ params \in [Blocks \X Var \X Blocks -> Symbols]
      /\ ssa \in [Phis -> Values]
  BY <1>1, RunFacts DEF Inv, TypeInv
<1>3. /\ \A b \in Blocks : Len(f.code[b]) \in Nat /\ Index(b) = 1 .. Len(f.code[b])
      /\ s \in Succs(bb)
  BY <1>1, <1>2, FunctionFacts DEF Succs
<1>4. k = End(bb)
  BY <1>1, <1>2, <1>3 DEF End
<1>5. /\ Blocks' = Blocks /\ Phis' = Phis /\ Symbols' = Symbols /\ Entries' = Entries
      /\ \A b : Index(b)' = Index(b) /\ End(b)' = End(b)
      /\ \A c, i, b, n : Before(c, i, b, n)' = Before(c, i, b, n)
      /\ \A rep, d, x : Symbol(rep, d, x)' = Symbol(rep, d, x)
  BY <1>1, SameFunction
<1>6. /\ \A b, n, x : DefsBefore(b, n, x)' = DefsBefore(b, n, x)
      /\ \A d, b, n, x : Current(d, b, n, x)' = Current(d, b, n, x)
  BY <1>1, SameDefs
<1>7. MemInv /\ LoadedInv
  BY <1>1 DEF Inv, RunInv
<1>8. TypeInv'
  <2>1. \A v \in Phis : v[2] = s /\ v[3] \in phis[s] => Content(params[<<s, v[3], bb>>]) \in Values
    BY <1>2, ContentFacts DEF Inv
  <2>2. ssa' \in [Phis -> Values]
    BY <1>1, <1>2, <2>1
  <2>3. bb' \in Blocks /\ k' \in 1 .. End(s)
    BY <1>1, <1>3 DEF End
  <2> QED BY <1>1, <1>5, <2>2, <2>3 DEF Inv, TypeInv
\* What a value is changes for the phis of s only.
<1>9. /\ \A x \in phis[s] : Content(Phi(s, x))' = Content(params[<<s, x, bb>>])
      /\ \A v \in Symbols : (\A x \in Var : v # Phi(s, x)) => Content(v)' = Content(v)
  <2>1. \A x \in phis[s] : /\ Phi(s, x) \in Phis /\ Phi(s, x) \notin Const
                           /\ Phi(s, x)[2] = s /\ Phi(s, x)[3] = x
    BY <1>2, PhiFacts DEF Phis, Phi
  <2>2. ASSUME NEW x \in phis[s] PROVE Content(Phi(s, x))' = Content(params[<<s, x, bb>>])
    <3>1. ssa'[Phi(s, x)] = Content(params[<<s, x, bb>>])
      BY <1>1, <1>2, <2>1
    <3>2. DOMAIN ssa' = Phis
      BY <1>1, <1>2
    <3>3. Content(Phi(s, x))' = ssa'[Phi(s, x)]
      BY <2>1, <3>2 DEF Content
    <3> QED BY <3>1, <3>3
  <2>3. ASSUME NEW v \in Symbols, \A x \in Var : v # Phi(s, x) PROVE Content(v)' = Content(v)
    <3>1. DOMAIN ssa' = DOMAIN ssa /\ DOMAIN ssa = Phis
      BY <1>1, <1>2
    <3>2. v \in Phis => v[2] # s
      BY <2>3 DEF Phis, Phi
    <3>3. v \in Phis => ssa'[v] = ssa[v]
      BY <1>1, <3>1, <3>2
    <3> QED BY <3>1, <3>3 DEF Content
  <2> QED BY <2>2, <2>3
<1>10. \A a \in Blocks : a # s /\ Dom(a, s) => Dom(a, bb) /\ ~Dom(s, a)
  BY <1>2, <1>3, DomFacts
<1>11. MemInv'
  <2> SUFFICES ASSUME NEW x \in Var, mem[x] # Uninit
               PROVE  \E d \in DefsBefore(s, 1, x) :
                        Current(d, s, 1, x) /\ Content(Symbol(replaced, d, x))' = mem[x]
    BY <1>1, <1>5, <1>6 DEF MemInv
  <2>1. PICK d \in DefsBefore(bb, End(bb), x) :
               Current(d, bb, End(bb), x) /\ Content(Symbol(replaced, d, x)) = mem[x]
    BY <1>4, <1>7 DEF MemInv
  <2>2. d \in Blocks \X Nat /\ Def(d[1], d[2], x) /\ Before(d[1], d[2], bb, End(bb))
    BY DEF DefsBefore
  <2>3. d[1] \in Blocks /\ d[2] \in Nat
    BY <2>2
  <2>4. \A e \in DefsBefore(s, 1, x) :
          /\ e \in Blocks \X Nat /\ Def(e[1], e[2], x) /\ e[1] \in Blocks
          /\ IF e[1] = s THEN e[2] = 0 /\ x \in phis[s] ELSE Dom(e[1], s)
    <3> SUFFICES ASSUME NEW e \in DefsBefore(s, 1, x)
                 PROVE  IF e[1] = s THEN e[2] = 0 /\ x \in phis[s] ELSE Dom(e[1], s)
      BY DEF DefsBefore
    <3>1. e[1] \in Blocks /\ e[2] \in Nat /\ Def(e[1], e[2], x) /\ Before(e[1], e[2], s, 1)
      BY DEF DefsBefore
    <3>2. CASE e[1] = s
      <4>1. e[2] = 0
        BY <3>1, <3>2 DEF Before, Precedes
      <4>2. 0 \notin Index(s)
        BY <1>3
      <4> QED BY <3>1, <3>2, <4>1, <4>2 DEF Def
    <3>3. CASE e[1] # s
      BY <3>1, <3>3 DEF Before, Precedes, Dom
    <3> QED BY <3>2, <3>3
  <2>5. CASE x \in phis[s]
    <3> DEFINE p == <<s, 0>>
    <3>1. p \in Blocks \X Nat /\ p[1] = s /\ p[2] = 0
      OBVIOUS
    <3> HIDE DEF p
    <3>2. p \in DefsBefore(s, 1, x)
      BY <2>5, <3>1 DEF DefsBefore, Def, Before, Precedes
    <3>3. ASSUME NEW e \in DefsBefore(s, 1, x) PROVE e = p \/ Before(e[1], e[2], p[1], p[2])
      <4>1. CASE e[1] = s
        BY <2>4, <3>1, <4>1
      <4>2. CASE e[1] # s
        BY <2>4, <3>1, <4>2 DEF Before, Precedes, Dom
      <4> QED BY <4>1, <4>2
    <3>4. Current(p, s, 1, x)
      BY <3>2, <3>3 DEF Current
    <3>5. params[<<s, x, bb>>] = Symbol(replaced, d, x)
      BY <1>1, <1>2, <1>3, <2>1, <2>5, RunFacts
    <3>6. Symbol(replaced, p, x) = Phi(s, x)
      BY <3>1 DEF Symbol
    <3>7. Content(Symbol(replaced, p, x))' = Content(params[<<s, x, bb>>])
      <4>1. PICK w : w = Phi(s, x)
        OBVIOUS
      <4>2. Symbol(replaced, p, x)' = w
        BY <1>1, <1>5, <3>6, <4>1
      <4>3. Content(w)' = Content(params[<<s, x, bb>>])
        BY <1>9, <2>5, <4>1
      <4> QED BY <4>2, <4>3
    <3> QED BY <2>1, <3>2, <3>4, <3>5, <3>7
  <2>6. CASE x \notin phis[s]
    <3>1. d[1] # s /\ Dom(d[1], s)
      <4>1. Stores(d[1], x) \/ x \in phis[d[1]]
        BY <2>2 DEF Def, Index, Stores
      <4>2. s \notin DF(d[1])
        BY <1>1, <2>3, <2>6, <4>1 DEF Inv, PhiInv
      <4>3. Dom(d[1], bb)
        BY <1>2, <2>2, DomFacts DEF Before, Precedes, Dom
      <4>4. bb \in PredsOf(f.succ, s)
        BY <1>1, <1>2 DEF PredsOf, Blocks
      <4> QED BY <4>2, <4>3, <4>4 DEF DF, FrontierOf, Dom, Blocks
    <3>2. d \in DefsBefore(s, 1, x)
      BY <2>2, <3>1 DEF DefsBefore, Before, Precedes, Dom
    <3>3. ASSUME NEW e \in DefsBefore(s, 1, x) PROVE e = d \/ Before(e[1], e[2], d[1], d[2])
      <4>1. e \in Blocks \X Nat /\ Def(e[1], e[2], x) /\ e[1] \in Blocks /\ e[1] # s /\ Dom(e[1], s)
        BY <2>4, <2>6
      <4>2. Dom(e[1], bb)
        BY <1>10, <4>1
      <4>3. e[2] < End(bb) \/ e[1] # bb
        BY <1>2, <1>3, <4>1 DEF Def, End
      <4>4. Before(e[1], e[2], bb, End(bb))
        BY <4>2, <4>3 DEF Before, Precedes, Dom
      <4>5. e \in DefsBefore(bb, End(bb), x)
        BY <4>1, <4>4 DEF DefsBefore
      <4> QED BY <2>1, <4>5 DEF Current
    <3>4. Current(d, s, 1, x)
      BY <3>2, <3>3 DEF Current
    <3>5. /\ Symbol(replaced, d, x) \in Symbols
          /\ \A y \in Var : Symbol(replaced, d, x) # Phi(s, y)
      BY <1>1, <1>10, <2>2, <2>3, <3>1, RunFacts
    <3>6. Content(Symbol(replaced, d, x))' = Content(Symbol(replaced, d, x))
      <4> DEFINE v == Symbol(replaced, d, x)
      <4>1. v \in Symbols /\ \A y \in Var : v # Phi(s, y)
        BY <3>5
      <4>2. PICK w : w = v
        OBVIOUS
      <4>3. Content(w)' = Content(w)
        BY <1>9, <4>1, <4>2
      <4>4. v' = w
        BY <1>1, <1>5, <4>2
      <4> QED BY <4>2, <4>3, <4>4
    <3> QED BY <2>1, <3>2, <3>4, <3>6
  <2> QED BY <2>5, <2>6
<1>12. LoadedInv'
  <2> SUFFICES ASSUME NEW b \in Blocks, NEW i \in Index(b), ~f.code[b][i].isStore,
                      Before(b, i, s, 1), loaded[f.code[b][i].val] # Uninit
               PROVE  Content(replaced[f.code[b][i].val])' = loaded[f.code[b][i].val]
    BY <1>1, <1>5 DEF LoadedInv
  <2> DEFINE l == f.code[b][i].val
  <2>1. i \in 1 .. Len(f.code[b]) /\ Len(f.code[b]) \in Nat
    BY <1>3
  <2>2. b # s /\ Dom(b, s)
    BY <2>1 DEF Before, Precedes, Dom
  <2>3. Dom(b, bb) /\ ~Dom(s, b)
    BY <1>10, <2>2
  <2>4. Before(b, i, bb, k)
    BY <1>4, <2>1, <2>3 DEF Before, Precedes, Dom, End
  <2>5. Content(replaced[l]) = loaded[l]
    BY <1>7, <2>4 DEF LoadedInv
  <2>6. IsLoad(b, i, f.code[b][i].var, l)
    BY DEF IsLoad
  <2>7. replaced[l] \in Symbols
    BY <1>2, <2>6, LoadFacts DEF Inv, TypeInv
  <2>8. \A y \in Var : replaced[l] # Phi(s, y)
    BY <1>1, <1>2, <2>3, RunFacts DEF Replaced
  <2>9. PICK w : w = replaced[l]
    OBVIOUS
  <2>10. Content(w)' = Content(w)
    BY <1>9, <2>7, <2>8, <2>9
  <2>11. replaced'[f'.code[b][i].val] = w
    BY <1>1, <2>9
  <2> QED BY <2>5, <2>9, <2>10, <2>11
<1> QED BY <1>1, <1>8, <1>11, <1>12, RunStepKeeps DEF Inv, RunInv

-----------------------------------------------------------------------------
(* The walk *)

\* The blocks that are open are those that dominate the head of the walk.
LEMMA HeadFacts ==
    ASSUME TypeInv, WalkInv, walk # <<>>
    PROVE  /\ Head(walk) = walk[1] /\ walk[1].block \in Blocks
           /\ OpenBlocks \subseteq Blocks
           /\ walk[1].call => OpenBlocks = {a \in Blocks : a # walk[1].block /\ Dom(a, walk[1].block)}
           /\ ~walk[1].call => OpenBlocks = {a \in Blocks : Dom(a, walk[1].block)}
<1> DEFINE b == walk[1].block
<1>1. f \in Functions /\ walk \in Seq(Entries) /\ Len(walk) \in Nat /\ Len(walk) > 0
      /\ DOMAIN walk = 1 .. Len(walk) /\ 1 \in DOMAIN walk
      /\ \A n \in DOMAIN walk : walk[n] \in Entries
  BY DEF TypeInv
<1>2. Head(walk) = walk[1] /\ \A n \in DOMAIN walk : walk[n].block \in Blocks
  BY <1>1 DEF Entries
<1>3. OpenBlocks \subseteq Blocks
  BY <1>2 DEF OpenBlocks
<1>4. ASSUME NEW n \in DOMAIN walk, ~walk[n].call, n # 1
      PROVE  walk[n].block # b /\ Dom(walk[n].block, b)
  BY <1>1, <1>4 DEF WalkInv, InOrder
<1>5. ASSUME NEW a \in Blocks, a # b, Dom(a, b) PROVE a \in OpenBlocks
  BY <1>1, <1>5 DEF WalkInv, InOrder, OpenBlocks
<1>6. Dom(b, b)
  BY <1>1, DomFacts
<1>7. ASSUME walk[1].call PROVE OpenBlocks = {a \in Blocks : a # b /\ Dom(a, b)}
  BY <1>3, <1>4, <1>5, <1>7 DEF OpenBlocks
<1>8. ASSUME ~walk[1].call PROVE OpenBlocks = {a \in Blocks : Dom(a, b)}
  <2>1. b \in OpenBlocks
    BY <1>1, <1>8 DEF OpenBlocks
  <2>2. \A a \in OpenBlocks : Dom(a, b)
    BY <1>4, <1>6 DEF OpenBlocks
  <2> QED BY <1>3, <1>5, <2>1, <2>2
<1> QED BY <1>1, <1>2, <1>3, <1>7, <1>8

\* The definitions before a block are those of its strict dominators.
LEMMA DefsOfDominators ==
    ASSUME f \in Functions, NEW b \in Blocks, NEW x
    PROVE  /\ DefsIn({a \in Blocks : a # b /\ Dom(a, b)}, x) = DefsBefore(b, 0, x)
           /\ DefsIn({a \in Blocks : Dom(a, b)}, x) = DefsBefore(b, End(b), x)
<1>1. Len(f.code[b]) \in Nat /\ Index(b) = 1 .. Len(f.code[b]) /\ Dom(b, b)
  BY FunctionFacts, DomFacts
<1>2. ASSUME NEW d \in Blocks \X Nat, Def(d[1], d[2], x)
      PROVE  /\ d[1] # b /\ Dom(d[1], b) <=> Before(d[1], d[2], b, 0)
             /\ Dom(d[1], b) <=> Before(d[1], d[2], b, End(b))
  <2>1. d[1] = b => d[2] < End(b) /\ ~(d[2] < 0)
    BY <1>1, <1>2 DEF Def, End
  <2> QED BY <1>1, <2>1 DEF Before, Precedes, Dom
<1>3. \A d \in Blocks \X Nat : d[1] \in Blocks
  OBVIOUS
<1>4. DefsIn({a \in Blocks : a # b /\ Dom(a, b)}, x) = DefsBefore(b, 0, x)
  BY <1>2, <1>3 DEF DefsIn, DefsBefore
<1>5. DefsIn({a \in Blocks : Dom(a, b)}, x) = DefsBefore(b, End(b), x)
  BY <1>2, <1>3 DEF DefsIn, DefsBefore
<1> QED BY <1>4, <1>5

\* What is on the stack without the last definitions.
LEMMA PopHolds ==
    ASSUME f \in Functions, NEW b \in Blocks, NEW x, NEW s \in Seq(Symbols), NEW rep,
           Holds(s, rep, DefsBefore(b, End(b), x), x)
    PROVE  Holds(SubSeq(s, 1, Len(s) - Pushes(b, x)), rep, DefsBefore(b, 0, x), x)
<1> DEFINE A == {a \in Blocks : Dom(a, b)}
           B == {a \in Blocks : a # b /\ Dom(a, b)}
           n == Cardinality(DefsBefore(b, 0, x))
           t == SubSeq(s, 1, Len(s) - Pushes(b, x))
<1>1. DefsIn(A, x) = DefsBefore(b, End(b), x) /\ DefsIn(B, x) = DefsBefore(b, 0, x)
  BY DefsOfDominators
<1>2. B = A \ {b} /\ b \in A
  BY DomFacts
<1>3. /\ IsFiniteSet(DefsBefore(b, 0, x)) /\ n \in Nat /\ Len(s) \in Nat
      /\ Len(s) = Cardinality(DefsBefore(b, End(b), x))
  BY DefsBeforeFinite DEF Holds
<1>4. Len(s) = n + Pushes(b, x)
  BY <1>1, <1>2, <1>3, DefsAdd
<1>5. Pushes(b, x) \in Nat
  BY PushesAreDefs, DefsInFinite
<1>6. Len(t) = n /\ \A m \in 1 .. n : t[m] = s[m] /\ m \in 1 .. Len(s)
  <2>1. Len(s) - Pushes(b, x) = n /\ n <= Len(s)
    BY <1>3, <1>4, <1>5
  <2> HIDE DEF n
  <2> QED BY <1>3, <2>1
<1>7. DefsBefore(b, 0, x) \subseteq DefsBefore(b, End(b), x)
  BY <1>1, <1>2 DEF DefsIn
<1>8. \A d \in DefsBefore(b, 0, x) : Rank(d, x) \in 1 .. n
  BY <1>3, RankIsWithin
<1>9. ASSUME NEW d \in DefsBefore(b, End(b), x), d \notin DefsBefore(b, 0, x)
      PROVE  Rank(d, x) > n
  <2>1. d \in Blocks \X Nat /\ Def(d[1], d[2], x) /\ d[1] = b /\ d[2] \in Nat
    <3>1. d \in Blocks \X Nat /\ Def(d[1], d[2], x)
      BY DEF DefsBefore
    <3>2. d[1] \in A /\ d[1] \notin B
      <4> HIDE DEF A, B
      <4> QED BY <1>1, <1>9, <3>1 DEF DefsIn
    <3> QED BY <1>2, <3>1, <3>2
  <2>2. DefsBefore(b, 0, x) \cup {d} \subseteq DefsBefore(b, d[2] + 1, x)
    BY <2>1 DEF DefsBefore, Before, Precedes
  <2>3. IsFiniteSet(DefsBefore(b, d[2] + 1, x)) /\ Cardinality(DefsBefore(b, d[2] + 1, x)) \in Nat
    BY DefsBeforeFinite
  <2>4. Cardinality(DefsBefore(b, 0, x) \cup {d}) = n + 1
    BY <1>3, <1>9, FS_AddElement
  <2>5. n + 1 <= Cardinality(DefsBefore(b, d[2] + 1, x))
    BY <2>2, <2>3, <2>4, FS_Subset
  <2> QED BY <1>3, <2>1, <2>3, <2>5 DEF Rank
<1>10. \A d \in DefsBefore(b, 0, x) : t[Rank(d, x)] = Symbol(rep, d, x)
  BY <1>6, <1>7, <1>8 DEF Holds
<1>11. \A m \in 1 .. Len(t) : \E d \in DefsBefore(b, 0, x) : Rank(d, x) = m
  <2> SUFFICES ASSUME NEW m \in 1 .. n PROVE \E d \in DefsBefore(b, 0, x) : Rank(d, x) = m
    BY <1>6
  <2>1. PICK d \in DefsBefore(b, End(b), x) : Rank(d, x) = m
    BY <1>6 DEF Holds
  <2>2. ~(m > n)
    BY <1>3
  <2> QED BY <1>9, <2>1, <2>2
<1> HIDE DEF t, n
<1> QED BY <1>6, <1>10, <1>11 DEF Holds, n, t

\* A step of EndReName keeps the invariant.
LEMMA EndReNameInv == Inv /\ EndReName => Inv'
<1> SUFFICES ASSUME Inv, EndReName PROVE Inv'
  OBVIOUS
<1> DEFINE b == walk[1].block
<1>1. /\ f \in Functions /\ stage = "rename" /\ walk # <<>> /\ ~walk[1].call /\ b \in Blocks
      /\ walk' = Tail(walk)
      /\ UNCHANGED <<f, stage, phis, replaced, params, bb, k, mem, loaded, ssa>>
      /\ newest_live_var' = [x \in Var |->
           SubSeq(newest_live_var[x], 1, Len(newest_live_var[x]) - Pushes(b, x))]
  BY HeadFacts DEF Inv, TypeInv, EndReName, run
<1>2. /\ Blocks' = Blocks /\ Phis' = Phis /\ Symbols' = Symbols /\ Entries' = Entries
      /\ \A c : Succs(c)' = Succs(c) /\ Index(c)' = Index(c) /\ End(c)' = End(c)
      /\ \A c : DF(c)' = DF(c)
      /\ \A a, c : Dom(a, c)' = Dom(a, c)
      /\ \A c, x : Stores(c, x)' = Stores(c, x)
      /\ \A rep, d, x : Symbol(rep, d, x)' = Symbol(rep, d, x)
  BY <1>1, SameFunction
<1>3. /\ \A c, n, x : DefsBefore(c, n, x)' = DefsBefore(c, n, x)
      /\ \A d, c, n, x : Current(d, c, n, x)' = Current(d, c, n, x)
      /\ \A set, x : DefsIn(set, x)' = DefsIn(set, x)
      /\ \A s, rep, set, x : Holds(s, rep, set, x)' = Holds(s, rep, set, x)
      /\ \A rep, c, i, x, l : Replaced(rep, c, i, x, l)' = Replaced(rep, c, i, x, l)
  BY <1>1, SameDefs
<1>4. /\ walk \in Seq(Entries) /\ Len(walk) \in Nat /\ Len(walk) > 0 /\ DOMAIN walk = 1 .. Len(walk)
      /\ newest_live_var \in [Var -> Seq(Symbols)]
  BY <1>1 DEF Inv, TypeInv
<1>5. /\ walk' \in Seq(Entries)
      /\ DOMAIN walk' = 1 .. Len(walk) - 1
      /\ \A n \in DOMAIN walk' : n + 1 \in DOMAIN walk /\ walk'[n] = walk[n + 1]
      /\ \A n \in DOMAIN walk : n # 1 => n - 1 \in DOMAIN walk' /\ walk'[n - 1] = walk[n]
  BY <1>1, <1>4, HeadTailProperties
<1>6. TypeInv'
  <2>1. ASSUME NEW x \in Var
        PROVE  SubSeq(newest_live_var[x], 1, Len(newest_live_var[x]) - Pushes(b, x)) \in Seq(Symbols)
    <3>1. Pushes(b, x) \in Nat
      BY <1>1, PushesAreDefs, DefsInFinite
    <3>2. newest_live_var[x] \in Seq(Symbols)
      BY <1>4
    <3> QED BY <3>1, <3>2
  <2>2. newest_live_var' \in [Var -> Seq(Symbols)]
    BY <1>1, <2>1
  <2> QED BY <1>1, <1>2, <1>5, <2>2 DEF Inv, TypeInv
<1>7. WalkInv'
  <2>1. \A n, m \in DOMAIN walk : n # m /\ walk[n].call => ~Dom(walk[n].block, walk[m].block)
    BY DEF Inv, WalkInv, InOrder
  <2>2. \A n, m \in DOMAIN walk :
          n < m /\ ~walk[m].call => walk[m].block # walk[n].block /\ Dom(walk[m].block, walk[n].block)
    BY DEF Inv, WalkInv, InOrder
  <2>3. ASSUME NEW n \in DOMAIN walk', NEW m \in DOMAIN walk'
        PROVE  /\ n # m /\ walk'[n].call => ~Dom(walk'[n].block, walk'[m].block)
               /\ n < m /\ ~walk'[m].call => walk'[m].block # walk'[n].block /\ Dom(walk'[m].block, walk'[n].block)
    <3> DEFINE i == n + 1
               j == m + 1
    <3>1. n \in Int /\ m \in Int /\ i \in DOMAIN walk /\ j \in DOMAIN walk
          /\ walk'[n] = walk[i] /\ walk'[m] = walk[j]
      BY <1>5
    <3>2. (n # m => i # j) /\ (n < m => i < j)
      BY <3>1
    <3> HIDE DEF i, j
    <3> QED BY <2>1, <2>2, <3>1, <3>2
  <2>4. ASSUME NEW n \in DOMAIN walk', NEW a \in Blocks, a # walk'[n].block, Dom(a, walk'[n].block)
        PROVE  \E m \in DOMAIN walk' : n < m /\ ~walk'[m].call /\ walk'[m].block = a
    <3>1. PICK m \in DOMAIN walk : n + 1 < m /\ ~walk[m].call /\ walk[m].block = a
      BY <1>5, <2>4 DEF Inv, WalkInv, InOrder
    <3>2. n \in Nat /\ m \in Nat /\ m # 1 /\ n < m - 1
      BY <1>4, <1>5, <3>1
    <3> QED BY <1>5, <3>1, <3>2
  <2> QED BY <1>1, <1>2, <2>3, <2>4 DEF WalkInv, InOrder
<1>8. StackInv'
  <2>1. OpenBlocks = {a \in Blocks : Dom(a, b)}
    BY <1>1, HeadFacts DEF Inv
  <2>2. OpenBlocks' = {a \in Blocks : a # b /\ Dom(a, b)}
    <3>1. OpenBlocks' = OpenBlocks \ {b}
      <4>1. ASSUME NEW n \in DOMAIN walk', ~walk'[n].call
            PROVE  walk'[n].block \in OpenBlocks \ {b}
        <5>1. n + 1 \in DOMAIN walk /\ walk'[n] = walk[n + 1] /\ 1 \in DOMAIN walk /\ 1 < n + 1
          BY <1>4, <1>5
        <5>2. walk[n + 1].block # b
          BY <4>1, <5>1 DEF Inv, WalkInv, InOrder
        <5> QED BY <4>1, <5>1, <5>2 DEF OpenBlocks
      <4>2. ASSUME NEW n \in DOMAIN walk, ~walk[n].call, walk[n].block # b
            PROVE  \E m \in DOMAIN walk' : ~walk'[m].call /\ walk'[m].block = walk[n].block
        BY <1>5, <4>2
      <4> QED BY <4>1, <4>2 DEF OpenBlocks
    <3> QED BY <2>1, <3>1
  <2> SUFFICES ASSUME NEW x \in Var
               PROVE  Holds(newest_live_var'[x], replaced, DefsBefore(b, 0, x), x)
    BY <1>1, <1>3, <2>2, DefsOfDominators DEF StackInv
  <2>3. Holds(newest_live_var[x], replaced, DefsBefore(b, End(b), x), x)
    BY <1>1, <2>1, DefsOfDominators DEF Inv, StackInv
  <2>4. newest_live_var[x] \in Seq(Symbols)
    BY <1>4
  <2>5. Holds(SubSeq(newest_live_var[x], 1, Len(newest_live_var[x]) - Pushes(b, x)), replaced,
              DefsBefore(b, 0, x), x)
    BY <1>1, <2>3, <2>4, PopHolds
  <2> QED BY <1>1, <2>5
<1>9. PhiInv'
  BY <1>1, <1>2 DEF Inv, PhiInv
<1>10. \A c : Pending(c)' = Pending(c)
  <2>1. \A c : Pending(c)' <=> \E n \in DOMAIN walk' : walk'[n].call /\ Dom(walk'[n].block, c)
    BY <1>1, <1>2 DEF Pending
  <2>2. \A c : Pending(c) <=> \E n \in DOMAIN walk : walk[n].call /\ Dom(walk[n].block, c)
    BY <1>1 DEF Pending
  <2>3. \A c : Pending(c)' <=> Pending(c)
    BY <1>1, <1>5, <2>1, <2>2
  <2>4. \A c : Pending(c) \in BOOLEAN /\ Pending(c)' \in BOOLEAN
    BY DEF Pending
  <2> QED BY <2>3, <2>4
<1>11. LoadInv'
  BY <1>1, <1>2, <1>3, <1>10 DEF Inv, LoadInv
<1>12. ParamInv'
  BY <1>1, <1>2, <1>3, <1>10 DEF Inv, ParamInv
<1>13. RunInv'
  BY <1>1 DEF Inv, RunInv
<1> QED BY <1>6, <1>7, <1>8, <1>9, <1>11, <1>12, <1>13 DEF Inv

\* The children of b, each once.
Children(calls, b) ==
    /\ calls \in Seq(Entries)
    /\ \A n \in DOMAIN calls : calls[n].call /\ calls[n].block \in DomTreeSucc(b)
    /\ \A n, m \in DOMAIN calls : n # m => calls[n].block # calls[m].block
    /\ \A c \in DomTreeSucc(b) : \E n \in DOMAIN calls : calls[n].block = c

\* A block makes one call for each of its children in the tree.
LEMMA CallsAreChildren ==
    ASSUME f \in Functions, NEW b \in Blocks, NEW calls \in Calls(b)
    PROVE  Children(calls, b)
<1> DEFINE kids == DomTreeSucc(b)
           N == Cardinality(kids)
<1>1. kids \subseteq Blocks /\ IsFiniteSet(kids) /\ N \in Nat
  <2>1. kids \subseteq Blocks /\ IsFiniteSet(Blocks)
    BY FunctionFacts DEF DomTreeSucc
  <2> QED BY <2>1, FS_Subset, FS_CardinalityType
<1>2. PICK o \in SetToSeqs(kids) : calls = [n \in DOMAIN o |-> [call |-> TRUE, block |-> o[n]]]
  BY DEF Calls
<1>3. /\ o \in [1 .. N -> kids]
      /\ \A n, m \in 1 .. N : n # m => o[n] # o[m]
  BY <1>2 DEF SetToSeqs
<1>4. /\ IsFiniteSet(1 .. N) /\ Cardinality(1 .. N) = N
  <2>1. \A n \in Nat : IsFiniteSet(1 .. n) /\ Cardinality(1 .. n) = n
    BY FS_Interval
  <2> QED BY <1>1, <2>1
<1>5. o \in Injection(1 .. N, kids)
  BY <1>3 DEF Injection, IsInjective
<1>6. o \in Surjection(1 .. N, kids)
  BY <1>1, <1>4, <1>5, FS_Injection
<1>7. \A c \in kids : \E n \in 1 .. N : o[n] = c
  BY <1>6 DEF Surjection
<1>8. DOMAIN calls = 1 .. N /\ \A n \in 1 .. N : calls[n] = [call |-> TRUE, block |-> o[n]]
  BY <1>2, <1>3
<1>9. \A n \in 1 .. N : calls[n] \in Entries
  <2>1. \A n \in 1 .. N : o[n] \in Blocks
    BY <1>1, <1>3
  <2>2. \A c \in Blocks : [call |-> TRUE, block |-> c] \in Entries
    BY DEF Entries
  <2> HIDE DEF N
  <2> QED BY <1>8, <2>1, <2>2
<1>10. calls \in Seq(Entries)
  <2>1. calls \in [1 .. N -> Entries]
    BY <1>2, <1>3, <1>9
  <2> HIDE DEF N
  <2> QED BY <1>1, <2>1, SeqDef
<1> QED BY <1>3, <1>7, <1>8, <1>10 DEF Children

\* Where the entries of the walk are when its head, a call of b, is replaced.
Replaces(w, calls, e, old) ==
    /\ w \in Seq(Entries)
    /\ \A n \in DOMAIN w : n \in Nat
    /\ \A n \in DOMAIN w : \/ n \in DOMAIN calls /\ w[n] = calls[n] /\ n < Len(calls) + 1
                           \/ n = Len(calls) + 1 /\ w[n] = e
                           \/ /\ n > Len(calls) + 1
                              /\ \E q \in DOMAIN old : n = q + Len(calls) /\ q > 1 /\ w[n] = old[q]
    /\ \A n \in DOMAIN calls : n \in DOMAIN w /\ w[n] = calls[n]
    /\ Len(calls) + 1 \in DOMAIN w /\ w[Len(calls) + 1] = e
    /\ \A q \in DOMAIN old : q > 1 => /\ q + Len(calls) \in DOMAIN w
                                      /\ w[q + Len(calls)] = old[q]

\* They take the place of its own entry on the list.
LEMMA ReplacesHead ==
    ASSUME NEW calls \in Seq(Entries), NEW e \in Entries, NEW old \in Seq(Entries), old # <<>>
    PROVE  Replaces(calls \o <<e>> \o Tail(old), calls, e, old)
<1> DEFINE t == Tail(old)
           u == calls \o <<e>>
           w == u \o t
           p == Len(calls)
<1>1. t \in Seq(Entries) /\ Len(t) = Len(old) - 1 /\ \A i \in 1 .. Len(t) : t[i] = old[i + 1]
  BY HeadTailProperties
<1>2. p \in Nat /\ DOMAIN calls = 1 .. p /\ Len(old) \in Nat /\ Len(old) > 0
      /\ DOMAIN old = 1 .. Len(old)
  OBVIOUS
<1>3. <<e>> \in Seq(Entries) /\ Len(<<e>>) = 1 /\ <<e>>[1] = e
  OBVIOUS
<1>4. /\ u \in Seq(Entries) /\ Len(u) = p + 1
      /\ \A i \in 1 .. p : u[i] = calls[i]
      /\ u[p + 1] = e
  <2>1. /\ u \in Seq(Entries) /\ Len(u) = p + 1
        /\ \A i \in 1 .. p + 1 : u[i] = IF i <= p THEN calls[i] ELSE <<e>>[i - p]
    BY <1>3, ConcatProperties
  <2>2. p + 1 \in 1 .. p + 1 /\ ~(p + 1 <= p) /\ (p + 1) - p = 1
    BY <1>2
  <2>3. u[p + 1] = e
    BY <1>3, <2>1, <2>2
  <2> QED BY <1>2, <2>1, <2>3
<1> HIDE DEF u, t
<1>5. /\ w \in Seq(Entries) /\ Len(w) = (p + 1) + Len(t)
      /\ \A i \in 1 .. (p + 1) + Len(t) : w[i] = IF i <= p + 1 THEN u[i] ELSE t[i - (p + 1)]
  <2>1. /\ u \o t \in Seq(Entries) /\ Len(u \o t) = Len(u) + Len(t)
        /\ \A i \in 1 .. Len(u) + Len(t) : (u \o t)[i] = IF i <= Len(u) THEN u[i] ELSE t[i - Len(u)]
    BY <1>1, <1>4, ConcatProperties
  <2> QED BY <1>4, <2>1
<1>6. DOMAIN w = 1 .. p + Len(old)
  <2>1. DOMAIN w = 1 .. Len(w)
    BY <1>5, LenProperties
  <2>2. (p + 1) + Len(t) = p + Len(old)
    BY <1>1, <1>2
  <2> HIDE DEF w, p
  <2> QED BY <1>5, <2>1, <2>2
<1> HIDE DEF w, p
<1>7. \A n \in 1 .. p : n \in DOMAIN w /\ w[n] = calls[n]
  <2> SUFFICES ASSUME NEW n \in 1 .. p PROVE n \in DOMAIN w /\ w[n] = calls[n]
    OBVIOUS
  <2>1. n \in 1 .. (p + 1) + Len(t) /\ n <= p + 1
    BY <1>1, <1>2
  <2> QED BY <1>1, <1>2, <1>4, <1>5, <1>6, <2>1
<1>8. p + 1 \in DOMAIN w /\ w[p + 1] = e
  <2>1. p + 1 \in 1 .. (p + 1) + Len(t) /\ p + 1 <= p + 1 /\ p + 1 \in 1 .. p + Len(old)
    BY <1>1, <1>2
  <2> QED BY <1>4, <1>5, <1>6, <2>1
<1>9. \A q \in 1 .. Len(old) : q > 1 => q + p \in DOMAIN w /\ w[q + p] = old[q]
  <2> SUFFICES ASSUME NEW q \in 1 .. Len(old), q > 1
               PROVE  q + p \in DOMAIN w /\ w[q + p] = old[q]
    OBVIOUS
  <2>1. q - 1 \in 1 .. Len(t) /\ (q - 1) + 1 = q
    BY <1>1, <1>2
  <2>2. q + p \in 1 .. (p + 1) + Len(t) /\ ~(q + p <= p + 1) /\ (q + p) - (p + 1) = q - 1
    BY <1>1, <1>2
  <2>3. w[q + p] = t[q - 1]
    BY <1>5, <2>2
  <2>4. t[q - 1] = old[q]
    BY <1>1, <2>1
  <2> QED BY <1>2, <1>6, <2>3, <2>4
<1>10. ASSUME NEW n \in DOMAIN w
       PROVE  /\ n \in Nat
              /\ \/ n \in 1 .. p /\ w[n] = calls[n] /\ n < p + 1
                 \/ n = p + 1 /\ w[n] = e
                 \/ n > p + 1 /\ \E q \in DOMAIN old : n = q + p /\ q > 1 /\ w[n] = old[q]
  <2>1. n \in Nat /\ 1 <= n /\ n <= p + Len(old)
    BY <1>2, <1>6
  <2>2. CASE n <= p
    <3>1. n \in 1 .. p /\ n < p + 1
      BY <1>2, <2>1, <2>2
    <3> QED BY <1>7, <2>1, <3>1
  <2>3. CASE n = p + 1
    BY <1>8, <2>1, <2>3
  <2>4. CASE n > p + 1
    <3>1. n - p \in 1 .. Len(old) /\ n - p > 1 /\ (n - p) + p = n
      BY <1>2, <2>1, <2>4
    <3>2. w[(n - p) + p] = old[n - p]
      BY <1>9, <3>1
    <3>3. w[n] = old[n - p] /\ n - p \in DOMAIN old /\ n = (n - p) + p
      BY <1>2, <3>1, <3>2
    <3> DEFINE q == n - p
    <3>4. q \in DOMAIN old /\ q > 1 /\ n = q + p /\ w[n] = old[q]
      BY <3>1, <3>3
    <3> QED BY <2>1, <2>4, <3>4
  <2> QED BY <1>2, <2>1, <2>2, <2>3, <2>4
<1>11. w \in Seq(Entries)
  BY <1>5
<1> QED BY <1>2, <1>7, <1>8, <1>9, <1>10, <1>11 DEF Replaces, w, u, t, p

\* The walk goes down the tree.
LEMMA WalkGoesDown ==
    ASSUME TypeInv, WalkInv, walk # <<>>, NEW b \in Blocks, walk[1].call, walk[1].block = b,
           NEW calls, Children(calls, b), NEW w,
           Replaces(w, calls, [call |-> FALSE, block |-> b], walk)
    PROVE  /\ InOrder(w)
           /\ {w[n].block : n \in {m \in DOMAIN w : ~w[m].call}} = OpenBlocks \cup {b}
           /\ \A d \in Blocks :
                (\E n \in DOMAIN w : w[n].call /\ Dom(w[n].block, d)) <=>
                  d # b /\ \E q \in DOMAIN walk : walk[q].call /\ Dom(walk[q].block, d)
<1> DEFINE p == Len(calls)
           e == [call |-> FALSE, block |-> b]
           kids == DomTreeSucc(b)
<1>1. /\ f \in Functions /\ walk \in Seq(Entries) /\ 1 \in DOMAIN walk
      /\ DOMAIN walk = 1 .. Len(walk) /\ \A q \in DOMAIN walk : q \in Nat /\ walk[q] \in Entries
  BY DEF TypeInv
<1>2. \A q \in DOMAIN walk : walk[q].block \in Blocks /\ (q # 1 => q > 1)
  BY <1>1 DEF Entries
<1>3. \A a \in Blocks : Dom(a, b) /\ Dom(b, a) => a = b
  BY <1>1, DomFacts
<1>4. ASSUME NEW c \in kids
      PROVE  /\ c \in Blocks /\ c # b /\ Dom(b, c) /\ ~Dom(c, b)
             /\ \A a \in Blocks : a # c /\ Dom(a, c) => Dom(a, b)
  <2>1. c \in Blocks \ {1} /\ IDom(c) = b
    BY DEF DomTreeSucc
  <2>2. b # c /\ Dom(b, c) /\ \A a \in Blocks \ {c} : Dom(a, c) => Dom(a, b)
    BY <1>1, <2>1, TreeFacts
  <2> QED BY <1>3, <2>1, <2>2
<1>5. ASSUME NEW q \in DOMAIN walk, q > 1
      PROVE  /\ walk[q].block \in Blocks /\ q # 1
             /\ ~Dom(b, walk[q].block)
             /\ walk[q].call => ~Dom(walk[q].block, b)
             /\ ~walk[q].call => walk[q].block # b /\ Dom(walk[q].block, b)
  BY <1>1, <1>2, <1>5 DEF WalkInv, InOrder
<1>6. \A a, c, d : Dom(a, c) /\ Dom(c, d) => Dom(a, d)
  BY <1>1, DomFacts
<1>7. e.call = FALSE /\ e.block = b /\ Dom(b, b)
  BY <1>1, DomFacts
\* The three kinds of entries.
<1> DEFINE New(n) == n \in DOMAIN calls /\ w[n] = calls[n] /\ n < p + 1 /\ w[n].call /\ w[n].block \in kids
           Own(n) == n = p + 1 /\ ~w[n].call /\ w[n].block = b
           Old(n, q) == q \in DOMAIN walk /\ n = q + p /\ q > 1 /\ w[n] = walk[q]
<1>8. /\ \A n \in DOMAIN w : n \in Nat /\ (New(n) \/ Own(n) \/ (n > p + 1 /\ \E q : Old(n, q)))
      /\ \A n \in DOMAIN calls : n \in DOMAIN w /\ New(n)
      /\ p + 1 \in DOMAIN w /\ Own(p + 1)
      /\ \A q \in DOMAIN walk : q > 1 => q + p \in DOMAIN w /\ Old(q + p, q)
      /\ p \in Nat /\ \A n \in DOMAIN calls : n < p + 1
  BY <1>7 DEF Replaces, Children
<1>9. \A c \in kids : \E n \in DOMAIN calls : w[n].block = c
  BY <1>8 DEF Children
<1>10. \A n, m \in DOMAIN w : New(n) /\ New(m) /\ n # m => w[n].block # w[m].block
  BY DEF Children
<1>11. \A n, m, q, r : /\ Old(n, q) /\ Old(m, r) => ((n # m => q # r) /\ (n < m => q < r))
  BY <1>1, <1>8
<1> HIDE DEF p, e, kids
<1>12. ASSUME NEW n \in DOMAIN w, NEW m \in DOMAIN w, n # m, w[n].call
       PROVE  ~Dom(w[n].block, w[m].block)
  <2>1. CASE New(n)
    <3> DEFINE c == w[n].block
    <3>1. c \in kids
      BY <2>1
    <3>2. CASE New(m)
      BY <1>4, <1>10, <1>12, <2>1, <3>2
    <3>3. CASE Own(m)
      BY <1>4, <3>1, <3>3
    <3>4. CASE \E q : Old(m, q)
      <4>1. PICK q : Old(m, q)
        BY <3>4
      <4> QED BY <1>4, <1>5, <1>6, <3>1, <4>1
    <3> QED BY <1>8, <3>2, <3>3, <3>4
  <2>2. CASE \E q : Old(n, q)
    <3>1. PICK q : Old(n, q)
      BY <2>2
    <3>2. ~Dom(walk[q].block, b) /\ ~Dom(b, walk[q].block) /\ walk[q].block \in Blocks
      BY <1>5, <1>12, <3>1
    <3>3. CASE New(m)
      <4>1. w[m].block \in kids
        BY <3>3
      <4>2. w[m].block # walk[q].block
        BY <1>4, <3>2, <4>1
      <4> QED BY <1>4, <3>1, <3>2, <4>1, <4>2
    <3>4. CASE Own(m)
      BY <3>1, <3>2, <3>4
    <3>5. CASE \E r : Old(m, r)
      <4>1. PICK r : Old(m, r)
        BY <3>5
      <4>2. q # r
        BY <1>11, <1>12, <3>1, <4>1
      <4> QED BY <1>12, <3>1, <4>1, <4>2 DEF WalkInv, InOrder
    <3> QED BY <1>8, <3>3, <3>4, <3>5
  <2> QED BY <1>8, <1>12, <2>1, <2>2
<1>13. ASSUME NEW n \in DOMAIN w, NEW m \in DOMAIN w, n < m, ~w[m].call
       PROVE  w[m].block # w[n].block /\ Dom(w[m].block, w[n].block)
  <2>1. CASE Own(m)
    <3>1. New(n)
      BY <1>8, <1>13, <2>1
    <3> QED BY <1>4, <2>1, <3>1
  <2>2. CASE \E r : Old(m, r)
    <3>1. PICK r : Old(m, r)
      BY <2>2
    <3>2. walk[r].block \in Blocks /\ walk[r].block # b /\ Dom(walk[r].block, b) /\ ~Dom(b, walk[r].block)
      BY <1>5, <1>13, <3>1
    <3>3. CASE New(n)
      <4>1. w[n].block \in kids
        BY <3>3
      <4> QED BY <1>4, <1>6, <3>1, <3>2, <4>1
    <3>4. CASE Own(n)
      BY <3>1, <3>2, <3>4
    <3>5. CASE \E q : Old(n, q)
      <4>1. PICK q : Old(n, q)
        BY <3>5
      <4>2. q < r
        BY <1>11, <1>13, <3>1, <4>1
      <4> QED BY <1>13, <3>1, <4>1, <4>2 DEF WalkInv, InOrder
    <3> QED BY <1>8, <3>3, <3>4, <3>5
  <2> QED BY <1>8, <1>13, <2>1, <2>2
<1>14. ASSUME NEW n \in DOMAIN w, NEW a \in Blocks, a # w[n].block, Dom(a, w[n].block)
       PROVE  \E m \in DOMAIN w : n < m /\ ~w[m].call /\ w[m].block = a
  \* What dominates b is in the old walk.
  <2>1. ASSUME a # b, Dom(a, b), n < p + 2
        PROVE  \E m \in DOMAIN w : n < m /\ ~w[m].call /\ w[m].block = a
    <3>1. PICK r \in DOMAIN walk : 1 < r /\ ~walk[r].call /\ walk[r].block = a
      BY <1>1, <2>1 DEF WalkInv, InOrder
    <3>2. r + p \in DOMAIN w /\ Old(r + p, r)
      BY <1>8, <3>1
    <3>3. n < r + p
      BY <1>1, <1>8, <2>1, <3>1
    <3> QED BY <3>1, <3>2, <3>3
  <2>2. CASE New(n)
    <3>1. CASE a = b
      BY <1>8, <2>2, <3>1
    <3>2. CASE a # b
      <4>1. Dom(a, b)
        BY <1>4, <1>14, <2>2
      <4>2. n < p + 2
        BY <1>8, <2>2
      <4> QED BY <2>1, <3>2, <4>1, <4>2
    <3> QED BY <3>1, <3>2
  <2>3. CASE Own(n)
    BY <1>8, <1>14, <2>1, <2>3
  <2>4. CASE \E q : Old(n, q)
    <3>1. PICK q : Old(n, q)
      BY <2>4
    <3>2. PICK r \in DOMAIN walk : q < r /\ ~walk[r].call /\ walk[r].block = a
      BY <1>14, <3>1 DEF WalkInv, InOrder
    <3>3. r > 1 /\ n < r + p
      BY <1>1, <1>8, <3>1, <3>2
    <3>4. r + p \in DOMAIN w /\ Old(r + p, r)
      BY <1>8, <3>2, <3>3
    <3> QED BY <3>2, <3>3, <3>4
  <2> QED BY <1>8, <2>2, <2>3, <2>4
<1>15. InOrder(w)
  BY <1>12, <1>13, <1>14 DEF InOrder
<1>16. {w[n].block : n \in {m \in DOMAIN w : ~w[m].call}} = OpenBlocks \cup {b}
  <2>1. ASSUME NEW n \in DOMAIN w, ~w[n].call PROVE w[n].block \in OpenBlocks \cup {b}
    BY <1>8, <2>1 DEF OpenBlocks
  <2>2. ASSUME NEW q \in DOMAIN walk, ~walk[q].call
        PROVE  \E n \in DOMAIN w : ~w[n].call /\ w[n].block = walk[q].block
    <3>1. q > 1
      BY <1>2, <2>2
    <3> QED BY <1>8, <2>2, <3>1
  <2>3. \E n \in DOMAIN w : ~w[n].call /\ w[n].block = b
    BY <1>8
  <2> QED BY <2>1, <2>2, <2>3 DEF OpenBlocks
<1>17. ASSUME NEW d \in Blocks, NEW n \in DOMAIN w, w[n].call, Dom(w[n].block, d)
       PROVE  d # b /\ \E q \in DOMAIN walk : walk[q].call /\ Dom(walk[q].block, d)
  <2>1. CASE New(n)
    BY <1>1, <1>4, <1>6, <1>17, <2>1
  <2>2. CASE \E q : Old(n, q)
    BY <1>5, <1>17, <2>2
  <2> QED BY <1>8, <1>17, <2>1, <2>2
<1>18. ASSUME NEW d \in Blocks, d # b, NEW q \in DOMAIN walk, walk[q].call, Dom(walk[q].block, d)
       PROVE  \E n \in DOMAIN w : w[n].call /\ Dom(w[n].block, d)
  <2>1. CASE q = 1
    <3>1. PICK c \in kids : Dom(c, d)
      BY <1>1, <1>18, <2>1, TreeFacts DEF kids
    <3> QED BY <1>8, <1>9, <3>1
  <2>2. CASE q # 1
    BY <1>2, <1>8, <1>18, <2>2
  <2> QED BY <2>1, <2>2
<1> QED BY <1>15, <1>16, <1>17, <1>18

\* The top of a stack is the value of the definition that is seen.
OnTop(s, rep, b, n, x) ==
    \A d \in DefsBefore(b, n, x) : Current(d, b, n, x) => s # <<>> /\ Last(s) = Symbol(rep, d, x)

\* The top of the stack is the definition a point sees.
LEMMA TopOfStack ==
    ASSUME f \in Functions, NEW b \in Blocks, NEW n \in Nat, NEW x, NEW s \in Seq(Symbols), NEW rep,
           Holds(s, rep, DefsBefore(b, n, x), x)
    PROVE  /\ OnTop(s, rep, b, n, x)
           /\ s # <<>> => \E d \in DefsBefore(b, n, x) : Last(s) = Symbol(rep, d, x)
<1>1. Len(s) \in Nat /\ (s # <<>> => Len(s) \in 1 .. Len(s)) /\ (s = <<>> => Len(s) = 0)
  BY EmptySeq
<1>2. ASSUME NEW d \in DefsBefore(b, n, x), Current(d, b, n, x)
      PROVE  s # <<>> /\ Last(s) = Symbol(rep, d, x)
  <2>1. Rank(d, x) = Len(s) /\ s[Rank(d, x)] = Symbol(rep, d, x)
    BY <1>2, RankOfCurrent DEF Rank, Holds
  <2>2. 1 <= Rank(d, x)
    BY RankIsWithin
  <2> QED BY <1>1, <2>1, <2>2 DEF Last
<1>3. ASSUME s # <<>> PROVE \E d \in DefsBefore(b, n, x) : Last(s) = Symbol(rep, d, x)
  <2>1. PICK d \in DefsBefore(b, n, x) : Rank(d, x) = Len(s)
    BY <1>1, <1>3 DEF Holds
  <2>2. s[Rank(d, x)] = Symbol(rep, d, x)
    BY DEF Holds
  <2> QED BY <2>1, <2>2 DEF Last
<1> QED BY <1>2, <1>3 DEF OnTop

\* Renaming a block replaces no load of another one.
LEMMA RepKept ==
    ASSUME f \in Functions, NEW b \in Blocks, NEW st, InTurn(st, b), NEW l \in LoadId,
           \A j, x : ~IsLoad(b, j, x, l)
    PROVE  st[Len(f.code[b])].rep[l] = st[0].rep[l]
<1>1. LoadedBy(b, l, 0) /\ 0 \in 0 .. Len(f.code[b])
  BY FunctionFacts DEF LoadedBy
<1> QED BY <1>1, RepAfter

\* A definition in a block that the walk does not go below keeps its symbol.
LEMMA SymbolKept ==
    ASSUME f \in Functions, NEW b \in Blocks, NEW st, InTurn(st, b), NEW x,
           NEW d \in Blocks \X Nat, Def(d[1], d[2], x), ~Dom(b, d[1])
    PROVE  Symbol(st[Len(f.code[b])].rep, d, x) = Symbol(st[0].rep, d, x)
<1> DEFINE l == f.code[d[1]][d[2]].val
<1>1. CASE d[2] = 0 \/ l \notin LoadId
  BY <1>1 DEF Symbol, Operand
<1>2. CASE d[2] # 0 /\ l \in LoadId
  <2>1. d[1] \in Blocks /\ d[2] \in Index(d[1]) /\ f.code[d[1]][d[2]].isStore
    BY <1>2 DEF Def
  <2>2. PICK c, j, y : IsLoad(c, j, y, l) /\ Before(c, j, d[1], d[2])
    BY <1>2, <2>1, LoadFacts
  <2>3. c # b
    BY <2>2, DomFacts DEF Before, Precedes, Dom
  <2>4. \A i, z : ~IsLoad(b, i, z, l)
    BY <2>2, <2>3, LoadFacts
  <2>5. st[Len(f.code[b])].rep[l] = st[0].rep[l]
    BY <1>2, <2>4, RepKept
  <2> QED BY <1>2, <2>5 DEF Symbol, Operand
<1> QED BY <1>1, <1>2

\* What the loads of a block are replaced by.
LEMMA LoadsOfBlock ==
    ASSUME Inv, NEW b \in Blocks, Pending(b), \A a \in Blocks : a # b /\ Dom(a, b) => ~Pending(a),
           NEW st, InTurn(st, b), st[0].rep = replaced,
           NEW rep, rep = st[Len(f.code[b])].rep,
           \A n \in 0 .. Len(f.code[b]) : StackAt(st[n].newest, rep, b, n + 1)
    PROVE  \A i \in Index(b) : ~f.code[b][i].isStore =>
             Replaced(rep, b, i, f.code[b][i].var, f.code[b][i].val)
<1> DEFINE N == Len(f.code[b])
           var(i) == f.code[b][i].var
           val(i) == f.code[b][i].val
           top(i) == st[i - 1].newest[var(i)]
<1>1. f \in Functions /\ replaced \in [LoadId -> Symbols]
  BY DEF Inv, TypeInv
<1>2. N \in Nat /\ Index(b) = 1 .. N /\ \A i \in Index(b) : i \in Nat /\ i - 1 \in 0 .. N /\ i \in 0 .. N
  BY <1>1, FunctionFacts
<1>3. ASSUME NEW i \in Index(b), ~f.code[b][i].isStore
      PROVE  /\ IsLoad(b, i, var(i), val(i)) /\ val(i) \in LoadId /\ var(i) \in Var
             /\ top(i) \in Seq(Symbols)
             /\ Holds(top(i), rep, DefsBefore(b, i, var(i)), var(i))
             /\ rep[val(i)] = IF top(i) = <<>> THEN Uninit ELSE Last(top(i))
  <2> DEFINE m == i - 1
             x == var(i)
             l == val(i)
  <2>1. IsLoad(b, i, x, l)
    BY <1>3 DEF IsLoad
  <2>2. l \in LoadId /\ x \in Var
    BY <1>1, <2>1, LoadFacts
  <2>3. \A j, y : IsLoad(b, j, y, l) => j = i
    BY <1>1, <2>1, LoadFacts
  <2>4. m \in 0 .. N /\ i \in 0 .. N /\ m + 1 = i /\ i > m /\ i <= i
    BY <1>2
  <2>5. LoadedBy(b, l, i) /\ LoadedAfter(b, l, m)
    BY <2>3, <2>4 DEF LoadedBy, LoadedAfter
  <2>6. LoadRenamed(st[m], st[i], b, i)
    BY <1>1, RenamedStep
  <2>7. StackAt(st[m].newest, rep, b, m + 1)
    BY <2>4
  <2>8. st[m] \in States
    BY <2>4 DEF InTurn
  <2>9. replaced[l] = Uninit
    BY <1>3 DEF Inv, LoadInv
  <2> HIDE DEF l, m, x
  <2>10. rep[l] = st[i].rep[l]
    BY <1>1, <2>2, <2>4, <2>5, RepAfter
  <2>11. st[m].rep[l] = Uninit
    BY <1>1, <2>2, <2>4, <2>5, <2>9, RepBefore
  <2>12. st[m].newest[x] \in Seq(Symbols)
    BY <2>2, <2>8 DEF States
  <2>13. Holds(st[m].newest[x], rep, DefsBefore(b, i, x), x)
    BY <2>2, <2>4, <2>7 DEF StackAt
  <2>14. rep[l] = IF st[m].newest[x] = <<>> THEN Uninit ELSE Last(st[m].newest[x])
    BY <2>1, <2>6, <2>10, <2>11 DEF LoadRenamed
  <2> QED BY <2>1, <2>2, <2>12, <2>13, <2>14 DEF l, m, x
<1> HIDE DEF N, top
<1>4. ASSUME NEW i \in Index(b), ~f.code[b][i].isStore
      PROVE  \A d \in DefsBefore(b, i, var(i)) :
               Current(d, b, i, var(i)) => rep[val(i)] = Symbol(rep, d, var(i))
  <2> DEFINE x == var(i)
  <2>1. /\ top(i) \in Seq(Symbols) /\ i \in Nat
        /\ Holds(top(i), rep, DefsBefore(b, i, x), x)
        /\ rep[val(i)] = IF top(i) = <<>> THEN Uninit ELSE Last(top(i))
    BY <1>2, <1>3, <1>4
  <2> HIDE DEF x
  <2>2. OnTop(top(i), rep, b, i, x)
    BY <1>1, <2>1, TopOfStack
  <2> QED BY <2>1, <2>2 DEF x, OnTop
\* The first load that is replaced by a phi of a block that does not dominate b.
<1> DEFINE Bad(i) == /\ i \in Index(b) /\ ~f.code[b][i].isStore
                     /\ \E e \in Blocks : \E y \in Var : rep[val(i)] = Phi(e, y) /\ ~Dom(e, b)
           T == {i \in Nat : Bad(i)}
<1>5. T = {}
  <2> SUFFICES ASSUME T # {} PROVE FALSE
    OBVIOUS
  <2>1. PICK i \in T : \A j \in T : i <= j
    BY LeastNumber
  <2>2. i \in Index(b) /\ ~f.code[b][i].isStore /\ i \in Nat
    OBVIOUS
  <2>3. PICK e \in Blocks, y \in Var : rep[val(i)] = Phi(e, y) /\ ~Dom(e, b)
    BY <2>1
  <2> DEFINE x == var(i)
  <2>4. /\ top(i) \in Seq(Symbols) /\ x \in Var
        /\ Holds(top(i), rep, DefsBefore(b, i, x), x)
        /\ rep[val(i)] = IF top(i) = <<>> THEN Uninit ELSE Last(top(i))
    BY <1>3, <2>2
  <2> HIDE DEF x, T
  <2>5. top(i) # <<>> /\ Last(top(i)) = Phi(e, y)
    BY <1>1, <2>3, <2>4, PhiFacts
  <2>6. PICK d \in DefsBefore(b, i, x) : Phi(e, y) = Symbol(rep, d, x)
    BY <1>1, <2>2, <2>4, <2>5, TopOfStack
  <2>7. d \in Blocks \X Nat /\ Def(d[1], d[2], x) /\ Before(d[1], d[2], b, i)
        /\ d[1] \in Blocks /\ d[2] \in Nat
    BY DEF DefsBefore
  <2>8. Dom(d[1], b)
    BY <1>1, <2>7, DomFacts DEF Before, Precedes, Dom
  <2>9. CASE d[2] = 0
    <3>1. e = d[1]
      BY <2>6, <2>9 DEF Symbol, Phi
    <3> QED BY <2>3, <2>8, <3>1
  <2>10. CASE d[2] # 0
    <3> DEFINE v == f.code[d[1]][d[2]].val
    <3>1. Phi(e, y) = Operand(rep, v) /\ d[2] \in Index(d[1]) /\ f.code[d[1]][d[2]].isStore
      BY <1>1, <2>6, <2>7, <2>10, FunctionFacts DEF Symbol, Def
    <3>2. CASE v \in Const \ LoadId
      BY <1>1, <3>1, <3>2, PhiFacts DEF Operand
    <3>3. CASE v \in LoadId /\ \E c, j, z : IsLoad(c, j, z, v) /\ Before(c, j, d[1], d[2])
      <4>1. PICK c, j, z : IsLoad(c, j, z, v) /\ Before(c, j, d[1], d[2])
        BY <3>3
      <4>2. c \in Blocks /\ j \in Index(c) /\ ~f.code[c][j].isStore /\ f.code[c][j].val = v
            /\ f.code[c][j].var = z
        BY <4>1 DEF IsLoad
      <4>3. rep[v] = Phi(e, y)
        BY <3>1, <3>3 DEF Operand
      <4>4. j \in Nat
        BY <1>1, <4>2, FunctionFacts
      <4>5. Before(c, j, b, i)
        BY <1>1, <2>2, <2>7, <4>1, <4>2, <4>4, BeforeIsTransitive
      <4>6. CASE c = b
        <5>1. j < i /\ ~(i <= j)
          BY <2>2, <4>4, <4>5, <4>6 DEF Before, Precedes
        <5>2. j \in T
          BY <2>3, <4>2, <4>3, <4>4, <4>6 DEF T
        <5> QED BY <2>1, <5>1, <5>2
      <4>7. CASE c # b
        <5>1. Dom(c, b)
          BY <4>5, <4>7 DEF Before, Precedes, Dom
        <5>2. Replaced(replaced, c, j, z, v)
          BY <4>2, <4>7, <5>1 DEF Inv, LoadInv
        <5>3. rep[v] = replaced[v]
          <6>1. v \in LoadId /\ \A i2, x2 : ~IsLoad(b, i2, x2, v)
            BY <1>1, <3>3, <4>1, <4>7, LoadFacts
          <6> HIDE DEF v
          <6>2. st[Len(f.code[b])].rep[v] = st[0].rep[v]
            BY <1>1, <6>1, RepKept
          <6> QED BY <6>2
        <5>4. Dom(e, c)
          BY <4>3, <5>2, <5>3 DEF Replaced
        <5> QED BY <1>1, <2>3, <5>1, <5>4, DomFacts
      <4> QED BY <4>6, <4>7
    <3> QED BY <1>1, <2>7, <3>1, <3>2, <3>3, LoadFacts
  <2> QED BY <2>9, <2>10
<1>6. ASSUME NEW i \in Index(b), ~f.code[b][i].isStore, NEW e \in Blocks, NEW y \in Var,
             rep[val(i)] = Phi(e, y)
      PROVE  Dom(e, b)
  BY <1>2, <1>5, <1>6
<1> QED BY <1>4, <1>6 DEF Replaced

\* A step of ReName keeps the invariant.
LEMMA ReNameInv == Inv /\ ReName => Inv'
<1> SUFFICES ASSUME Inv, ReName PROVE Inv'
  OBVIOUS
<1> DEFINE b == walk[1].block
           N == Len(f.code[b])
           base == [newest |-> AfterPhis(b), rep |-> replaced]
           done == FoldLeft(Renamed, base, f.code[b])
<1>1. /\ f \in Functions /\ stage = "rename" /\ walk # <<>> /\ walk[1].call /\ b \in Blocks
      /\ UNCHANGED <<f, stage, phis, bb, k, mem, loaded, ssa>>
      /\ newest_live_var' = done.newest /\ replaced' = done.rep
      /\ params' = [p \in DOMAIN params |->
                      IF /\ p[3] = b /\ p[1] \in SuccsOf(f.succ, b)
                         /\ p[2] \in phis[p[1]] /\ done.newest[p[2]] # <<>>
                      THEN Last(done.newest[p[2]]) ELSE params[p]]
      /\ \E calls \in Calls(b) :
           walk' = calls \o <<[call |-> FALSE, block |-> b]>> \o Tail(walk)
  BY HeadFacts DEF Inv, TypeInv, ReName, run
<1>2. /\ Blocks' = Blocks /\ Phis' = Phis /\ Symbols' = Symbols /\ Entries' = Entries
      /\ \A c : Succs(c)' = Succs(c) /\ Index(c)' = Index(c) /\ End(c)' = End(c)
      /\ \A c : DF(c)' = DF(c)
      /\ \A a, c : Dom(a, c)' = Dom(a, c)
      /\ \A c, x : Stores(c, x)' = Stores(c, x)
      /\ \A rep, d, x : Symbol(rep, d, x)' = Symbol(rep, d, x)
  BY <1>1, SameFunction
<1>3. /\ \A c, n, x : DefsBefore(c, n, x)' = DefsBefore(c, n, x)
      /\ \A d, c, n, x : Current(d, c, n, x)' = Current(d, c, n, x)
      /\ \A set, x : DefsIn(set, x)' = DefsIn(set, x)
      /\ \A s, rep, set, x : Holds(s, rep, set, x)' = Holds(s, rep, set, x)
      /\ \A rep, c, i, x, l : Replaced(rep, c, i, x, l)' = Replaced(rep, c, i, x, l)
  BY <1>1, SameDefs
<1>4. /\ newest_live_var \in [Var -> Seq(Symbols)] /\ replaced \in [LoadId -> Symbols]
      /\ phis \in [Blocks -> SUBSET Var] /\ walk \in Seq(Entries)
      /\ params \in [Blocks \X Var \X Blocks -> Symbols]
      /\ f.code[b] \in Seq(Instruction) /\ N \in Nat /\ Index(b) = 1 .. N
  BY <1>1, FunctionFacts DEF Inv, TypeInv
<1>5. base \in States
  <2>1. ASSUME NEW x \in Var PROVE Append(newest_live_var[x], Phi(b, x)) \in Seq(Symbols)
    <3>1. newest_live_var[x] \in Seq(Symbols)
      BY <1>4
    <3> HIDE DEF b
    <3>2. Phi(b, x) \in Symbols
      BY <1>1 DEF Symbols, Phis
    <3> QED BY <3>1, <3>2
  <2>2. AfterPhis(b) \in [Var -> Seq(Symbols)]
    BY <1>4, <2>1 DEF AfterPhis
  <2> QED BY <1>4, <2>2 DEF States
<1>6. PICK st : /\ st[0] = base
                /\ \A n \in 0 .. N : st[n] \in States
                /\ \A n \in 1 .. N : st[n] = Renamed(st[n - 1], f.code[b][n])
                /\ st[N] = done
  BY <1>4, <1>5, RenamedInTurn
<1>7. /\ InTurn(st, b) /\ done \in States
      /\ st[0].newest = [x \in Var |-> IF x \in phis[b] THEN Append(newest_live_var[x], Phi(b, x))
                                       ELSE newest_live_var[x]]
      /\ st[0].rep = replaced /\ st[N].rep = done.rep /\ st[N].newest = done.newest
  <2>1. base.newest = AfterPhis(b) /\ base.rep = replaced
    OBVIOUS
  <2> HIDE DEF done, base
  <2>2. N \in 0 .. N
    BY <1>4
  <2>3. InTurn(st, b)
    BY <1>6 DEF InTurn
  <2> QED BY <1>6, <2>1, <2>2, <2>3 DEF AfterPhis
<1> HIDE DEF done, base
<1>8. OpenBlocks = {a \in Blocks : a # b /\ Dom(a, b)}
  BY <1>1, HeadFacts DEF Inv
<1>9. /\ StackAt(newest_live_var, done.rep, b, 0)
      /\ \A n \in 0 .. N : StackAt(st[n].newest, done.rep, b, n + 1)
  <2>1. StackAt(newest_live_var, st[0].rep, b, 0)
    BY <1>1, <1>7, <1>8, DefsOfDominators DEF Inv, StackInv, StackAt
  <2> QED BY <1>1, <1>4, <1>7, <2>1, BlockRenamed
\* The walk.
<1>10. PICK w : w = walk'
  OBVIOUS
<1>11. /\ InOrder(w) /\ w \in Seq(Entries)
       /\ {w[n].block : n \in {m \in DOMAIN w : ~w[m].call}} = OpenBlocks \cup {b}
       /\ \A d \in Blocks :
            (\E n \in DOMAIN w : w[n].call /\ Dom(w[n].block, d)) <=>
              d # b /\ \E q \in DOMAIN walk : walk[q].call /\ Dom(walk[q].block, d)
  <2>1. PICK calls \in Calls(b) : w = calls \o <<[call |-> FALSE, block |-> b]>> \o Tail(walk)
    BY <1>1, <1>10
  <2>2. Children(calls, b)
    BY <1>1, CallsAreChildren
  <2>3. Replaces(w, calls, [call |-> FALSE, block |-> b], walk)
    <3>1. calls \in Seq(Entries)
      BY <2>2 DEF Children
    <3>2. [call |-> FALSE, block |-> b] \in Entries
      BY <1>1 DEF Entries
    <3> QED BY <1>1, <1>4, <2>1, <3>1, <3>2, ReplacesHead
  <2> HIDE DEF b
  <2>4. /\ InOrder(w)
        /\ {w[n].block : n \in {m \in DOMAIN w : ~w[m].call}} = OpenBlocks \cup {b}
        /\ \A d \in Blocks :
             (\E n \in DOMAIN w : w[n].call /\ Dom(w[n].block, d)) <=>
               d # b /\ \E q \in DOMAIN walk : walk[q].call /\ Dom(walk[q].block, d)
    BY <1>1, <2>2, <2>3, WalkGoesDown DEF Inv, b
  <2> QED BY <2>3, <2>4 DEF Replaces
<1>12. \A d \in Blocks : /\ Pending(d)' <=> Pending(d) /\ d # b
                         /\ Pending(d) <=> \E q \in DOMAIN walk : walk[q].call /\ Dom(walk[q].block, d)
  <2>1. \A d \in Blocks : Pending(d)' <=> \E n \in DOMAIN w : w[n].call /\ Dom(w[n].block, d)
    BY <1>1, <1>2, <1>10 DEF Pending
  <2>2. \A d \in Blocks : Pending(d) <=> \E q \in DOMAIN walk : walk[q].call /\ Dom(walk[q].block, d)
    BY <1>1 DEF Pending
  <2> QED BY <1>11, <2>1, <2>2
<1>13. \A d \in Blocks : Dom(b, d) => Pending(d)
  BY <1>1, <1>4, <1>12
<1>14. \A a \in Blocks : a # b /\ Dom(a, b) => ~Pending(a)
  <2> SUFFICES ASSUME NEW a \in Blocks, a # b, Dom(a, b), NEW q \in DOMAIN walk,
                      walk[q].call, Dom(walk[q].block, a)
               PROVE  FALSE
    BY <1>12
  <2>1. Dom(walk[q].block, b) /\ walk[q].block \in Blocks
    <3>1. walk[q] \in Entries
      BY <1>4
    <3>2. walk[q].block \in Blocks
      BY <3>1 DEF Entries
    <3> QED BY <1>1, <3>2, DomFacts
  <2>2. q = 1
    BY <1>1, <1>4, <2>1 DEF Inv, WalkInv, InOrder
  <2> QED BY <1>1, <2>2, DomFacts
<1>15. Pending(b)
  BY <1>1, <1>13, DomFacts
\* What has been replaced before stays.
<1>16. \A c \in Blocks : ~Pending(c) =>
         \A n, x : \A d \in DefsBefore(c, n, x) : Symbol(done.rep, d, x) = Symbol(replaced, d, x)
  <2> SUFFICES ASSUME NEW c \in Blocks, ~Pending(c), NEW n, NEW x, NEW d \in DefsBefore(c, n, x)
               PROVE  Symbol(done.rep, d, x) = Symbol(replaced, d, x)
    OBVIOUS
  <2>1. d \in Blocks \X Nat /\ Def(d[1], d[2], x) /\ Before(d[1], d[2], c, n)
    BY DEF DefsBefore
  <2>2. Dom(d[1], c)
    BY <1>1, <2>1, DomFacts DEF Before, Precedes, Dom
  <2>3. ~Dom(b, d[1])
    BY <1>1, <1>13, <2>2, DomFacts
  <2> HIDE DEF b
  <2>4. Symbol(st[Len(f.code[b])].rep, d, x) = Symbol(st[0].rep, d, x)
    <3>1. f \in Functions /\ b \in Blocks /\ InTurn(st, b)
      BY <1>1, <1>7
    <3> QED BY <2>1, <2>3, <3>1, SymbolKept
  <2> QED BY <1>7, <2>4
<1>17. \A c \in Blocks : c # b => \A i \in Index(c) : ~f.code[c][i].isStore =>
         done.rep[f.code[c][i].val] = replaced[f.code[c][i].val]
  <2> SUFFICES ASSUME NEW c \in Blocks, c # b, NEW i \in Index(c), ~f.code[c][i].isStore
               PROVE  done.rep[f.code[c][i].val] = replaced[f.code[c][i].val]
    OBVIOUS
  <2> DEFINE l == f.code[c][i].val
  <2>1. IsLoad(c, i, f.code[c][i].var, l)
    BY DEF IsLoad
  <2>2. l \in LoadId /\ \A j, x : ~IsLoad(b, j, x, l)
    BY <1>1, <2>1, LoadFacts
  <2> HIDE DEF l, b
  <2>3. st[Len(f.code[b])].rep[l] = st[0].rep[l]
    <3>1. f \in Functions /\ b \in Blocks /\ InTurn(st, b)
      BY <1>1, <1>7
    <3> QED BY <2>2, <3>1, RepKept
  <2> QED BY <1>7, <2>3 DEF l
<1>18. TypeInv'
  <2>1. done.newest \in [Var -> Seq(Symbols)] /\ done.rep \in [LoadId -> Symbols]
    BY <1>7 DEF States
  <2>2. \A x \in Var : done.newest[x] # <<>> => Last(done.newest[x]) \in Symbols
    <3> SUFFICES ASSUME NEW x \in Var, done.newest[x] # <<>> PROVE Last(done.newest[x]) \in Symbols
      OBVIOUS
    <3>1. PICK s : s = done.newest[x]
      OBVIOUS
    <3>2. s \in Seq(Symbols) /\ s # <<>>
      BY <2>1, <3>1
    <3>3. Last(s) \in Symbols
      BY <3>2 DEF Last
    <3> QED BY <3>1, <3>3
  <2>3. params' \in [Blocks \X Var \X Blocks -> Symbols]
    <3>1. \A p \in Blocks \X Var \X Blocks : p[2] \in Var /\ params[p] \in Symbols
      BY <1>4
    <3> QED BY <1>1, <1>4, <2>2, <3>1
  <2> QED BY <1>1, <1>2, <1>10, <1>11, <2>1, <2>3 DEF Inv, TypeInv
<1>19. WalkInv'
  <2>1. InOrder(walk)'
    BY <1>2, <1>10, <1>11 DEF InOrder
  <2> QED BY <1>1, <2>1 DEF WalkInv
<1>20. StackInv'
  <2>1. OpenBlocks' = {a \in Blocks : Dom(a, b)}
    <3>1. OpenBlocks' = OpenBlocks \cup {b}
      BY <1>10, <1>11 DEF OpenBlocks
    <3>2. Dom(b, b)
      BY <1>1, DomFacts
    <3> QED BY <1>1, <1>8, <3>1, <3>2
  <2> SUFFICES ASSUME NEW x \in Var
               PROVE  Holds(done.newest[x], done.rep, DefsBefore(b, End(b), x), x)
    BY <1>1, <1>3, <2>1, DefsOfDominators DEF StackInv
  <2>2. N \in 0 .. N /\ N + 1 = End(b)
    BY <1>4 DEF End
  <2> QED BY <1>7, <1>9, <2>2 DEF StackAt
<1>21. PhiInv'
  BY <1>1, <1>2 DEF Inv, PhiInv
<1>22. LoadInv'
  <2> SUFFICES ASSUME NEW c \in Blocks, NEW i \in Index(c), ~f.code[c][i].isStore
               PROVE  IF Pending(c) /\ c # b THEN done.rep[f.code[c][i].val] = Uninit
                      ELSE Replaced(done.rep, c, i, f.code[c][i].var, f.code[c][i].val)
    BY <1>1, <1>2, <1>3, <1>12 DEF LoadInv
  <2>1. CASE c = b
    BY <1>1, <1>7, <1>9, <1>14, <1>15, <2>1, LoadsOfBlock
  <2>2. CASE c # b /\ Pending(c)
    BY <1>17, <2>2 DEF Inv, LoadInv
  <2>3. CASE c # b /\ ~Pending(c)
    <3>1. Replaced(replaced, c, i, f.code[c][i].var, f.code[c][i].val)
      BY <2>3 DEF Inv, LoadInv
    <3>2. done.rep[f.code[c][i].val] = replaced[f.code[c][i].val]
      BY <1>17, <2>3
    <3> QED BY <1>16, <2>3, <3>1, <3>2 DEF Replaced
  <2> QED BY <2>1, <2>2, <2>3
<1>23. ParamInv'
  <2> SUFFICES ASSUME NEW c \in Blocks, ~Pending(c) \/ c = b, NEW s \in Succs(c), NEW x \in phis[s],
                      NEW d \in DefsBefore(c, End(c), x), Current(d, c, End(c), x)
               PROVE  params'[<<s, x, c>>] = Symbol(done.rep, d, x)
    BY <1>1, <1>2, <1>3, <1>12 DEF ParamInv
  <2>1. s \in Blocks /\ x \in Var /\ <<s, x, c>> \in DOMAIN params
    BY <1>1, <1>4, FunctionFacts
  <2>2. CASE c = b
    <3>1. PICK t : t = done.newest[x]
      OBVIOUS
    <3>2. t \in Seq(Symbols)
      BY <1>7, <2>1, <3>1 DEF States
    <3>3. N \in 0 .. N /\ N + 1 = End(b) /\ End(b) \in Nat
      BY <1>4 DEF End
    <3>4. Holds(t, done.rep, DefsBefore(b, End(b), x), x)
      BY <1>7, <1>9, <2>1, <3>1, <3>3 DEF StackAt
    <3>5. OnTop(t, done.rep, b, End(b), x)
      BY <1>1, <3>2, <3>3, <3>4, TopOfStack
    <3>6. t # <<>> /\ Last(t) = Symbol(done.rep, d, x)
      BY <2>2, <3>5 DEF OnTop
    <3>7. s \in SuccsOf(f.succ, b)
      BY <2>2 DEF Succs
    <3> QED BY <1>1, <2>1, <2>2, <3>1, <3>6, <3>7
  <2>3. CASE c # b /\ ~Pending(c)
    <3>1. params'[<<s, x, c>>] = params[<<s, x, c>>]
      BY <1>1, <2>1, <2>3
    <3>2. params[<<s, x, c>>] = Symbol(replaced, d, x)
      BY <2>3 DEF Inv, ParamInv
    <3> QED BY <1>16, <2>3, <3>1, <3>2
  <2> QED BY <1>15, <2>2, <2>3
<1>24. RunInv'
  BY <1>1 DEF Inv, RunInv
<1> QED BY <1>18, <1>19, <1>20, <1>21, <1>22, <1>23, <1>24 DEF Inv

-----------------------------------------------------------------------------
(* Theorems *)

\* The invariant: the stacks hold, along the way down the dominator tree, the
\* values of the definitions of the blocks on it, every load renamed has been
\* replaced by the definition it sees, and so have the operands of the phis.
THEOREM Invariance == Spec => []Inv
<1>1. Inv /\ [Next]_vars => Inv'
  <2> SUFFICES ASSUME Inv, [Next]_vars PROVE Inv'
    OBVIOUS
  <2>1. CASE UNCHANGED vars
    <3>1. UNCHANGED <<f, stage, phis, walk, newest_live_var, replaced, params, bb, k, mem, loaded, ssa>>
      BY <2>1 DEF vars
    <3>2. /\ Blocks' = Blocks /\ Phis' = Phis /\ Symbols' = Symbols /\ Entries' = Entries
          /\ \A b : Index(b)' = Index(b) /\ End(b)' = End(b)
          /\ \A c, i, b, n : Before(c, i, b, n)' = Before(c, i, b, n)
          /\ \A rep, d, x : Symbol(rep, d, x)' = Symbol(rep, d, x)
      BY <3>1, SameFunction
    <3>3. /\ \A b, n, x : DefsBefore(b, n, x)' = DefsBefore(b, n, x)
          /\ \A d, b, n, x : Current(d, b, n, x)' = Current(d, b, n, x)
      BY <3>1, SameDefs
    <3>4. \A v : Content(v)' = Content(v)
      BY <3>1 DEF Content
    <3>5. TypeInv'
      BY <3>1, <3>2 DEF Inv, TypeInv
    <3>6. MemInv => MemInv'
      BY <3>1, <3>2, <3>3, <3>4 DEF MemInv
    <3>7. LoadedInv => LoadedInv'
      BY <3>1, <3>2, <3>4 DEF LoadedInv
    <3>8. RunInv'
      BY <3>1, <3>6, <3>7 DEF Inv, RunInv
    <3> QED BY <3>1, <3>5, <3>8, RunStepKeeps DEF Inv
  <2>2. CASE \E s \in Blocks : Branch(s)
    BY <2>2, BranchInv
  <2>3. CASE Return
    BY <2>1, <2>3 DEF Return
  <2> QED BY <2>1, <2>2, <2>3, GenPhiInv, ReNameInv, EndReNameInv, StartRunInv, ExecuteInv DEF Next
<1> QED BY <1>1, InitInv, PTL DEF Spec

\* Whatever the function, what the blocks on the way down from the root pushed
\* is on the stacks and nothing else: EndReName pops what ReName pushed.
THEOREM StacksAreThoseOfTheWayDown == Spec => []StacksFollowTree
<1>1. Inv => StacksFollowTree
  <2> SUFFICES ASSUME Inv, NEW x \in Var
               PROVE  Len(newest_live_var[x]) = FoldSet(LAMBDA b, n : n + Pushes(b, x), 0, OpenBlocks)
    BY DEF StacksFollowTree, OpenBlocks
  <2>1. OpenBlocks \subseteq Blocks /\ f \in Functions
    <3>1. \A n \in DOMAIN walk : walk[n] \in Entries
      BY DEF Inv, TypeInv
    <3>2. \A n \in DOMAIN walk : walk[n].block \in Blocks
      BY <3>1 DEF Entries
    <3> QED BY <3>2 DEF OpenBlocks, Inv, TypeInv
  <2>2. Len(newest_live_var[x]) = Cardinality(DefsIn(OpenBlocks, x))
    BY DEF Inv, StackInv, Holds
  <2> QED BY <2>1, <2>2, SumOfPushes
<1> QED BY <1>1, Invariance, PTL

\* Whatever the function and the path, a load that has a value is replaced by
\* one with the same contents: the phis are where they have to be, and their
\* operands are what the ends of the predecessors see.
THEOREM LoadsAgreeOnEveryPath == Spec => []LoadsAgree
<1>1. Inv => LoadsAgree
  <2> SUFFICES ASSUME Inv, stage = "run", k <= Len(f.code[bb]), ~f.code[bb][k].isStore,
                      mem[f.code[bb][k].var] # Uninit
               PROVE  Content(replaced[f.code[bb][k].val]) = mem[f.code[bb][k].var]
    BY DEF LoadsAgree
  <2> DEFINE x == f.code[bb][k].var
  <2>1. f \in Functions /\ bb \in Blocks /\ k \in 1 .. End(bb)
    BY DEF Inv, TypeInv
  <2>2. k \in Index(bb) /\ x \in Var
    <3>1. k \in Index(bb)
      BY <2>1, FunctionFacts DEF End
    <3> QED BY <2>1, <3>1, FunctionFacts DEF Instruction
  <2>3. PICK d \in DefsBefore(bb, k, x) : Current(d, bb, k, x) /\ Content(Symbol(replaced, d, x)) = mem[x]
    BY <2>2 DEF Inv, RunInv, MemInv
  <2>4. Replaced(replaced, bb, k, x, f.code[bb][k].val)
    BY <2>1, <2>2, RunFacts
  <2>5. replaced[f.code[bb][k].val] = Symbol(replaced, d, x)
    BY <2>3, <2>4 DEF Replaced
  <2> QED BY <2>3, <2>5
<1> QED BY <1>1, Invariance, PTL
=============================================================================
