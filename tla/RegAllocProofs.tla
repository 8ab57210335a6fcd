---------------------------- MODULE RegAllocProofs ----------------------------
(***************************************************************************)
(* CodeGen::regAlloc colours properly, and the function runs correctly on  *)
(* what it returns, for every function in static single assignment form,   *)
(* every register file and every order of the values.                      *)
(*                                                                         *)
(* The colouring rests on two facts: edges are entered in both directions, *)
(* and all of them before the first value is coloured.  The run rests on   *)
(* what the walk counts: the values still counted when it comes to a       *)
(* definition include all that have to be kept over it, whatever the path  *)
(* by which the run gets there, so each of them interferes with the value  *)
(* defined and is known to the call that defines it.                       *)
(***************************************************************************)
EXTENDS RegAlloc, FlowGraphProofs

\* Only the thread id may have the register __mtstart returns it in.
ThreadIdKept ==
    mt_inside => \A v \in DOMAIN mapping \ {f.tid} : mapping[v] # thread_id_reg

Symmetric == \A v, w : <<v, w>> \in IG => <<w, v>> \in IG

IInv == /\ TypeOK
        /\ stage # "live" => live_in \in [Blocks -> SUBSET Value]
        /\ stage = "inst" => bb <= Len(f.code)
        /\ stage \in {"live", "block", "inst"} => DOMAIN mapping = {}
        /\ Symmetric
        /\ ProperColouring
        /\ ThreadIdKept

-----------------------------------------------------------------------------
(* Functions *)

\* The parts of a function have the types they should.
LEMMA FunctionType ==
    ASSUME f \in Functions
    PROVE  /\ f.args \subseteq Value
           /\ f.order \in Seq(Value)
           /\ f.tid \in Value \cup {NoValue}
           /\ Len(f.code) \in Nat
           /\ Blocks = 1 .. Len(f.code)
           /\ \A b \in Blocks : /\ Len(f.code[b]) \in Nat
                                /\ Index(b) = 1 .. Len(f.code[b])
                                /\ \A i \in Index(b) : f.code[b][i] \in Instruction
<1>1. f.code \in Seq(Seq(Instruction)) /\ f.args \subseteq Value /\ f.order \in Seq(Value)
      /\ f.tid \in Value \cup {NoValue}
  BY FunctionAssumption
<1>2. Len(f.code) \in Nat /\ Blocks = 1 .. Len(f.code)
  BY <1>1 DEF Blocks
<1>3. \A b \in Blocks : f.code[b] \in Seq(Instruction)
  BY <1>1, <1>2
<1>4. ASSUME NEW b \in Blocks
      PROVE  /\ Len(f.code[b]) \in Nat
             /\ Index(b) = 1 .. Len(f.code[b])
             /\ \A i \in Index(b) : f.code[b][i] \in Instruction
  <2>1. f.code[b] \in Seq(Instruction)
    BY <1>3
  <2> QED BY <2>1 DEF Index
<1> QED BY <1>1, <1>2, <1>4

\* The values of a function are values.
LEMMA ValuesAreValues ==
    ASSUME f \in Functions
    PROVE  Values \subseteq Value /\ \A b \in Blocks : Phis(b) \subseteq Value
<1>1. \A b \in Blocks : \A i \in Index(b) : f.code[b][i].def \in Value \cup {NoValue}
  BY FunctionType DEF Instruction
<1>2. \A b \in Blocks : Defs(b) \subseteq Value
  BY <1>1 DEF Defs, DefsOf, Index
<1>3. \A b \in Blocks : Phis(b) \subseteq Value
  BY FunctionAssumption DEF Phis, IsPhi, Blocks, Index
<1> QED BY <1>2, <1>3, FunctionType DEF Values

\* An instruction uses a value a finite number of times.
LEMMA UsesFinite ==
    ASSUME NEW inst \in Instruction, NEW v
    PROVE  IsFiniteSet(Uses(inst, v)) /\ Cardinality(Uses(inst, v)) \in Nat
<1>1. inst.ops \in Seq(Value)
  BY DEF Instruction
<1>2. DOMAIN inst.ops = 1 .. Len(inst.ops) /\ Len(inst.ops) \in Nat
  BY <1>1
<1>a. /\ 1 \in Int
      /\ Len(inst.ops) \in Int
  BY <1>2
<1>b. IsFiniteSet(1 .. Len(inst.ops))
  BY <1>a, FS_Interval
<1>3. IsFiniteSet(DOMAIN inst.ops)
  BY <1>2, <1>b
<1>4. Uses(inst, v) \in SUBSET DOMAIN inst.ops
  BY DEF Uses
<1>5. IsFiniteSet(Uses(inst, v))
  BY <1>3, <1>4, FS_Subset
<1> QED BY <1>5, FS_CardinalityType

\* The uses in a stretch of a block, which can be counted.
UseSet(b, v, i, j) == UNION {{n} \X Uses(f.code[b][n], v) : n \in i .. j}

\* The uses in a stretch of a block are finitely many.
LEMMA UsesWithinParts ==
    ASSUME f \in Functions, NEW b \in Blocks, NEW v, NEW i \in Nat \ {0}, NEW j \in Nat, j <= Len(f.code[b])
    PROVE  /\ IsFiniteSet(UseSet(b, v, i, j))
           /\ UsesWithin(b, v, i, j) = Cardinality(UseSet(b, v, i, j))
<1> DEFINE Part(n) == {n} \X Uses(f.code[b][n], v)
           S == {Part(n) : n \in i .. j}
           g == [n \in i .. j |-> Part(n)]
<1>1. IsFiniteSet(i .. j)
  <2>1. i \in Int /\ j \in Int
    OBVIOUS
  <2> QED BY <2>1, FS_Interval
<1>2. g \in Surjection(i .. j, S)
  BY DEF Surjection
<1>3. IsFiniteSet(S)
  <2> HIDE DEF S, g
  <2> QED BY <1>1, <1>2, FS_Surjection
<1>4. ASSUME NEW n \in i .. j
      PROVE  IsFiniteSet(Part(n))
  <2>1. n \in Index(b) /\ f.code[b][n] \in Instruction
    BY FunctionType
  <2>2. IsFiniteSet(Uses(f.code[b][n], v))
    BY <2>1, UsesFinite
  <2> QED BY <2>2, FS_Singleton, FS_Product
<1>5. \A T \in S : IsFiniteSet(T)
  BY <1>4
<1>6. IsFiniteSet(UNION S)
  <2> HIDE DEF S
  <2> QED BY <1>3, <1>5, FS_UNION
<1> QED BY <1>6 DEF UsesWithin, UseSet

\* So their number is a natural.
LEMMA UsesWithinIsNat ==
    ASSUME f \in Functions, NEW b \in Blocks, NEW v,
           NEW i \in Nat \ {0}, NEW j \in Nat, j <= Len(f.code[b])
    PROVE  UsesWithin(b, v, i, j) \in Nat
BY UsesWithinParts, FS_CardinalityType

\* The count a block starts with is a natural.
LEMMA InitialRemainIsNat ==
    ASSUME f \in Functions, NEW b \in Blocks, NEW v
    PROVE  InitialRemain(b, v) \in Nat
<1>1. Len(f.code[b]) \in Nat /\ Index(b) = 1 .. Len(f.code[b])
  BY FunctionType
<1>2. LeftOver(b, v) \in Nat
  BY DEF LeftOver
<1>3. UsesWithin(b, v, 1, Len(f.code[b])) \in Nat
  BY <1>1, UsesWithinIsNat
<1>4. ASSUME Defines(b, v)
      PROVE  UsesWithin(b, v, 1, CHOOSE i \in Index(b) : f.code[b][i].def = v) \in Nat
  <2> DEFINE d == CHOOSE i \in Index(b) : f.code[b][i].def = v
  <2>1. \E i \in Index(b) : f.code[b][i].def = v
    BY <1>4 DEF Defines, Defs, DefsOf, Index
  <2>2. d \in Index(b)
    BY <2>1
  <2>3. d \in Nat /\ d <= Len(f.code[b])
    BY <2>2, <1>1
  <2>4. UsesWithin(b, v, 1, d) \in Nat
    <3> HIDE DEF d
    <3> QED BY <2>3, UsesWithinIsNat
  <2> QED BY <2>4
<1> QED BY <1>2, <1>3, <1>4 DEF InitialRemain

\* Reading the operands leaves counts.
LEMMA ReadType ==
    ASSUME NEW inst \in Instruction, remain \in [Value -> Nat]
    PROVE  Read(inst) \in [Value -> Nat]
<1> SUFFICES ASSUME NEW v \in Value
             PROVE  LET n == Cardinality(Uses(inst, v))
                    IN  (IF remain[v] <= n THEN 0 ELSE remain[v] - n) \in Nat
  BY DEF Read
<1>1. Cardinality(Uses(inst, v)) \in Nat /\ remain[v] \in Nat
  BY UsesFinite
<1> QED BY <1>1

-----------------------------------------------------------------------------
(* Steps *)

\* While no value has a register the colouring is proper.
LEMMA NothingColoured ==
    ASSUME DOMAIN mapping = {}
    PROVE  ProperColouring /\ ThreadIdKept
BY DEF ProperColouring, ThreadIdKept, mt_inside

\* The invariant of the colouring, step by step.
LEMMA Initially == Init => IInv
<1> SUFFICES ASSUME Init PROVE IInv
  OBVIOUS
<1>1. DOMAIN mapping = {}
  BY DEF Init
<1>2. TypeOK
  BY <1>1 DEF Init, TypeOK
<1> QED BY <1>1, <1>2, NothingColoured DEF Init, IInv, Symmetric

\* Arguments interfere with each other.
LEMMA FindLiveStep == IInv /\ FindLive => IInv'
<1> SUFFICES ASSUME IInv, FindLive PROVE IInv'
  OBVIOUS
<1> USE DEF FindLive
<1>1. f \in Functions
  BY DEF IInv, TypeOK
<1>2. IG' \subseteq Value \X Value
  BY <1>1, FunctionType
<1>3. TypeOK'
  BY <1>2 DEF IInv, TypeOK
<1>4. live_in' \in [Blocks -> SUBSET Value]
  <2>1. \A b \in Blocks : {v \in Values : b \in LiveIn(v)} \subseteq Value
    BY <1>1, ValuesAreValues
  <2> QED BY <2>1
<1>5. (live_in \in [Blocks -> SUBSET Value])'
  BY <1>4 DEF Blocks
<1>6. (DOMAIN mapping = {})'
  BY DEF IInv
<1>7. Symmetric'
  BY DEF Symmetric
<1>8. ProperColouring' /\ ThreadIdKept'
  BY <1>6 DEF ProperColouring, ThreadIdKept, mt_inside
<1> QED BY <1>3, <1>5, <1>6, <1>7, <1>8 DEF IInv

\* The phis of a block interfere with each other.
LEMMA StartBlockStep == IInv /\ StartBlock => IInv'
<1> SUFFICES ASSUME IInv, StartBlock PROVE IInv'
  OBVIOUS
<1> USE DEF StartBlock
<1>1. f \in Functions /\ bb \in Blocks
  BY FunctionType DEF IInv, TypeOK
<1>2. (live_in \in [Blocks -> SUBSET Value])'
  BY DEF IInv, Blocks
<1>3. living' \subseteq Value
  BY <1>1 DEF IInv
<1>4. remain' \in [Value -> Nat]
  BY <1>1, InitialRemainIsNat
<1>5. Clique(Phis(bb)) \subseteq Value \X Value
  <2>1. Phis(bb) \subseteq Value
    BY <1>1, ValuesAreValues
  <2> QED BY <2>1 DEF Clique
<1>6. TypeOK'
  BY <1>3, <1>4, <1>5 DEF IInv, TypeOK
<1>7. (bb <= Len(f.code))' /\ (DOMAIN mapping = {})'
  BY DEF IInv
<1>8. Symmetric'
  BY DEF IInv, Symmetric, Clique
<1>9. ProperColouring' /\ ThreadIdKept'
  BY <1>7 DEF ProperColouring, ThreadIdKept, mt_inside
<1> QED BY <1>2, <1>6, <1>7, <1>8, <1>9 DEF IInv

\* Edges are entered both ways while nothing is coloured.
LEMMA ProcessInstStep == IInv /\ ProcessInst => IInv'
<1> SUFFICES ASSUME IInv, ProcessInst PROVE IInv'
  OBVIOUS
<1> DEFINE inst == f.code[bb][k]
           v == inst.def
           rest == Read(inst)
<1>1. f \in Functions /\ bb \in Blocks /\ k \in Nat \ {0} /\ stage = "inst"
  BY FunctionType DEF IInv, TypeOK, ProcessInst
<1>2. inst \in Instruction /\ Len(f.code[bb]) \in Nat
  BY <1>1, FunctionType DEF ProcessInst
<1>3. rest \in [Value -> Nat]
  BY <1>2, ReadType DEF IInv, TypeOK
<1>4. Active(rest) \subseteq Value
  BY DEF IInv, TypeOK, Active
<1>5. v \in Value \cup {NoValue}
  BY <1>2 DEF Instruction
<1>6. UNCHANGED <<f, stage, bb, live_in, list, mapping>> /\ k' = k + 1
  BY DEF ProcessInst
<1>7. CASE v = NoValue
  <2>1. remain' = rest /\ IG' = IG /\ living' = living
    BY <1>7 DEF ProcessInst
  <2> HIDE DEF rest
  <2> QED BY <1>1, <1>3, <1>6, <2>1
          DEF IInv, TypeOK, Symmetric, ProperColouring, ThreadIdKept, mt_inside, Blocks
<1>8. CASE v # NoValue
  <2> DEFINE n == UsesWithin(bb, v, k + 1, Len(f.code[bb]))
             left == LeftOver(bb, v)
  <2>1. /\ remain' = [rest EXCEPT ![v] = @ + n + left]
        /\ IG' = IG \cup ({v} \X Active(rest)) \cup (Active(rest) \X {v})
        /\ living' = living \cup {v}
    BY <1>8 DEF ProcessInst
  <2>2. n \in Nat /\ left \in Nat
    BY <1>1, <1>2, UsesWithinIsNat DEF LeftOver
  <2>3. v \in Value
    BY <1>5, <1>8
  <2> HIDE DEF v, rest, n, left
  <2>4. remain' \in [Value -> Nat]
    BY <1>3, <2>1, <2>2, <2>3
  <2>5. TypeOK'
    BY <1>1, <1>4, <1>6, <2>1, <2>3, <2>4 DEF IInv, TypeOK
  <2>6. (DOMAIN mapping = {})' /\ (bb <= Len(f.code))'
    BY <1>1, <1>6 DEF IInv
  <2>7. Symmetric'
    BY <2>1 DEF IInv, Symmetric
  <2>8. ProperColouring' /\ ThreadIdKept'
    BY <2>6 DEF ProperColouring, ThreadIdKept, mt_inside
  <2>9. (live_in \in [Blocks -> SUBSET Value])'
    BY <1>1, <1>6 DEF IInv, Blocks
  <2> QED BY <2>5, <2>6, <2>7, <2>8, <2>9 DEF IInv
<1> QED BY <1>7, <1>8

\* From block to block nothing is entered.
LEMMA BlockSteps == IInv /\ (EndBlock \/ StartColour) => IInv'
<1> SUFFICES ASSUME IInv, EndBlock \/ StartColour PROVE IInv'
  OBVIOUS
<1>1. f \in Functions
  BY DEF IInv, TypeOK
<1>2. CASE EndBlock
  BY <1>2 DEF EndBlock, IInv, TypeOK, Symmetric, ProperColouring, ThreadIdKept, mt_inside, Blocks
<1>3. CASE StartColour
  <2>1. f.order \in Seq(Value)
    BY <1>1, FunctionType
  <2> QED BY <1>3, <2>1
          DEF StartColour, IInv, TypeOK, Symmetric, ProperColouring, ThreadIdKept, mt_inside, Blocks
<1> QED BY <1>2, <1>3

\* The value coloured avoids its coloured neighbours; by symmetry they are all
\* the coloured values that have it for a neighbour.
LEMMA ColourStep == IInv /\ Colour => IInv'
<1> SUFFICES ASSUME IInv, Colour PROVE IInv'
  OBVIOUS
<1> DEFINE v == Head(list)
<1>1. UNCHANGED <<f, stage, bb, k, live_in, living, remain, IG>> /\ stage = "colour"
  BY DEF Colour
<1>2. v \in Value /\ list' \in Seq(Value)
  BY DEF IInv, TypeOK, Colour
<1>3. CASE mapping' = mapping
  BY <1>1, <1>2, <1>3 DEF IInv, TypeOK, Symmetric, ProperColouring, ThreadIdKept, mt_inside, Blocks
<1>4. ASSUME NEW r \in Allowed(v), v \notin DOMAIN mapping, mapping' = With(mapping, v, r)
      PROVE  IInv'
  <2> HIDE DEF v
  <2>1. /\ DOMAIN mapping' = DOMAIN mapping \cup {v}
        /\ \A w \in DOMAIN mapping : mapping'[w] = mapping[w]
        /\ mapping'[v] = r
    BY <1>4 DEF With
  <2>2. r \in allocate_regs /\ (mt_inside => r # thread_id_reg)
    BY <1>4 DEF Allowed
  <2>3. \A w \in DOMAIN mapping : <<v, w>> \in IG => mapping[w] # r
    BY DEF Allowed
  <2>4. TypeOK'
    BY <1>1, <1>2, <2>1, <2>2 DEF IInv, TypeOK
  <2>5. ProperColouring'
    <3> SUFFICES ASSUME NEW e \in IG, e[1] # e[2],
                        e[1] \in DOMAIN mapping', e[2] \in DOMAIN mapping'
                 PROVE  mapping'[e[1]] # mapping'[e[2]]
      BY <1>1 DEF ProperColouring
    <3>1. e = <<e[1], e[2]>>
      BY DEF IInv, TypeOK
    <3>2. <<e[2], e[1]>> \in IG
      BY <3>1 DEF IInv, Symmetric
    <3>3. CASE e[1] \in DOMAIN mapping /\ e[2] \in DOMAIN mapping
      BY <2>1, <3>3 DEF IInv, ProperColouring
    <3>4. CASE e[1] \notin DOMAIN mapping
      BY <2>1, <2>3, <3>1, <3>4
    <3>5. CASE e[2] \notin DOMAIN mapping
      BY <2>1, <2>3, <3>2, <3>5
    <3> QED BY <3>3, <3>4, <3>5
  <2>6. ThreadIdKept'
    BY <1>1, <2>1, <2>2 DEF IInv, ThreadIdKept, mt_inside
  <2> QED BY <1>1, <2>4, <2>5, <2>6 DEF IInv, Symmetric, Blocks
<1> QED BY <1>3, <1>4 DEF Colour

\* The thread id is moved to a register that no other value has.
LEMMA AllocateStackSpaceStep == IInv /\ AllocateStackSpace => IInv'
<1> SUFFICES ASSUME IInv, AllocateStackSpace PROVE IInv'
  OBVIOUS
<1>1. /\ UNCHANGED <<f, bb, k, live_in, living, remain, IG, list>>
      /\ stage = "colour" /\ stage' = "stack"
  BY DEF AllocateStackSpace
<1>2. CASE ~mt_inside
  BY <1>1, <1>2 DEF AllocateStackSpace, IInv, TypeOK, Symmetric, ProperColouring, ThreadIdKept,
                    mt_inside, Blocks
<1>3. CASE mt_inside
  <2> DEFINE t == f.tid
  <2>1. t \in Value
    BY <1>3, FunctionType DEF IInv, TypeOK, mt_inside
  <2>2. /\ DOMAIN mapping' = DOMAIN mapping \cup {t}
        /\ \A w \in DOMAIN mapping \ {t} : mapping'[w] = mapping[w] /\ mapping[w] # thread_id_reg
        /\ mapping'[t] = thread_id_reg
    BY <1>3 DEF AllocateStackSpace, With, IInv, ThreadIdKept
  <2> HIDE DEF t
  <2>3. TypeOK'
    BY <1>1, <2>1, <2>2, RegAssumption DEF IInv, TypeOK
  <2>4. ProperColouring'
    <3> SUFFICES ASSUME NEW e \in IG, e[1] # e[2],
                        e[1] \in DOMAIN mapping', e[2] \in DOMAIN mapping'
                 PROVE  mapping'[e[1]] # mapping'[e[2]]
      BY <1>1 DEF ProperColouring
    <3>1. CASE e[1] # t /\ e[2] # t
      BY <2>2, <3>1 DEF IInv, ProperColouring
    <3>2. CASE e[1] = t \/ e[2] = t
      BY <2>2, <3>2
    <3> QED BY <3>1, <3>2
  <2>5. ThreadIdKept'
    BY <1>1, <2>2 DEF ThreadIdKept, mt_inside, t
  <2> QED BY <1>1, <2>3, <2>4, <2>5 DEF IInv, Symmetric, Blocks
<1> QED BY <1>2, <1>3

\* The run leaves what the allocator found alone.
LEMMA RunSteps ==
    IInv /\ (StartRun \/ Execute \/ (\E s \in Blocks : Branch(s)) \/ Return) => IInv'
<1> SUFFICES ASSUME IInv, StartRun \/ Execute \/ (\E s \in Blocks : Branch(s)) \/ Return
             PROVE  IInv'
  OBVIOUS
<1>1. /\ UNCHANGED <<f, live_in, living, remain, IG, list, mapping>>
      /\ stage' \notin {"live", "block", "inst"} /\ stage' = "run"
      /\ stage \notin {"live", "block", "inst"}
  BY DEF StartRun, Execute, Branch, Return, vars
<1>2. f \in Functions
  BY DEF IInv, TypeOK
<1>3. bb' \in Nat \ {0} /\ k' \in Nat \ {0}
  <2>1. bb \in Nat \ {0} /\ k \in Nat \ {0} /\ Blocks \subseteq Nat \ {0}
    BY <1>2, FunctionType DEF IInv, TypeOK
  <2>2. CASE StartRun
    BY <2>2 DEF StartRun
  <2>3. CASE Execute
    BY <2>1, <2>3 DEF Execute
  <2>4. CASE \E s \in Blocks : Branch(s)
    <3>1. PICK s \in Blocks : bb' = s /\ k' = 1
      BY <2>4 DEF Branch
    <3> QED BY <2>1, <3>1
  <2>5. CASE Return
    BY <2>1, <2>5 DEF Return, vars
  <2> QED BY <2>2, <2>3, <2>4, <2>5
<1>4. TypeOK'
  BY <1>1, <1>3 DEF IInv, TypeOK
<1> QED BY <1>1, <1>4 DEF IInv, Symmetric, ProperColouring, ThreadIdKept, mt_inside, Blocks

-----------------------------------------------------------------------------
(* Searches *)

Next1(edges, S) == S \cup {e[2] : e \in {d \in edges : d[1] \in S}}

IsSearch(n, start, edges, h) ==
    h = [m \in 0 .. n |-> IF m = 0 THEN start ELSE Next1(edges, h[m - 1])]

\* What a search reaches it goes on from.
LEMMA SearchGoesOn ==
    ASSUME NEW n \in Nat, NEW start \in SUBSET (1 .. n),
           NEW edges, edges \subseteq (1 .. n) \X (1 .. n)
    PROVE  /\ start \subseteq Search(n, start, edges)
           /\ Search(n, start, edges) \subseteq 1 .. n
           /\ \A e \in edges : e[1] \in Search(n, start, edges) => e[2] \in Search(n, start, edges)
<1> DEFINE D == 1 .. n
           V == SUBSET D
           G == [S \in V |-> Next1(edges, S)]
           m1 == n + 1
<1>1. G \in [V -> V] /\ start \in V /\ m1 \in Nat
  <2>1. \A e \in edges : e[2] \in D
    OBVIOUS
  <2>2. \A S \in V : Next1(edges, S) \in V
    BY <2>1 DEF Next1
  <2> QED BY <2>2
<1>2. ASSUME NEW m \in Nat
      PROVE  \E h \in [0 .. m -> V] : IsSearch(m, start, edges, h)
  <2>1. Iterated(V, start, G, m)
    <3> HIDE DEF V, G
    <3> QED BY <1>1, Iteration
  <2>2. PICK h \in [0 .. m -> V] : \A i \in 0 .. m : h[i] = IF i = 0 THEN start ELSE G[h[i - 1]]
    BY <2>1 DEF Iterated
  <2>3. ASSUME NEW i \in 0 .. m
        PROVE  h[i] = IF i = 0 THEN start ELSE Next1(edges, h[i - 1])
    <3>1. i # 0 => i - 1 \in 0 .. m
      OBVIOUS
    <3>2. i # 0 => h[i - 1] \in V
      BY <3>1
    <3> QED BY <2>2, <3>2
  <2> DEFINE h2 == [i \in 0 .. m |-> IF i = 0 THEN start ELSE Next1(edges, h[i - 1])]
  <2>4. h = h2
    BY <2>3
  <2>5. IsSearch(m, start, edges, h)
    BY <2>4 DEF IsSearch
  <2> QED BY <2>5
<1>3. PICK h \in [0 .. m1 -> V] : IsSearch(m1, start, edges, h)
  BY <1>1, <1>2
<1> DEFINE r == CHOOSE x : IsSearch(n, start, edges, x)
<1>4. IsSearch(n, start, edges, r)
  BY <1>2
<1>5. Search(n, start, edges) = r[n]
  BY DEF Search, IsSearch, Next1
<1> HIDE DEF r, V, G
<1> DEFINE T == {m \in Nat : m \in 0 .. n => r[m] = h[m]}
<1>6. \A i \in 0 .. m1 : h[i] = IF i = 0 THEN start ELSE Next1(edges, h[i - 1])
  BY <1>3 DEF IsSearch
<1>7. \A i \in 0 .. n : r[i] = IF i = 0 THEN start ELSE Next1(edges, r[i - 1])
  BY <1>4 DEF IsSearch
<1>8. 0 \in T
  BY <1>6, <1>7
<1>9. ASSUME NEW m \in Nat, m \in T PROVE m + 1 \in T
  <2> SUFFICES ASSUME m + 1 \in 0 .. n PROVE r[m + 1] = h[m + 1]
    OBVIOUS
  <2>1. m \in 0 .. n /\ m + 1 \in 0 .. m1 /\ (m + 1) - 1 = m /\ m + 1 # 0
    OBVIOUS
  <2>2. r[m] = h[m]
    BY <1>9, <2>1
  <2> QED BY <1>6, <1>7, <2>1, <2>2
<1> HIDE DEF T
<1>10. n \in T
  BY <1>8, <1>9, NatSetInduction
<1>11. r[n] = h[n]
  BY <1>10 DEF T
<1>12. \A i \in 0 .. n : i + 1 \in 0 .. m1 /\ h[i + 1] = Next1(edges, h[i])
  <2> TAKE i \in 0 .. n
  <2>1. i + 1 \in 0 .. m1 /\ (i + 1) - 1 = i /\ i + 1 # 0
    OBVIOUS
  <2> QED BY <1>6, <2>1
<1>13. h[n] \in V /\ n \in 0 .. m1
  BY <1>3
<1>14. h[m1] = h[n]
  <2>1. CASE start = {}
    <3> DEFINE U == {m \in Nat : m \in 0 .. m1 => h[m] = {}}
    <3>1. 0 \in U
      BY <1>6, <2>1
    <3>2. ASSUME NEW m \in Nat, m \in U PROVE m + 1 \in U
      <4> SUFFICES ASSUME m + 1 \in 0 .. m1 PROVE h[m + 1] = {}
        OBVIOUS
      <4>1. m \in 0 .. n /\ m \in 0 .. m1
        OBVIOUS
      <4>2. h[m + 1] = Next1(edges, {})
        BY <1>12, <3>2, <4>1
      <4> QED BY <4>2 DEF Next1
    <3> HIDE DEF U
    <3>3. Nat \subseteq U
      BY <3>1, <3>2, NatSetInduction
    <3>4. n \in U /\ m1 \in U
      BY <1>1, <3>3
    <3>5. h[n] = {} /\ h[m1] = {}
      BY <3>4 DEF U
    <3> QED BY <3>5
  <2>2. CASE start # {}
    <3>1. IsFiniteSet(D) /\ Cardinality(D) = n
      <4>1. \A i \in Nat : IsFiniteSet(1 .. i) /\ Cardinality(1 .. i) = i
        BY FS_Interval
      <4> QED BY <4>1
    <3>2. \A i \in 0 .. n + 1 : h[i] \subseteq D
      BY <1>3 DEF V
    <3>3. \A i \in 0 .. n : h[i] \subseteq h[i + 1]
      BY <1>12 DEF Next1
    <3>4. ASSUME NEW i \in 0 .. n, i # 0, h[i - 1] = h[i] PROVE h[i] = h[i + 1]
      <4>1. i - 1 \in 0 .. n /\ (i - 1) + 1 = i
        BY <3>4
      <4>2. h[i] = Next1(edges, h[i - 1])
        BY <1>12, <4>1
      <4> QED BY <1>12, <3>4, <4>2
    <3>5. h[0] # {}
      BY <1>6, <2>2
    <3> HIDE DEF D
    <3> QED BY <3>1, <3>2, <3>3, <3>4, <3>5, GrowthEnds
  <2> QED BY <2>1, <2>2
<1>15. Next1(edges, h[n]) = h[n]
  BY <1>12, <1>14
<1>16. start \subseteq h[n]
  <2> DEFINE U == {m \in Nat : m \in 0 .. n => start \subseteq h[m]}
  <2>1. 0 \in U
    BY <1>6
  <2>2. ASSUME NEW m \in Nat, m \in U PROVE m + 1 \in U
    <3> SUFFICES ASSUME m + 1 \in 0 .. n PROVE start \subseteq h[m + 1]
      OBVIOUS
    <3>1. m \in 0 .. n
      OBVIOUS
    <3> QED BY <1>12, <2>2, <3>1 DEF Next1
  <2> HIDE DEF U
  <2>3. n \in U
    BY <2>1, <2>2, NatSetInduction
  <2> QED BY <2>3 DEF U
<1>17. \A e \in edges : e[1] \in h[n] => e[2] \in h[n]
  BY <1>15 DEF Next1
<1> QED BY <1>5, <1>11, <1>13, <1>16, <1>17 DEF V

-----------------------------------------------------------------------------
(* What the walk knows, and what the run finds *)

\* The instructions of a block before n.
DefsTo(b, n) == {f.code[b][h].def : h \in 1 .. n - 1} \ {NoValue}

\* The values seen when the walk comes to instruction n of block b.
Seen(b, n) == {w \in Values : b \in LiveIn(w)} \cup DefsTo(b, n)

DefinedBy(b, w) == CHOOSE i \in Index(b) : f.code[b][i].def = w

\* How many uses of w the walk still counts, at instruction n of b.
Left(b, n, w) ==
    IF w \in DefsTo(b, n) \/ (b \in LiveIn(w) /\ ~Defines(b, w))
    THEN UsesWithin(b, w, n, Len(f.code[b])) + LeftOver(b, w)
    ELSE IF b \in LiveIn(w)
         THEN UsesWithin(b, w, n, DefinedBy(b, w))
         ELSE 0

\* w is used by instruction n of b or one after it, or after b.
Needed(b, n, w) == \/ w \in live_out[b]
                   \/ \E i \in Index(b) : i >= n /\ Uses(f.code[b][i], w) # {}

\* The values that have to be kept while instruction n of b is executed.
Over(b, n) == {w \in Values : /\ \/ w \in DefsTo(b, n)
                                 \/ b \in LiveIn(w) /\ ~Defines(b, w)
                              /\ Needed(b, n + 1, w)}

\* The walk has entered what instruction n of b needs.
Entered(b, n) ==
    LET inst == f.code[b][n]
        v == inst.def
    IN  v # NoValue => /\ {v} \X Over(b, n) \subseteq IG
                       /\ inst.call => v \in DOMAIN context /\ Over(b, n) \subseteq context[v]

Walked(b, n) == \/ stage \in {"colour", "stack", "run"}
                \/ stage \in {"block", "inst"} /\ b < bb
                \/ stage = "inst" /\ b = bb /\ n < k

LiveInv == stage # "live" =>
    /\ live_in = [b \in Blocks |-> {v \in Values : b \in LiveIn(v)}]
    /\ live_out = [b \in Blocks |-> {v \in Values : b \in LiveOut(v)}]
    /\ Clique(f.args) \subseteq IG

\* All that has been walked has been entered, and nothing else.
EnteredInv ==
    /\ \A b \in Blocks : /\ Walked(b, 0) => Clique(Phis(b)) \subseteq IG
                         /\ \A n \in Index(b) : Walked(b, n) => Entered(b, n)
    /\ \A v \in DOMAIN context :
         v # NoValue /\ \E b \in Blocks : \E n \in Index(b) : Walked(b, n) /\ f.code[b][n].def = v

\* Where the walk is, and what it has counted.
CountInv ==
    /\ stage = "live" => bb = 1
    /\ stage = "block" => bb <= Len(f.code) + 1
    /\ stage = "inst" => /\ bb \in Blocks /\ k \in 1 .. Len(f.code[bb]) + 1
                         /\ living = Seen(bb, k)
                         /\ \A w \in Values : remain[w] = Left(bb, k, w)

WalkInv == LiveInv /\ EnteredInv /\ CountInv

\* The values that have a definition on every path to instruction n of b; those
\* of its phis got it on the edge.
Held(b, n) == {w \in Values : w \in f.args \/ b \notin Without(f, w)} \cup Phis(b) \cup DefsTo(b, n)

\* What the run knows of the block it is in: a value may come from before,
\* unless no definition of it has been passed.
InBlock(b) ==
    /\ b \in Blocks
    /\ \A w \in Value : b \in LiveIn(w) \/ (w \notin f.args /\ b \in Without(f, w))
    /\ \A w \in Value : b \in Without(f, w) \/ w \in f.args
                          \/ \E c \in Blocks \cap Without(f, w) : Defines(c, w)

RunInv == stage = "run" =>
    /\ InBlock(bb) /\ k \in 1 .. Len(f.code[bb]) + 1
    /\ val \in [Place -> Value \cup {NoValue}]
    /\ \A w \in Held(bb, k) : Needed(bb, k, w) => val[Loc(w)] = w

-----------------------------------------------------------------------------
(* What the assumptions say of the function at hand *)

\* The control flow graph and the phis.
LEMMA Flow ==
    ASSUME f \in Functions
    PROVE  /\ 1 \in Blocks
           /\ \A b \in Blocks : f.succ[b] \subseteq Blocks \ {1}
           /\ \A b \in Blocks : \A i \in Index(b) :
                LET inst == f.code[b][i] IN
                IsPhi(inst) =>
                  /\ inst.def \in Value
                  /\ ~inst.call
                  /\ \A p \in Blocks : b \in f.succ[p] => \E j \in DOMAIN inst.ops : inst.from[j] = p
                  /\ \A j \in DOMAIN inst.ops : inst.from[j] \in Blocks /\ b \in f.succ[inst.from[j]]
                  /\ \A h \in 1 .. i : IsPhi(f.code[b][h])
<1>1. Len(f.code) \in Nat /\ Blocks = 1 .. Len(f.code)
  BY FunctionType
<1>2. f.code \in Seq(Seq(Instruction)) /\ f.code # <<>>
  BY FunctionAssumption, GraphAssumption
<1>3. 1 \in Blocks
  BY <1>1, <1>2
<1>4. \A b \in Blocks : f.succ[b] \subseteq Blocks \ {1}
  BY GraphAssumption DEF Blocks
<1>5. ASSUME NEW b \in Blocks, NEW i \in Index(b), IsPhi(f.code[b][i])
      PROVE  LET inst == f.code[b][i] IN
                  /\ inst.def \in Value
                  /\ ~inst.call
                  /\ \A p \in Blocks : b \in f.succ[p] => \E j \in DOMAIN inst.ops : inst.from[j] = p
                  /\ \A j \in DOMAIN inst.ops : inst.from[j] \in Blocks /\ b \in f.succ[inst.from[j]]
                  /\ \A h \in 1 .. i : IsPhi(f.code[b][h])
  <2>1. f.code[b][i].def \in Value
    BY <1>5, FunctionAssumption DEF IsPhi, Blocks, Index
  <2>2. LET inst == f.code[b][i] IN
             /\ ~inst.call
             /\ DOMAIN inst.from = DOMAIN inst.ops
             /\ \A j \in DOMAIN inst.from : /\ inst.from[j] \in Blocks
                                            /\ b \in f.succ[inst.from[j]]
             /\ \A p \in Blocks : b \in f.succ[p] => \E j \in DOMAIN inst.from : inst.from[j] = p
             /\ \A h \in 1 .. i : IsPhi(f.code[b][h])
    BY <1>5, GraphAssumption DEF IsPhi, Blocks, Index
  <2> QED BY <2>1, <2>2
<1> QED BY <1>3, <1>4, <1>5

\* A value has one definition.
LEMMA OneDefinition ==
    ASSUME f \in Functions, NEW b \in Blocks, NEW i \in Index(b), f.code[b][i].def # NoValue
    PROVE  /\ f.code[b][i].def \notin f.args
           /\ f.code[b][i].def \in Values
           /\ f.code[b][i].def \in Value
           /\ \A c \in Blocks : \A h \in Index(c) :
                f.code[c][h].def = f.code[b][i].def => c = b /\ h = i
<1>1. f.code[b][i].def \in Values
  BY DEF Values, Defs, DefsOf, Index
<1>2. f.code[b][i].def \in Value
  BY <1>1, ValuesAreValues
<1>3. /\ f.code[b][i].def \notin f.args
      /\ \A c \in Blocks : \A h \in Index(c) :
                f.code[c][h].def = f.code[b][i].def => c = b /\ h = i
  BY SSAAssumption DEF Blocks, Index
<1> QED BY <1>1, <1>2, <1>3

\* Where a value is defined.
LEMMA Definers ==
    ASSUME f \in Functions
    PROVE  /\ \A b \in Blocks : \A v : Defines(b, v) <=> v # NoValue /\ \E i \in Index(b) : f.code[b][i].def = v
           /\ \A b \in Blocks : \A n \in Nat : \A v :
                v \in DefsTo(b, n) <=> v # NoValue /\ \E i \in 1 .. n - 1 : f.code[b][i].def = v
BY DEF Defines, Defs, DefsOf, DefsTo, Index

\* A value has one defining block, and an argument has none.
LEMMA OneBlock ==
    ASSUME f \in Functions, NEW b \in Blocks, NEW c \in Blocks, NEW v, Defines(b, v), Defines(c, v)
    PROVE  b = c /\ v \notin f.args
<1>1. PICK i \in Index(b) : f.code[b][i].def = v /\ v # NoValue
  BY Definers
<1>2. PICK j \in Index(c) : f.code[c][j].def = v
  BY Definers
<1> QED BY <1>1, <1>2, OneDefinition

\* Operands have a definition on every path.
LEMMA Operands ==
    ASSUME f \in Functions, NEW b \in Blocks, NEW i \in Index(b), NEW j \in DOMAIN f.code[b][i].ops
    PROVE  LET inst == f.code[b][i] IN
           /\ inst.ops[j] \in Value
           /\ ~IsPhi(inst) => DefinedAt(f, inst.ops[j], b, i)
           /\ IsPhi(inst) => DefinedAt(f, inst.ops[j], inst.from[j], Len(f.code[inst.from[j]]) + 1)
<1>1. f.code[b][i] \in Instruction
  BY FunctionType
<1>2. f.code[b][i].ops[j] \in Value
  BY <1>1 DEF Instruction
<1> QED BY <1>2, SSAAssumption DEF Blocks, Index, IsPhi

\* The three searches end where they can go on no more.
LEMMA WithoutGoesOn ==
    ASSUME f \in Functions, NEW v
    PROVE  /\ 1 \in Without(f, v)
           /\ Without(f, v) \subseteq Blocks
           /\ \A b \in Blocks : \A s \in f.succ[b] :
                b \in Without(f, v) /\ ~Defines(b, v) => s \in Without(f, v)
<1> DEFINE n == Len(f.code)
           edges == {e \in Blocks \X Blocks : e[2] \in f.succ[e[1]] /\ ~Defines(e[1], v)}
<1>1. n \in Nat /\ Blocks = 1 .. n /\ 1 \in Blocks /\ \A b \in Blocks : f.succ[b] \subseteq Blocks
  BY FunctionType, Flow
<1>2. Without(f, v) = Search(n, {1}, edges)
  BY DEF Without, Blocks, Defines, Defs
<1>3. {1} \in SUBSET (1 .. n) /\ edges \subseteq (1 .. n) \X (1 .. n)
  BY <1>1
<1>4. ASSUME NEW b \in Blocks, NEW s \in f.succ[b], ~Defines(b, v)
      PROVE  <<b, s>> \in edges /\ <<b, s>>[1] = b /\ <<b, s>>[2] = s
  BY <1>1, <1>4
<1> HIDE DEF n, edges
<1>5. /\ {1} \subseteq Search(n, {1}, edges)
      /\ Search(n, {1}, edges) \subseteq 1 .. n
      /\ \A e \in edges : e[1] \in Search(n, {1}, edges) => e[2] \in Search(n, {1}, edges)
  BY <1>1, <1>3, SearchGoesOn
<1>6. ASSUME NEW b \in Blocks, NEW s \in f.succ[b], b \in Search(n, {1}, edges), ~Defines(b, v)
      PROVE  s \in Search(n, {1}, edges)
  <2> DEFINE e == <<b, s>>
  <2>1. e \in edges /\ e[1] = b /\ e[2] = s
    BY <1>4, <1>6
  <2> HIDE DEF e
  <2> QED BY <1>5, <1>6, <2>1
<1> QED BY <1>1, <1>2, <1>5, <1>6

\* Forwards, from the entry for an argument or past the block of the definition.
LEMMA LiveInGoesOn ==
    ASSUME f \in Functions, NEW v
    PROVE  /\ v \in f.args => 1 \in LiveIn(v)
           /\ \A b \in Blocks : \A s \in f.succ[b] :
                b \in LiveIn(v) \/ Defines(b, v) => s \in LiveIn(v)
<1> DEFINE n == Len(f.code)
           start == IF v \in f.args THEN {1}
                    ELSE UNION {f.succ[b] : b \in {x \in Blocks : Defines(x, v)}}
<1>1. n \in Nat /\ Blocks = 1 .. n /\ 1 \in Blocks /\ \A b \in Blocks : f.succ[b] \subseteq Blocks
  BY FunctionType, Flow
<1>2. LiveIn(v) = Search(n, start, Edges)
  BY DEF LiveIn
<1>3. start \in SUBSET (1 .. n) /\ Edges \subseteq (1 .. n) \X (1 .. n)
  BY <1>1 DEF Edges
<1>4. ASSUME NEW b \in Blocks, NEW s \in f.succ[b]
      PROVE  <<b, s>> \in Edges /\ <<b, s>>[1] = b /\ <<b, s>>[2] = s
  BY <1>1, <1>4 DEF Edges
<1>5. v \in f.args => 1 \in start
  OBVIOUS
<1>6. ASSUME NEW b \in Blocks, NEW s \in f.succ[b], Defines(b, v)
      PROVE  s \in start
  <2>1. v \notin f.args
    BY <1>6, OneBlock
  <2> QED BY <1>6, <2>1
<1> HIDE DEF n, start
<1>7. /\ start \subseteq Search(n, start, Edges)
      /\ \A e \in Edges : e[1] \in Search(n, start, Edges) => e[2] \in Search(n, start, Edges)
  BY <1>1, <1>3, SearchGoesOn
<1>8. ASSUME NEW b \in Blocks, NEW s \in f.succ[b], b \in Search(n, start, Edges)
      PROVE  s \in Search(n, start, Edges)
  <2> DEFINE e == <<b, s>>
  <2>1. e \in Edges /\ e[1] = b /\ e[2] = s
    BY <1>4, <1>8
  <2> HIDE DEF e
  <2> QED BY <1>7, <1>8, <2>1
<1> QED BY <1>2, <1>5, <1>6, <1>7, <1>8

\* The blocks a use starts the search backwards from.
LEMMA UsedFromCases ==
    ASSUME NEW b, NEW i, NEW v
    PROVE  LET inst == f.code[b][i] IN
           /\ IsPhi(inst) => UsedFrom(b, i, v) = {inst.from[j] : j \in {m \in DOMAIN inst.ops : inst.ops[m] = v}}
           /\ ~IsPhi(inst) => UsedFrom(b, i, v) \subseteq Preds(b)
           /\ Uses(inst, v) # {} /\ (\A h \in 1 .. i - 1 : f.code[b][h].def # v)
                => UsedFrom(b, i, v) = Preds(b)
<1> DEFINE inst == f.code[b][i]
           A == {inst.from[j] : j \in {m \in DOMAIN inst.ops : inst.ops[m] = v}}
<1>1. IsPhi(inst) => Uses(inst, v) = {}
  BY DEF Uses
<1>2. UsedFrom(b, i, v) = CASE IsPhi(inst) -> A
                            [] Uses(inst, v) # {} /\ (\A h \in 1 .. i - 1 : f.code[b][h].def # v) -> Preds(b)
                            [] OTHER -> {}
  BY DEF UsedFrom
<1> HIDE DEF A, inst
<1>3. IsPhi(inst) => UsedFrom(b, i, v) = A
  BY <1>1, <1>2
<1>4. Uses(inst, v) # {} /\ (\A h \in 1 .. i - 1 : f.code[b][h].def # v) => UsedFrom(b, i, v) = Preds(b)
  BY <1>1, <1>2
<1>5. ~IsPhi(inst) => UsedFrom(b, i, v) \subseteq Preds(b)
  BY <1>2
<1> QED BY <1>3, <1>4, <1>5 DEF A, inst

\* Backwards, from the uses, up to the block of the definition.
LEMMA LiveOutGoesOn ==
    ASSUME f \in Functions, NEW v
    PROVE  /\ UsedAfter(v) \subseteq LiveOut(v)
           /\ \A b \in Blocks : \A s \in f.succ[b] :
                s \in LiveOut(v) /\ ~Defines(s, v) => b \in LiveOut(v)
<1> DEFINE n == Len(f.code)
           edges == {<<e[2], e[1]>> : e \in {d \in Edges : ~Defines(d[2], v)}}
<1>1. n \in Nat /\ Blocks = 1 .. n /\ \A b \in Blocks : f.succ[b] \subseteq Blocks
  BY FunctionType, Flow
<1>2. LiveOut(v) = Search(n, UsedAfter(v), edges)
  BY DEF LiveOut
<1>3. UsedAfter(v) \in SUBSET (1 .. n)
  <2>1. ASSUME NEW b \in Blocks, NEW i \in Index(b) PROVE UsedFrom(b, i, v) \subseteq Blocks
    <3>1. CASE IsPhi(f.code[b][i])
      <4>1. \A j \in DOMAIN f.code[b][i].ops : f.code[b][i].from[j] \in Blocks
        BY <3>1, Flow
      <4>2. UsedFrom(b, i, v) = {f.code[b][i].from[j] :
                                  j \in {m \in DOMAIN f.code[b][i].ops : f.code[b][i].ops[m] = v}}
        BY <3>1, UsedFromCases
      <4> QED BY <4>1, <4>2
    <3>2. CASE ~IsPhi(f.code[b][i])
      <4>1. UsedFrom(b, i, v) \subseteq Preds(b)
        BY <3>2, UsedFromCases
      <4> QED BY <4>1 DEF Preds
    <3> QED BY <3>1, <3>2
  <2> QED BY <1>1, <2>1 DEF UsedAfter
<1>4. edges \subseteq (1 .. n) \X (1 .. n)
  BY <1>1 DEF Edges
<1>5. ASSUME NEW b \in Blocks, NEW s \in f.succ[b], ~Defines(s, v)
      PROVE  <<s, b>> \in edges /\ <<s, b>>[1] = s /\ <<s, b>>[2] = b
  <2>1. <<b, s>> \in Edges /\ <<b, s>>[1] = b /\ <<b, s>>[2] = s
    BY <1>1, <1>5 DEF Edges
  <2> QED BY <1>5, <2>1
<1> HIDE DEF n, edges
<1>6. /\ UsedAfter(v) \subseteq Search(n, UsedAfter(v), edges)
      /\ \A e \in edges : e[1] \in Search(n, UsedAfter(v), edges) => e[2] \in Search(n, UsedAfter(v), edges)
  BY <1>1, <1>3, <1>4, SearchGoesOn
<1>7. ASSUME NEW b \in Blocks, NEW s \in f.succ[b], ~Defines(s, v), s \in Search(n, UsedAfter(v), edges)
      PROVE  b \in Search(n, UsedAfter(v), edges)
  <2> DEFINE e == <<s, b>>
  <2>1. e \in edges /\ e[1] = s /\ e[2] = b
    BY <1>5, <1>7
  <2> HIDE DEF e
  <2> QED BY <1>6, <1>7, <2>1
<1> QED BY <1>2, <1>6, <1>7

-----------------------------------------------------------------------------
(* Counting uses *)

\* The uses of the first instruction, and those of the others.
LEMMA UsesWithinFirst ==
    ASSUME f \in Functions, NEW b \in Blocks, NEW v, NEW i \in Index(b), NEW j \in Nat,
           i <= j, j <= Len(f.code[b])
    PROVE  UsesWithin(b, v, i, j) = Cardinality(Uses(f.code[b][i], v)) + UsesWithin(b, v, i + 1, j)
<1> DEFINE U == Uses(f.code[b][i], v)
           P == {i} \X U
           Q == UseSet(b, v, i + 1, j)
           R == UseSet(b, v, i, j)
<1>1. i \in Nat \ {0} /\ i + 1 \in Nat \ {0} /\ f.code[b][i] \in Instruction
  BY FunctionType
<1>2. IsFiniteSet(Q) /\ UsesWithin(b, v, i + 1, j) = Cardinality(Q)
      /\ UsesWithin(b, v, i, j) = Cardinality(R)
  <2> DEFINE m == i + 1
  <2>1. m \in Nat \ {0}
    BY <1>1
  <2> HIDE DEF m
  <2>2. IsFiniteSet(UseSet(b, v, m, j)) /\ UsesWithin(b, v, m, j) = Cardinality(UseSet(b, v, m, j))
    BY <2>1, UsesWithinParts
  <2>3. UsesWithin(b, v, i, j) = Cardinality(R)
    BY <1>1, UsesWithinParts
  <2> QED BY <2>2, <2>3 DEF m
<1>3. IsFiniteSet(U) /\ Cardinality(U) \in Nat
  BY <1>1, UsesFinite
<1>4. IsFiniteSet(P) /\ Cardinality(P) = Cardinality(U)
  <2>1. IsFiniteSet({i}) /\ Cardinality({i}) = 1
    BY FS_Singleton
  <2>2. IsFiniteSet(P) /\ Cardinality(P) = Cardinality({i}) * Cardinality(U)
    <3> HIDE DEF U
    <3> QED BY <1>3, <2>1, FS_Product
  <2> HIDE DEF P, U
  <2> QED BY <1>3, <2>1, <2>2
<1>5. R = P \cup Q
  <2>1. \A n : n \in i .. j <=> n = i \/ n \in i + 1 .. j
    BY <1>1
  <2> QED BY <2>1 DEF UseSet
<1>6. P \cap Q = {}
  <2>1. i \notin i + 1 .. j
    BY <1>1
  <2> QED BY <2>1 DEF UseSet
<1> HIDE DEF P, Q, R, U
<1>7. Cardinality(P \cup Q) = Cardinality(P) + Cardinality(Q) - Cardinality(P \cap Q)
  BY <1>2, <1>4, FS_Union
<1>8. Cardinality(P \cap Q) = 0 /\ Cardinality(P) \in Nat /\ Cardinality(Q) \in Nat
  BY <1>2, <1>3, <1>4, <1>6, FS_EmptySet, FS_CardinalityType
<1> QED BY <1>2, <1>4, <1>5, <1>7, <1>8 DEF U

NoUse(b, v, i, j) == \A n \in i .. j : Uses(f.code[b][n], v) = {}

\* Where there is no use the count is zero.
LEMMA UsesWithinNone ==
    ASSUME f \in Functions, NEW b \in Blocks, NEW v, NEW i \in Nat \ {0}, NEW j \in Nat, j <= Len(f.code[b])
    PROVE  /\ UsesWithin(b, v, i, j) \in Nat
           /\ UsesWithin(b, v, i, j) = 0 <=> NoUse(b, v, i, j)
<1> DEFINE S == UseSet(b, v, i, j)
<1>1. IsFiniteSet(S) /\ UsesWithin(b, v, i, j) = Cardinality(S)
  BY UsesWithinParts
<1>2. S = {} <=> NoUse(b, v, i, j)
  <2>1. ASSUME NEW n \in i .. j, NEW u \in Uses(f.code[b][n], v) PROVE <<n, u>> \in S
    BY DEF UseSet
  <2>2. ASSUME NEW x \in S PROVE \E n \in i .. j : Uses(f.code[b][n], v) # {}
    <3>1. PICK n \in i .. j : x \in {n} \X Uses(f.code[b][n], v)
      BY DEF UseSet
    <3> QED BY <3>1
  <2> HIDE DEF S
  <2> QED BY <2>1, <2>2 DEF NoUse
<1> HIDE DEF S
<1> QED BY <1>1, <1>2, FS_EmptySet, FS_CardinalityType

-----------------------------------------------------------------------------
(* The walk *)

\* The count of w once the operands of instruction n of b have been read.
AfterRead(b, n, w) ==
    IF w \in DefsTo(b, n) \/ (b \in LiveIn(w) /\ ~Defines(b, w))
    THEN UsesWithin(b, w, n + 1, Len(f.code[b])) + LeftOver(b, w)
    ELSE IF b \in LiveIn(w)
         THEN UsesWithin(b, w, n + 1, DefinedBy(b, w))
         ELSE 0

\* Reading the operands takes the uses of the instruction off the count.
LEMMA ReadCounts ==
    ASSUME f \in Functions, NEW b \in Blocks, NEW n \in Index(b), NEW w
    PROVE  LET c == Cardinality(Uses(f.code[b][n], w))
               r == Left(b, n, w)
           IN  /\ (IF r <= c THEN 0 ELSE r - c) = AfterRead(b, n, w)
               /\ AfterRead(b, n, w) \in Nat
<1> DEFINE c == Cardinality(Uses(f.code[b][n], w))
           r == Left(b, n, w)
           N == Len(f.code[b])
<1>1. /\ N \in Nat /\ Index(b) = 1 .. N /\ f.code[b][n] \in Instruction
      /\ n \in Nat /\ n <= N /\ n + 1 \in Nat \ {0}
  BY FunctionType
<1>2. c \in Nat
  BY <1>1, UsesFinite
<1>3. LeftOver(b, w) \in Nat
  BY DEF LeftOver
<1>4. CASE w \in DefsTo(b, n) \/ (b \in LiveIn(w) /\ ~Defines(b, w))
  <2> DEFINE u == UsesWithin(b, w, n + 1, N)
  <2>1. UsesWithin(b, w, n, N) = c + u
    BY <1>1, UsesWithinFirst
  <2>2. u \in Nat
    <3> DEFINE m == n + 1
    <3>1. m \in Nat \ {0}
      BY <1>1
    <3> HIDE DEF m
    <3>2. UsesWithin(b, w, m, N) \in Nat
      BY <1>1, <3>1, UsesWithinNone
    <3> QED BY <3>2 DEF m
  <2>3. r = c + u + LeftOver(b, w) /\ AfterRead(b, n, w) = u + LeftOver(b, w)
    BY <1>4, <2>1 DEF Left, AfterRead
  <2> HIDE DEF c, r, u
  <2> QED BY <1>2, <1>3, <2>2, <2>3 DEF c, r
<1>5. CASE ~(w \in DefsTo(b, n) \/ (b \in LiveIn(w) /\ ~Defines(b, w))) /\ b \in LiveIn(w)
  <2> DEFINE d == DefinedBy(b, w)
             u == UsesWithin(b, w, n + 1, d)
  <2>1. w # NoValue /\ \E i \in Index(b) : f.code[b][i].def = w
    BY <1>5, Definers
  <2>2. d \in Index(b) /\ f.code[b][d].def = w
    BY <2>1 DEF DefinedBy
  <2>3. d \in Nat /\ d <= N /\ n <= d
    <3>1. d \notin 1 .. n - 1
      BY <1>1, <1>5, <2>1, <2>2, Definers
    <3> QED BY <1>1, <2>2, <3>1
  <2>4. r = UsesWithin(b, w, n, d) /\ AfterRead(b, n, w) = u
    BY <1>5 DEF Left, AfterRead
  <2> HIDE DEF d
  <2>5. UsesWithin(b, w, n, d) = c + u
    BY <1>1, <2>3, UsesWithinFirst
  <2>6. u \in Nat
    <3> DEFINE m == n + 1
    <3>1. m \in Nat \ {0}
      BY <1>1
    <3> HIDE DEF m
    <3>2. UsesWithin(b, w, m, d) \in Nat
      BY <1>1, <2>3, <3>1, UsesWithinNone
    <3> QED BY <3>2 DEF m
  <2> HIDE DEF c, r, u
  <2> QED BY <1>2, <2>4, <2>5, <2>6 DEF c, r
<1>6. CASE ~(w \in DefsTo(b, n) \/ (b \in LiveIn(w) /\ ~Defines(b, w))) /\ b \notin LiveIn(w)
  <2>1. r = 0 /\ AfterRead(b, n, w) = 0
    BY <1>6 DEF Left, AfterRead
  <2> HIDE DEF c, r
  <2> QED BY <1>2, <2>1 DEF c, r
<1> QED BY <1>4, <1>5, <1>6

\* The count of a value that has to be kept is not zero, that of the value the
\* instruction defines is.
LEMMA ReadActive ==
    ASSUME f \in Functions, NEW b \in Blocks, NEW n \in Index(b)
    PROVE  /\ \A w \in Over(b, n) : AfterRead(b, n, w) > 0 /\ w \in Seen(b, n)
           /\ f.code[b][n].def # NoValue => AfterRead(b, n, f.code[b][n].def) = 0
<1> DEFINE N == Len(f.code[b])
           v == f.code[b][n].def
<1>1. N \in Nat /\ Index(b) = 1 .. N /\ n \in Nat /\ n <= N /\ n + 1 \in Nat \ {0}
  BY FunctionType
<1>2. ASSUME NEW w \in Over(b, n) PROVE AfterRead(b, n, w) > 0 /\ w \in Seen(b, n)
  <2>1. /\ w \in Values /\ Needed(b, n + 1, w)
        /\ w \in DefsTo(b, n) \/ (b \in LiveIn(w) /\ ~Defines(b, w))
    BY DEF Over
  <2>2. AfterRead(b, n, w) = UsesWithin(b, w, n + 1, N) + LeftOver(b, w)
    BY <2>1 DEF AfterRead
  <2> DEFINE m == n + 1
             u == UsesWithin(b, w, m, N)
             left == LeftOver(b, w)
  <2>3. left \in Nat /\ (w \in live_out[b] => left = 1)
    BY DEF LeftOver
  <2>4. m \in Nat \ {0}
    BY <1>1
  <2> HIDE DEF m
  <2>5. u \in Nat /\ (u = 0 => NoUse(b, w, m, N))
    BY <1>1, <2>4, UsesWithinNone
  <2>6. w \notin live_out[b] => ~NoUse(b, w, m, N)
    <3> SUFFICES ASSUME w \notin live_out[b] PROVE ~NoUse(b, w, m, N)
      OBVIOUS
    <3>1. PICK i \in Index(b) : i >= m /\ Uses(f.code[b][i], w) # {}
      BY <2>1 DEF Needed, m
    <3>2. i \in m .. N
      BY <1>1, <2>4, <3>1
    <3> QED BY <3>1, <3>2 DEF NoUse
  <2>7. AfterRead(b, n, w) = u + left
    BY <2>2 DEF m
  <2> HIDE DEF u, left
  <2>8. u + left > 0
    BY <2>3, <2>5, <2>6
  <2> QED BY <2>1, <2>7, <2>8 DEF Seen
<1>3. ASSUME v # NoValue PROVE AfterRead(b, n, v) = 0
  <2>1. Defines(b, v)
    BY <1>3, Definers
  <2>2. \A i \in Index(b) : f.code[b][i].def = v => i = n
    BY <1>3, OneDefinition
  <2>3. v \notin DefsTo(b, n)
    <3>1. \A i \in 1 .. n - 1 : i \in Index(b) /\ i # n
      BY <1>1
    <3> QED BY <1>1, <2>2, <3>1, Definers
  <2>4. DefinedBy(b, v) = n
    BY <2>2 DEF DefinedBy
  <2>5. UsesWithin(b, v, n + 1, n) = 0
    <3> DEFINE m == n + 1
    <3>1. m \in Nat \ {0} /\ m .. n = {}
      BY <1>1
    <3> HIDE DEF m, v
    <3>2. UsesWithin(b, v, m, n) = 0
      BY <1>1, <3>1, UsesWithinNone DEF NoUse
    <3> QED BY <3>2 DEF m
  <2> QED BY <2>1, <2>3, <2>4, <2>5 DEF AfterRead
<1> QED BY <1>2, <1>3

\* What is said of a function stays so while the function does.
LEMMA SameFunction ==
    ASSUME UNCHANGED f
    PROVE  /\ Blocks' = Blocks /\ Values' = Values
           /\ \A b : Index(b)' = Index(b) /\ Phis(b)' = Phis(b)
           /\ \A b, v : Defines(b, v)' = Defines(b, v)
           /\ \A b, n : DefsTo(b, n)' = DefsTo(b, n) /\ Seen(b, n)' = Seen(b, n)
           /\ \A v : LiveIn(v)' = LiveIn(v) /\ LiveOut(v)' = LiveOut(v)
           /\ \A v, w : Without(f, w)' = Without(f, w)
           /\ \A b, v, i, j : UsesWithin(b, v, i, j)' = UsesWithin(b, v, i, j)
<1>1. Blocks' = Blocks /\ \A b : Index(b)' = Index(b)
  BY DEF Blocks, Index
<1>2. (\A b : Defs(b)' = Defs(b)) /\ \A b, v : Defines(b, v)' = Defines(b, v)
  BY DEF Defs, Defines
<1>3. \A b : Phis(b)' = Phis(b)
  BY <1>1 DEF Phis
<1>4. Values' = Values
  BY <1>1, <1>2 DEF Values
<1>5. Edges' = Edges
  BY <1>1 DEF Edges
<1>6. \A v : LiveIn(v)' = LiveIn(v)
  BY <1>1, <1>2, <1>5 DEF LiveIn
<1>7. \A b : Preds(b)' = Preds(b)
  BY <1>1 DEF Preds
<1>8. \A b, i, v : UsedFrom(b, i, v)' = UsedFrom(b, i, v)
  BY <1>7 DEF UsedFrom
<1>9. \A v : UsedAfter(v)' = UsedAfter(v)
  BY <1>1, <1>8 DEF UsedAfter
<1>10. \A v : LiveOut(v)' = LiveOut(v)
  BY <1>2, <1>5, <1>9 DEF LiveOut
<1>11. \A b, n : DefsTo(b, n)' = DefsTo(b, n)
  BY DEF DefsTo
<1>12. \A b, n : Seen(b, n)' = Seen(b, n)
  BY <1>4, <1>6, <1>11 DEF Seen
<1>13. \A b, v, i, j : UsesWithin(b, v, i, j)' = UsesWithin(b, v, i, j)
  BY DEF UsesWithin
<1> QED BY <1>1, <1>2, <1>3, <1>4, <1>6, <1>10, <1>11, <1>12, <1>13

\* What is said of liveness stays so while it does.
LEMMA SameLiveness ==
    ASSUME UNCHANGED <<f, live_out>>
    PROVE  /\ \A b, v : LeftOver(b, v)' = LeftOver(b, v)
           /\ \A b, n, w : Left(b, n, w)' = Left(b, n, w)
           /\ \A b, n, w : Needed(b, n, w)' = Needed(b, n, w)
           /\ \A b, n : Over(b, n)' = Over(b, n)
           /\ \A b, n : Held(b, n)' = Held(b, n)
<1>1. \A b, v : LeftOver(b, v)' = LeftOver(b, v)
  BY DEF LeftOver
<1>2. \A b, n, w : Left(b, n, w)' = Left(b, n, w)
  <2>1. \A b, w : DefinedBy(b, w)' = DefinedBy(b, w)
    BY SameFunction DEF DefinedBy
  <2> QED BY <1>1, <2>1, SameFunction DEF Left
<1>3. \A b, n, w : Needed(b, n, w)' = Needed(b, n, w)
  BY SameFunction DEF Needed
<1>4. \A b, n : Over(b, n)' = Over(b, n)
  BY <1>3, SameFunction DEF Over
<1>5. \A b, n : Held(b, n)' = Held(b, n)
  BY SameFunction DEF Held
<1> QED BY <1>1, <1>2, <1>3, <1>4, <1>5

\* What has been entered stays entered.
LEMMA StaysEntered ==
    ASSUME UNCHANGED <<f, live_out>>, IG \subseteq IG',
           \A v \in DOMAIN context : v \in DOMAIN context' /\ context'[v] = context[v]
    PROVE  /\ \A b, n : Entered(b, n) => Entered(b, n)'
           /\ \A b : Clique(Phis(b)) \subseteq IG => (Clique(Phis(b)) \subseteq IG)'
<1>1. ASSUME NEW b, NEW n, Entered(b, n) PROVE Entered(b, n)'
  <2>1. Over(b, n)' = Over(b, n)
    BY SameLiveness
  <2> QED BY <1>1, <2>1 DEF Entered
<1>2. \A b : Clique(Phis(b))' = Clique(Phis(b))
  <2>1. \A b : Phis(b)' = Phis(b)
    BY SameFunction
  <2> QED BY <2>1 DEF Clique
<1> QED BY <1>1, <1>2

\* The invariant of the walk, step by step.
LEMMA WalkInitially == Init => WalkInv
BY DEF Init, WalkInv, LiveInv, EnteredInv, CountInv, Walked

\* The searches give what the walk starts from.
LEMMA WalkFindLive == IInv /\ WalkInv /\ FindLive => WalkInv'
<1> SUFFICES ASSUME IInv, WalkInv, FindLive PROVE WalkInv'
  OBVIOUS
<1>1. f \in Functions /\ stage = "live" /\ bb = 1 /\ Len(f.code) \in Nat
  BY FunctionType DEF IInv, TypeOK, FindLive, WalkInv, CountInv
<1>2. f' = f /\ bb' = bb /\ stage' = "block" /\ context' = context
  BY DEF FindLive
<1>3. LiveInv'
  <2>1. IG' = Clique(f.args)
    BY DEF FindLive, Clique
  <2>2. /\ live_in' = [b \in Blocks |-> {v \in Values : b \in LiveIn(v)}]
        /\ live_out' = [b \in Blocks |-> {v \in Values : b \in LiveOut(v)}]
    BY DEF FindLive
  <2>3. /\ [b \in Blocks |-> {v \in Values : b \in LiveIn(v)}]'
             = [b \in Blocks |-> {v \in Values : b \in LiveIn(v)}]
        /\ [b \in Blocks |-> {v \in Values : b \in LiveOut(v)}]'
             = [b \in Blocks |-> {v \in Values : b \in LiveOut(v)}]
    BY <1>2, SameFunction
  <2> QED BY <1>2, <2>1, <2>2, <2>3 DEF LiveInv, Clique
<1>4. EnteredInv'
  <2>1. \A b \in Blocks : ~(b < 1)
    BY <1>1, FunctionType
  <2>2. DOMAIN context = {}
    BY <1>1 DEF WalkInv, EnteredInv, Walked
  <2>3. \A b \in Blocks' : \A n : ~Walked(b, n)'
    BY <1>1, <1>2, <2>1, SameFunction DEF Walked
  <2> QED BY <1>2, <2>2, <2>3 DEF EnteredInv
<1>5. CountInv'
  BY <1>1, <1>2 DEF CountInv
<1> QED BY <1>3, <1>4, <1>5 DEF WalkInv

\* The count a block starts with.
LEMMA FirstCount ==
    ASSUME f \in Functions, NEW b \in Blocks, NEW w \in Values, LiveInv, stage # "live"
    PROVE  InitialRemain(b, w) = Left(b, 1, w)
<1>1. w \notin DefsTo(b, 1)
  BY DEF DefsTo
<1>2. w \in live_in[b] <=> b \in LiveIn(w)
  BY DEF LiveInv
<1> QED BY <1>1, <1>2 DEF InitialRemain, Left, DefinedBy

\* A block starts with what comes into it.
LEMMA WalkStartBlock == IInv /\ WalkInv /\ StartBlock => WalkInv'
<1> SUFFICES ASSUME IInv, WalkInv, StartBlock PROVE WalkInv'
  OBVIOUS
<1>1. /\ f \in Functions /\ stage = "block" /\ bb \in Blocks /\ Values \subseteq Value
      /\ Len(f.code[bb]) \in Nat
  BY FunctionType, ValuesAreValues DEF IInv, TypeOK, StartBlock
<1>2. /\ f' = f /\ bb' = bb /\ stage' = "inst" /\ context' = context /\ k' = 1
      /\ live_in' = live_in /\ live_out' = live_out
      /\ IG' = IG \cup Clique(Phis(bb)) /\ living' = live_in[bb]
      /\ remain' = [v \in Value |-> InitialRemain(bb, v)]
  BY DEF StartBlock
<1>3. LiveInv'
  <2>1. Clique(f.args) \subseteq IG'
    BY <1>1, <1>2 DEF WalkInv, LiveInv
  <2>2. /\ [b \in Blocks |-> {v \in Values : b \in LiveIn(v)}]'
             = [b \in Blocks |-> {v \in Values : b \in LiveIn(v)}]
        /\ [b \in Blocks |-> {v \in Values : b \in LiveOut(v)}]'
             = [b \in Blocks |-> {v \in Values : b \in LiveOut(v)}]
    BY <1>2, SameFunction
  <2> QED BY <1>1, <1>2, <2>1, <2>2 DEF WalkInv, LiveInv, Clique
<1>4. EnteredInv'
  <2>1. ASSUME NEW b \in Blocks, NEW n \in Index(b), Walked(b, n)'
        PROVE  Entered(b, n)'
    <3>1. n \in Nat \ {0} /\ b \in Nat /\ bb \in Nat
      BY <1>1, FunctionType
    <3>2. Walked(b, n)
      BY <1>1, <1>2, <2>1, <3>1 DEF Walked
    <3> QED BY <1>2, <3>2, StaysEntered DEF WalkInv, EnteredInv
  <2>2. ASSUME NEW b \in Blocks, Walked(b, 0)'
        PROVE  (Clique(Phis(b)) \subseteq IG)'
    <3>1. CASE b = bb
      <4>2. Phis(b)' = Phis(b)
        BY <1>2, SameFunction
      <4> QED BY <1>2, <3>1, <4>2 DEF Clique
    <3>2. CASE b # bb
      <4>1. Walked(b, 0)
        BY <1>1, <1>2, <2>2, <3>2 DEF Walked
      <4> QED BY <1>2, <4>1, StaysEntered DEF WalkInv, EnteredInv
    <3> QED BY <3>1, <3>2
  <2>3. ASSUME NEW b \in Blocks, NEW n, Walked(b, n) PROVE Walked(b, n)'
    BY <1>1, <1>2, <2>3 DEF Walked
  <2>4. Blocks' = Blocks /\ \A b : Index(b)' = Index(b)
    BY <1>2, SameFunction
  <2>5. \A v \in DOMAIN context :
           v # NoValue /\ \E b \in Blocks : \E n \in Index(b) : Walked(b, n)' /\ f.code[b][n].def = v
    BY <2>3 DEF WalkInv, EnteredInv
  <2> QED BY <1>2, <2>1, <2>2, <2>4, <2>5 DEF EnteredInv
<1>5. CountInv'
  <2>1. living' = Seen(bb, 1)
    <3>1. DefsTo(bb, 1) = {}
      BY DEF DefsTo
    <3> QED BY <1>1, <1>2, <3>1 DEF WalkInv, LiveInv, Seen
  <2>2. \A w \in Values : remain'[w] = Left(bb, 1, w)
    BY <1>1, <1>2, FirstCount DEF WalkInv
  <2>3. /\ Seen(bb, 1)' = Seen(bb, 1) /\ Values' = Values /\ Blocks' = Blocks
        /\ \A w : Left(bb, 1, w)' = Left(bb, 1, w)
    BY <1>2, SameFunction, SameLiveness
  <2> QED BY <1>1, <1>2, <2>1, <2>2, <2>3 DEF CountInv
<1> QED BY <1>3, <1>4, <1>5 DEF WalkInv

\* The values counted after the operands of the instruction are read are those
\* that have to be kept while it is executed.
LEMMA WalkReads ==
    ASSUME IInv, WalkInv, stage = "inst", k <= Len(f.code[bb])
    PROVE  LET inst == f.code[bb][k] IN
           /\ \A w \in Values : Read(inst)[w] = AfterRead(bb, k, w)
           /\ Over(bb, k) \subseteq Active(Read(inst))
           /\ inst.def \notin Active(Read(inst))
<1> DEFINE inst == f.code[bb][k]
<1>1. /\ f \in Functions /\ bb \in Blocks /\ k \in Index(bb) /\ Values \subseteq Value
      /\ NoValue \notin Value
      /\ living = Seen(bb, k)
      /\ \A w \in Values : remain[w] = Left(bb, k, w)
  <2>1. /\ f \in Functions /\ bb \in Blocks /\ k \in Nat \ {0}
        /\ living = Seen(bb, k)
        /\ \A w \in Values : remain[w] = Left(bb, k, w)
    BY DEF IInv, TypeOK, WalkInv, CountInv
  <2> QED BY <2>1, FunctionType, ValuesAreValues, RegAssumption
<1>2. ASSUME NEW w \in Values PROVE Read(inst)[w] = AfterRead(bb, k, w)
  <2> DEFINE c == Cardinality(Uses(inst, w))
             r == Left(bb, k, w)
  <2>1. Read(inst)[w] = IF r <= c THEN 0 ELSE r - c
    BY <1>1 DEF Read
  <2>2. (IF r <= c THEN 0 ELSE r - c) = AfterRead(bb, k, w)
    BY <1>1, ReadCounts
  <2> QED BY <2>1, <2>2
<1>3. Over(bb, k) \subseteq Active(Read(inst))
  <2>1. \A w \in Over(bb, k) : w \in Values
    BY DEF Over
  <2>2. \A w \in Over(bb, k) : AfterRead(bb, k, w) > 0 /\ w \in Seen(bb, k)
    BY <1>1, ReadActive
  <2> QED BY <1>1, <1>2, <2>1, <2>2 DEF Active
<1>4. inst.def \notin Active(Read(inst))
  <2>1. CASE inst.def = NoValue
    <3>1. NoValue \notin living
      BY <1>1 DEF IInv, TypeOK
    <3> QED BY <2>1, <3>1 DEF Active
  <2>2. CASE inst.def # NoValue
    <3>1. inst.def \in Values
      BY <1>1, <2>2, OneDefinition
    <3>2. AfterRead(bb, k, inst.def) = 0
      BY <1>1, <2>2, ReadActive
    <3>3. Read(inst)[inst.def] = 0
      BY <1>2, <3>1, <3>2
    <3> QED BY <3>3 DEF Active
  <2> QED BY <2>1, <2>2
<1> QED BY <1>2, <1>3, <1>4

\* What one more instruction adds.
LEMMA SeenNext ==
    ASSUME f \in Functions, NEW b \in Blocks, NEW n \in Index(b)
    PROVE  LET v == f.code[b][n].def IN
           /\ DefsTo(b, n + 1) = DefsTo(b, n) \cup ({v} \ {NoValue})
           /\ Seen(b, n + 1) = Seen(b, n) \cup ({v} \ {NoValue})
<1> DEFINE v == f.code[b][n].def
           m == n + 1
<1>1. n \in Nat \ {0} /\ m \in Nat
  BY FunctionType
<1>2. DefsTo(b, m) = DefsTo(b, n) \cup ({v} \ {NoValue})
  <2>1. \A i : i \in 1 .. m - 1 <=> i \in 1 .. n - 1 \/ i = n
    BY <1>1
  <2> QED BY <2>1 DEF DefsTo
<1>3. Seen(b, m) = Seen(b, n) \cup ({v} \ {NoValue})
  BY <1>2 DEF Seen
<1> QED BY <1>2, <1>3

\* The counts at the instruction after.
LEMMA NextCount ==
    ASSUME f \in Functions, NEW b \in Blocks, NEW n \in Index(b), NEW w \in Values
    PROVE  LET v == f.code[b][n].def IN
           /\ w # v => Left(b, n + 1, w) = AfterRead(b, n, w)
           /\ w = v => Left(b, n + 1, w) = AfterRead(b, n, w)
                                           + UsesWithin(b, w, n + 1, Len(f.code[b])) + LeftOver(b, w)
<1> DEFINE v == f.code[b][n].def
           m == n + 1
<1>1. n \in Nat \ {0} /\ NoValue \notin Values /\ m \in Nat
  BY FunctionType, ValuesAreValues, RegAssumption
<1>2. DefsTo(b, m) = DefsTo(b, n) \cup ({v} \ {NoValue})
  BY SeenNext
<1>4. ASSUME w # v PROVE Left(b, m, w) = AfterRead(b, n, w)
  BY <1>2, <1>4 DEF Left, AfterRead
<1>5. ASSUME w = v
      PROVE  Left(b, m, w) = AfterRead(b, n, w)
                             + UsesWithin(b, w, m, Len(f.code[b])) + LeftOver(b, w)
  <2> DEFINE u == UsesWithin(b, w, m, Len(f.code[b]))
             left == LeftOver(b, w)
  <2>1. v # NoValue
    BY <1>1, <1>5
  <2>2. w \in DefsTo(b, m)
    BY <1>2, <1>5, <2>1
  <2>3. AfterRead(b, n, w) = 0
    BY <1>5, <2>1, ReadActive
  <2>4. Left(b, m, w) = u + left
    BY <2>2 DEF Left
  <2>5. u \in Nat /\ left \in Nat
    <3>1. m \in Nat \ {0} /\ Len(f.code[b]) \in Nat
      BY <1>1, FunctionType
    <3> HIDE DEF m
    <3>2. UsesWithin(b, w, m, Len(f.code[b])) \in Nat
      BY <3>1, UsesWithinNone
    <3> QED BY <3>2 DEF LeftOver
  <2> HIDE DEF u, left
  <2>6. u + left = 0 + u + left
    BY <2>5
  <2> QED BY <2>3, <2>4, <2>6 DEF u, left
<1> QED BY <1>4, <1>5

\* An instruction enters what has to be kept over it.
LEMMA WalkProcessInst == IInv /\ WalkInv /\ ProcessInst => WalkInv'
<1> SUFFICES ASSUME IInv, WalkInv, ProcessInst PROVE WalkInv'
  OBVIOUS
<1> DEFINE inst == f.code[bb][k]
           v == inst.def
           rest == Read(inst)
           m == k + 1
<1>1. /\ f \in Functions /\ stage = "inst" /\ bb \in Blocks /\ k \in Index(bb)
      /\ k \in Nat \ {0} /\ k <= Len(f.code[bb]) /\ Len(f.code[bb]) \in Nat
      /\ Values \subseteq Value /\ living = Seen(bb, k)
      /\ inst \in Instruction /\ NoValue \notin Values
  <2>1. /\ f \in Functions /\ stage = "inst" /\ bb \in Blocks /\ k \in Nat \ {0}
        /\ k <= Len(f.code[bb]) /\ living = Seen(bb, k)
    BY DEF IInv, TypeOK, WalkInv, CountInv, ProcessInst
  <2>2. /\ Len(f.code[bb]) \in Nat /\ Index(bb) = 1 .. Len(f.code[bb])
        /\ \A i \in Index(bb) : f.code[bb][i] \in Instruction
    BY <2>1, FunctionType
  <2>3. k \in Index(bb)
    BY <2>1, <2>2
  <2>4. Values \subseteq Value /\ NoValue \notin Value
    BY <2>1, ValuesAreValues, RegAssumption
  <2> QED BY <2>1, <2>2, <2>3, <2>4
<1>2. /\ f' = f /\ bb' = bb /\ stage' = stage /\ k' = m
      /\ live_in' = live_in /\ live_out' = live_out
  BY DEF ProcessInst
<1>3. /\ \A w \in Values : rest[w] = AfterRead(bb, k, w)
      /\ Over(bb, k) \subseteq Active(rest)
      /\ v \notin Active(rest)
  BY <1>1, WalkReads
<1>4. rest \in [Value -> Nat]
  BY <1>1, ReadType DEF IInv, TypeOK
<1>5. v = NoValue => remain' = rest /\ UNCHANGED <<context, IG, living>>
  BY DEF ProcessInst
<1>6. v # NoValue =>
        /\ context' = IF inst.call THEN With(context, v, Active(rest)) ELSE context
        /\ IG' = IG \cup ({v} \X Active(rest)) \cup (Active(rest) \X {v})
        /\ living' = living \cup {v}
        /\ remain' = [rest EXCEPT ![v] =
                        @ + UsesWithin(bb, v, k + 1, Len(f.code[bb])) + LeftOver(bb, v)]
  BY DEF ProcessInst
<1> HIDE DEF rest
<1>7. \A w \in DOMAIN context : w # v
  <2> SUFFICES ASSUME NEW w \in DOMAIN context, w = v PROVE FALSE
    OBVIOUS
  <2>1. PICK b \in Blocks : w # NoValue /\ \E n \in Index(b) : Walked(b, n) /\ f.code[b][n].def = w
    BY DEF WalkInv, EnteredInv
  <2>2. PICK n \in Index(b) : Walked(b, n) /\ f.code[b][n].def = w
    BY <2>1
  <2>3. b \in Nat /\ n \in Nat /\ bb \in Nat
    BY <1>1, FunctionType
  <2>4. ~(b = bb /\ n = k)
    BY <1>1, <2>2, <2>3 DEF Walked
  <2> QED BY <1>1, <2>1, <2>2, <2>4, OneDefinition
<1>8. /\ IG \subseteq IG'
      /\ \A w \in DOMAIN context : w \in DOMAIN context' /\ context'[w] = context[w]
      /\ \A w \in DOMAIN context' : w \in DOMAIN context \/ (w = v /\ v # NoValue)
  BY <1>5, <1>6, <1>7 DEF With
<1>9. PICK n0 : n0 = k
  OBVIOUS
<1>10. Entered(bb, n0)'
  <2>1. Over(bb, n0)' = Over(bb, n0)
    BY <1>2, SameLiveness
  <2>2. CASE v = NoValue
    BY <1>2, <1>9, <2>2 DEF Entered
  <2>3. CASE v # NoValue
    <3>1. {v} \X Over(bb, n0) \subseteq IG'
      BY <1>3, <1>6, <1>9, <2>3
    <3>2. inst.call => v \in DOMAIN context' /\ Over(bb, n0) \subseteq context'[v]
      BY <1>3, <1>6, <1>9, <2>3 DEF With
    <3>3. f'.code[bb'][n0] = inst
      BY <1>2, <1>9
    <3> HIDE DEF inst, v
    <3>4. inst.def = v
      BY DEF v
    <3> QED BY <2>1, <3>1, <3>2, <3>3, <3>4 DEF Entered
  <2> QED BY <2>2, <2>3
<1>11. EnteredInv'
  <2>1. \A b \in Blocks : \A n \in Nat : Walked(b, n)' <=> Walked(b, n) \/ (b = bb /\ n = k)
    <3>1. \A b \in Blocks : b \in Nat /\ bb \in Nat
      BY <1>1, FunctionType
    <3> QED BY <1>1, <1>2, <3>1 DEF Walked
  <2>2. \A b \in Blocks : \A n \in Index(b) : n \in Nat \ {0}
    BY <1>1, FunctionType
  <2>3. ASSUME NEW b \in Blocks, NEW n \in Index(b), Walked(b, n)' PROVE Entered(b, n)'
    <3>1. CASE Walked(b, n)
      BY <1>2, <1>8, <3>1, StaysEntered DEF WalkInv, EnteredInv
    <3>2. CASE b = bb /\ n = k
      <4>1. n = n0
        BY <1>9, <3>2
      <4> QED BY <1>2, <1>10, <3>2, <4>1
    <3> QED BY <2>1, <2>2, <2>3, <3>1, <3>2
  <2>4. ASSUME NEW b \in Blocks, Walked(b, 0)' PROVE (Clique(Phis(b)) \subseteq IG)'
    <3>1. Walked(b, 0)
      BY <1>1, <2>1, <2>4
    <3> QED BY <1>2, <1>8, <3>1, StaysEntered DEF WalkInv, EnteredInv
  <2>5. ASSUME NEW w \in DOMAIN context'
        PROVE  w # NoValue /\ \E b \in Blocks : \E n \in Index(b) : Walked(b, n)' /\ f.code[b][n].def = w
    <3>1. CASE w \in DOMAIN context
      BY <2>1, <2>2, <3>1 DEF WalkInv, EnteredInv
    <3>2. CASE w = v /\ v # NoValue
      BY <1>1, <2>1, <3>2
    <3> QED BY <1>8, <3>1, <3>2
  <2>6. Blocks' = Blocks /\ \A b : Index(b)' = Index(b)
    BY <1>2, SameFunction
  <2> QED BY <1>2, <2>3, <2>4, <2>5, <2>6 DEF EnteredInv
<1>12. living' = Seen(bb, m)
  <2>1. Seen(bb, m) = Seen(bb, k) \cup ({v} \ {NoValue})
    BY <1>1, SeenNext
  <2> QED BY <1>1, <1>5, <1>6, <2>1
<1>13. ASSUME NEW w \in Values PROVE remain'[w] = Left(bb, m, w)
  <2>1. CASE w # v
    <3>1. Left(bb, m, w) = AfterRead(bb, k, w)
      BY <1>1, <2>1, NextCount
    <3>2. remain'[w] = rest[w]
      BY <1>1, <1>4, <1>5, <1>6, <2>1
    <3> QED BY <1>3, <3>1, <3>2
  <2>2. CASE w = v
    <3>1. Left(bb, m, w) = AfterRead(bb, k, w) + UsesWithin(bb, w, k + 1, Len(f.code[bb])) + LeftOver(bb, w)
      BY <1>1, <2>2, NextCount
    <3>2. v # NoValue
      BY <1>1, <2>2
    <3>3. remain'[v] = rest[v] + UsesWithin(bb, v, k + 1, Len(f.code[bb])) + LeftOver(bb, v)
      BY <1>1, <1>4, <1>6, <2>2, <3>2
    <3> QED BY <1>3, <2>2, <3>1, <3>3
  <2> QED BY <2>1, <2>2
<1>14. CountInv'
  <2>1. /\ \A n : Seen(bb, n)' = Seen(bb, n)
        /\ Values' = Values /\ Blocks' = Blocks
        /\ \A n, w : Left(bb, n, w)' = Left(bb, n, w)
    BY <1>2, SameFunction, SameLiveness
  <2>2. m \in 1 .. Len(f.code[bb]) + 1
    BY <1>1
  <2> HIDE DEF m
  <2> QED BY <1>1, <1>2, <1>12, <1>13, <2>1, <2>2 DEF CountInv
<1>15. LiveInv'
  <2>1. Clique(f.args) \subseteq IG'
    BY <1>1, <1>8 DEF WalkInv, LiveInv
  <2>2. /\ [b \in Blocks |-> {x \in Values : b \in LiveIn(x)}]'
             = [b \in Blocks |-> {x \in Values : b \in LiveIn(x)}]
        /\ [b \in Blocks |-> {x \in Values : b \in LiveOut(x)}]'
             = [b \in Blocks |-> {x \in Values : b \in LiveOut(x)}]
    BY <1>2, SameFunction
  <2> QED BY <1>1, <1>2, <2>1, <2>2 DEF WalkInv, LiveInv, Clique
<1> QED BY <1>11, <1>14, <1>15 DEF WalkInv

\* The steps that enter nothing.
LEMMA WalkKept ==
    ASSUME IInv, WalkInv, UNCHANGED <<f, live_in, live_out, IG, context>>,
           stage # "live", stage' # "live",
           \A b \in Blocks : \A n \in Nat : n <= Len(f.code[b]) => (Walked(b, n)' <=> Walked(b, n)),
           CountInv'
    PROVE  WalkInv'
<1>1. f \in Functions
  BY DEF IInv, TypeOK
<1>2. LiveInv'
  <2>1. /\ [b \in Blocks |-> {x \in Values : b \in LiveIn(x)}]'
             = [b \in Blocks |-> {x \in Values : b \in LiveIn(x)}]
        /\ [b \in Blocks |-> {x \in Values : b \in LiveOut(x)}]'
             = [b \in Blocks |-> {x \in Values : b \in LiveOut(x)}]
    BY SameFunction
  <2> QED BY <2>1 DEF WalkInv, LiveInv, Clique
<1>3. EnteredInv'
  <2>1. \A b \in Blocks : /\ Len(f.code[b]) \in Nat
                          /\ \A n \in Index(b) : n \in Nat /\ n <= Len(f.code[b])
    BY <1>1, FunctionType
  <2>2. ASSUME NEW b \in Blocks, NEW n \in Index(b), Walked(b, n)' PROVE Entered(b, n)'
    <3>1. Entered(b, n)
      BY <2>1, <2>2 DEF WalkInv, EnteredInv
    <3> QED BY <3>1, StaysEntered
  <2>3. ASSUME NEW b \in Blocks, Walked(b, 0)' PROVE (Clique(Phis(b)) \subseteq IG)'
    <3>1. Clique(Phis(b)) \subseteq IG
      BY <2>1, <2>3 DEF WalkInv, EnteredInv
    <3> QED BY <3>1, StaysEntered
  <2>4. \A w \in DOMAIN context : w # NoValue /\ \E b \in Blocks : \E n \in Index(b) :
           Walked(b, n)' /\ f.code[b][n].def = w
    BY <2>1 DEF WalkInv, EnteredInv
  <2>5. Blocks' = Blocks /\ \A b : Index(b)' = Index(b)
    BY SameFunction
  <2> QED BY <2>2, <2>3, <2>4, <2>5 DEF EnteredInv
<1> QED BY <1>2, <1>3 DEF WalkInv

\* Colouring and the run enter nothing.
LEMMA WalkOtherSteps ==
    ASSUME IInv, WalkInv,
           \/ EndBlock \/ StartColour \/ Colour \/ AllocateStackSpace
           \/ StartRun \/ Execute \/ (\E s \in Blocks : Branch(s)) \/ Return
    PROVE  WalkInv'
<1>1. /\ f \in Functions /\ Len(f.code) \in Nat /\ Blocks = 1 .. Len(f.code)
      /\ \A b \in Blocks : Len(f.code[b]) \in Nat
      /\ bb \in Nat /\ k \in Nat
  BY FunctionType DEF IInv, TypeOK
<1>2. CASE EndBlock
  <2>1. /\ UNCHANGED <<f, k, live_in, live_out, IG, context>>
        /\ stage = "inst" /\ stage' = "block" /\ bb' = bb + 1 /\ k > Len(f.code[bb])
        /\ bb \in Blocks
    BY <1>2 DEF EndBlock, WalkInv, CountInv
  <2>2. \A b \in Blocks : \A n \in Nat : n <= Len(f.code[b]) => (Walked(b, n)' <=> Walked(b, n))
    BY <1>1, <2>1 DEF Walked
  <2>3. CountInv'
    BY <1>1, <2>1 DEF CountInv
  <2> QED BY <2>1, <2>2, <2>3, WalkKept
<1>3. CASE StartColour
  <2>1. /\ UNCHANGED <<f, bb, k, live_in, live_out, IG, context>>
        /\ stage = "block" /\ stage' = "colour" /\ bb > Len(f.code)
    BY <1>3 DEF StartColour
  <2>2. \A b \in Blocks : \A n \in Nat : n <= Len(f.code[b]) => (Walked(b, n)' <=> Walked(b, n))
    BY <1>1, <2>1 DEF Walked
  <2>3. CountInv'
    BY <2>1 DEF CountInv
  <2> QED BY <2>1, <2>2, <2>3, WalkKept
<1>4. CASE \/ Colour \/ AllocateStackSpace
           \/ StartRun \/ Execute \/ (\E s \in Blocks : Branch(s)) \/ Return
  <2>1. /\ UNCHANGED <<f, live_in, live_out, IG, context>>
        /\ stage \in {"colour", "stack", "run"} /\ stage' \in {"colour", "stack", "run"}
    BY <1>4 DEF Colour, AllocateStackSpace, StartRun, Execute, Branch, Return, vars
  <2>2. \A b \in Blocks : \A n \in Nat : n <= Len(f.code[b]) => (Walked(b, n)' <=> Walked(b, n))
    BY <2>1 DEF Walked
  <2>3. CountInv'
    BY <2>1 DEF CountInv
  <2> QED BY <2>1, <2>2, <2>3, WalkKept
<1> QED BY <1>2, <1>3, <1>4

\* Every step keeps the invariant of the walk.
LEMMA WalkSteps == IInv /\ WalkInv /\ [Next]_vars => WalkInv'
<1> SUFFICES ASSUME IInv, WalkInv, [Next]_vars PROVE WalkInv'
  OBVIOUS
<1>1. CASE UNCHANGED vars
  <2>1. UNCHANGED <<f, stage, bb, k, live_in, live_out, living, remain, IG, context>>
    BY <1>1 DEF vars
  <2>2. \A b, n : Walked(b, n)' <=> Walked(b, n)
    BY <2>1 DEF Walked
  <2>3. /\ \A b, n : Entered(b, n) => Entered(b, n)'
        /\ \A b : Clique(Phis(b)) \subseteq IG => (Clique(Phis(b)) \subseteq IG)'
    BY <2>1, StaysEntered
  <2>4. /\ \A b, n : Seen(b, n)' = Seen(b, n)
        /\ Values' = Values /\ Blocks' = Blocks
        /\ \A b : Index(b)' = Index(b)
        /\ \A b, n, w : Left(b, n, w)' = Left(b, n, w)
        /\ [b \in Blocks |-> {x \in Values : b \in LiveIn(x)}]'
             = [b \in Blocks |-> {x \in Values : b \in LiveIn(x)}]
        /\ [b \in Blocks |-> {x \in Values : b \in LiveOut(x)}]'
             = [b \in Blocks |-> {x \in Values : b \in LiveOut(x)}]
    BY <2>1, SameFunction, SameLiveness
  <2>5. LiveInv'
    BY <2>1, <2>4 DEF WalkInv, LiveInv, Clique
  <2>6. EnteredInv'
    BY <2>1, <2>2, <2>3, <2>4 DEF WalkInv, EnteredInv
  <2>7. CountInv'
    BY <2>1, <2>4 DEF WalkInv, CountInv
  <2> QED BY <2>5, <2>6, <2>7 DEF WalkInv
<1>2. CASE Next
  BY <1>2, WalkFindLive, WalkStartBlock, WalkProcessInst, WalkOtherSteps DEF Next
<1> QED BY <1>1, <1>2

-----------------------------------------------------------------------------
(* The run *)

\* Values that interfere have different places.
LEMMA DifferentPlaces ==
    ASSUME IInv, NEW v \in Value, NEW w \in Value, v # w, <<v, w>> \in IG
    PROVE  Loc(v) # Loc(w)
<1>1. \A u \in DOMAIN mapping : mapping[u] \in allocate_regs /\ mapping[u] \notin Value
  BY RegAssumption DEF IInv, TypeOK
<1>2. CASE v \in DOMAIN mapping /\ w \in DOMAIN mapping
  <2> DEFINE e == <<v, w>>
  <2>1. e \in IG /\ e[1] = v /\ e[2] = w
    OBVIOUS
  <2> HIDE DEF e
  <2>2. mapping[v] # mapping[w]
    BY <1>2, <2>1 DEF IInv, ProperColouring
  <2> QED BY <1>2, <2>2 DEF Loc
<1>3. CASE ~(v \in DOMAIN mapping /\ w \in DOMAIN mapping)
  BY <1>1, <1>3 DEF Loc
<1> QED BY <1>2, <1>3

\* A value lives in a register or in a slot of its own.
LEMMA PlaceOfValue ==
    ASSUME IInv, NEW v \in Value
    PROVE  Loc(v) \in Place
BY DEF IInv, TypeOK, Loc, Place

Coloured == stage \in {"colour", "stack", "run"}

\* A value that has to be kept is out of the way of the one defined, and a call
\* knows of it.
LEMMA KeptApart ==
    ASSUME IInv, WalkInv, Coloured, NEW b \in Blocks, NEW n \in Index(b), NEW w \in Over(b, n),
           f.code[b][n].def # NoValue
    PROVE  LET inst == f.code[b][n] IN
           /\ w # inst.def
           /\ Loc(inst.def) # Loc(w)
           /\ inst.call => inst.def \in DOMAIN context /\ w \in context[inst.def]
<1> DEFINE v == f.code[b][n].def
<1>1. f \in Functions
  BY DEF IInv, TypeOK
<1>2. Entered(b, n)
  BY DEF WalkInv, EnteredInv, Walked, Coloured
<1>3. v \in Value /\ w \in Value
  <2>1. v \in Value
    BY <1>1, OneDefinition
  <2>2. w \in Values
    BY DEF Over
  <2> QED BY <1>1, <2>1, <2>2, ValuesAreValues
<1>4. w # v
  <2>1. AfterRead(b, n, w) > 0 /\ AfterRead(b, n, v) = 0
    BY <1>1, ReadActive
  <2> QED BY <2>1
<1>5. <<v, w>> \in IG
  BY <1>2 DEF Entered
<1>6. Loc(v) # Loc(w)
  <2> HIDE DEF v
  <2> QED BY <1>3, <1>4, <1>5, DifferentPlaces
<1>7. f.code[b][n].call => v \in DOMAIN context /\ w \in context[v]
  BY <1>2 DEF Entered
<1> QED BY <1>4, <1>6, <1>7

\* The values with a definition on every path to block b: they may come from
\* before, and not from b.
LEMMA FromBefore ==
    ASSUME f \in Functions, NEW b \in Blocks, NEW w \in Value, w \in f.args \/ b \notin Without(f, w),
           b \in LiveIn(w) \/ (w \notin f.args /\ b \in Without(f, w)),
           b \in Without(f, w) \/ w \in f.args \/ \E c \in Blocks \cap Without(f, w) : Defines(c, w)
    PROVE  w \in Values /\ b \in LiveIn(w) /\ ~Defines(b, w)
<1>1. b \in LiveIn(w)
  OBVIOUS
<1>2. CASE w \in f.args
  BY <1>1, <1>2, OneBlock DEF Values
<1>3. CASE w \notin f.args
  <2>1. b \notin Without(f, w)
    BY <1>3
  <2>2. PICK c \in Blocks \cap Without(f, w) : Defines(c, w)
    BY <1>3, <2>1
  <2>3. ~Defines(b, w)
    BY <2>1, <2>2, OneBlock
  <2>4. w \in Values
    BY <2>2 DEF Values, Defines
  <2> QED BY <1>1, <2>3, <2>4
<1> QED BY <1>2, <1>3

\* What is held are values.
LEMMA HeldFacts ==
    ASSUME f \in Functions, NEW b, InBlock(b), NEW n \in 1 .. Len(f.code[b]) + 1, NEW w
    PROVE  /\ w \in Held(b, n) => w \in Values /\ w \in Value
           /\ w \in Value => (w \in Held(b, n) <=> \/ w \in f.args \/ b \notin Without(f, w)
                                                  \/ w \in Phis(b) \/ w \in DefsTo(b, n))
<1>1. DefsTo(b, n) \subseteq Values
  <2>1. \A i \in 1 .. n - 1 : i \in Index(b)
    BY FunctionType DEF InBlock
  <2> QED BY <2>1, OneDefinition DEF DefsTo, InBlock
<1>2. Values \subseteq Value
  BY ValuesAreValues
<1>3. Phis(b) \subseteq Values
  <2>1. \A i \in Index(b) : IsPhi(f.code[b][i]) => f.code[b][i].def # NoValue
    BY Flow, RegAssumption DEF InBlock
  <2> QED BY <2>1, OneDefinition DEF Phis, InBlock
<1>4. ASSUME w \in Value, w \in f.args \/ b \notin Without(f, w) PROVE w \in Values
  BY <1>4, FromBefore DEF InBlock
<1> QED BY <1>1, <1>2, <1>3, <1>4 DEF Held

\* A value held over an instruction is one the walk has kept.
LEMMA HeldIsKept ==
    ASSUME f \in Functions, NEW b, InBlock(b), NEW n \in Index(b), ~IsPhi(f.code[b][n]),
           NEW w \in Held(b, n + 1), Needed(b, n + 1, w), w # f.code[b][n].def
    PROVE  w \in Over(b, n) /\ w \in Held(b, n)
<1> DEFINE m == n + 1
           v == f.code[b][n].def
<1>1. n \in Nat \ {0} /\ m \in 1 .. Len(f.code[b]) + 1 /\ n \in 1 .. Len(f.code[b]) + 1
      /\ b \in Blocks /\ Index(b) = 1 .. Len(f.code[b])
  BY FunctionType DEF InBlock
<1>2. DefsTo(b, m) = DefsTo(b, n) \cup ({v} \ {NoValue})
  BY <1>1, SeenNext
<1> HIDE DEF m
<1>3. w \in Values /\ w \in Value
  BY <1>1, HeldFacts DEF m
<1>4. \/ w \in f.args \/ b \notin Without(f, w)
      \/ w \in Phis(b) \/ w \in DefsTo(b, n)
  <2>1. \/ w \in f.args \/ b \notin Without(f, w)
        \/ w \in Phis(b) \/ w \in DefsTo(b, m)
    BY <1>1, <1>3, HeldFacts DEF m
  <2> QED BY <1>2, <2>1
<1>5. w \in Phis(b) => w \in DefsTo(b, n)
  <2> SUFFICES ASSUME w \in Phis(b) PROVE w \in DefsTo(b, n)
    OBVIOUS
  <2>1. PICK i \in Index(b) : IsPhi(f.code[b][i]) /\ f.code[b][i].def = w
    BY DEF Phis
  <2>2. \A h \in 1 .. i : IsPhi(f.code[b][h])
    BY <1>1, <2>1, Flow
  <2>3. i \in 1 .. n - 1
    BY <1>1, <2>2
  <2>4. w # NoValue
    BY <1>3, RegAssumption
  <2> QED BY <1>1, <2>1, <2>3, <2>4, Definers
<1>6. w \in DefsTo(b, n) \/ (b \in LiveIn(w) /\ ~Defines(b, w))
  <2>1. CASE w \in f.args \/ b \notin Without(f, w)
    BY <1>3, <2>1, FromBefore DEF InBlock
  <2> QED BY <1>4, <1>5, <2>1
<1>7. w \in Over(b, n)
  BY <1>3, <1>6 DEF Over
<1>8. w \in Held(b, n)
  BY <1>1, <1>3, <1>4, HeldFacts
<1> QED BY <1>7, <1>8

\* What is needed after an instruction is needed before it.
LEMMA NeededBefore ==
    ASSUME NEW b, NEW n \in Nat, NEW w, Needed(b, n + 1, w), Index(b) \subseteq Nat
    PROVE  Needed(b, n, w)
<1>1. \A i \in Index(b) : i >= n + 1 => i >= n
  OBVIOUS
<1> QED BY <1>1 DEF Needed

\* A call leaves what has to be kept where it is.
LEMMA CallKeeps ==
    ASSUME IInv, WalkInv, Coloured, NEW b \in Blocks, NEW n \in Index(b), NEW w \in Over(b, n),
           f.code[b][n].call
    PROVE  AfterCall(f.code[b][n])[Loc(w)] = val[Loc(w)]
<1> DEFINE inst == f.code[b][n]
<1>1. f \in Functions
  BY DEF IInv, TypeOK
<1>2. w \in Value
  <2>1. w \in Values
    BY DEF Over
  <2> QED BY <1>1, <2>1, ValuesAreValues
<1>3. Loc(w) \notin caller_save_regs \ Saved(inst)
  <2>1. CASE w \notin DOMAIN mapping
    BY <1>2, <2>1, RegAssumption DEF Loc
  <2>2. CASE w \in DOMAIN mapping /\ inst.def = NoValue
    <3>1. inst.def \notin DOMAIN context
      BY <2>2 DEF WalkInv, EnteredInv
    <3>2. Saved(inst) = {mapping[u] : u \in DOMAIN mapping} \cap caller_save_regs
      BY <3>1 DEF Saved
    <3> QED BY <2>2, <3>2 DEF Loc
  <2>3. CASE w \in DOMAIN mapping /\ inst.def # NoValue
    <3>1. inst.def \in DOMAIN context /\ w \in context[inst.def] /\ Loc(inst.def) # Loc(w)
      BY <2>3, KeptApart
    <3>2. Saved(inst) = {mapping[u] : u \in context[inst.def] \cap DOMAIN mapping} \ {Loc(inst.def)}
      BY <3>1 DEF Saved
    <3>3. Loc(w) = mapping[w]
      BY <2>3 DEF Loc
    <3> QED BY <2>3, <3>1, <3>2, <3>3
  <2> QED BY <2>1, <2>2, <2>3
<1>4. Loc(w) \in Place
  BY <1>2, PlaceOfValue
<1> HIDE DEF inst
<1> QED BY <1>3, <1>4 DEF AfterCall, inst

\* Where the instruction at hand leaves what is held over it.
LEMMA RunExecute == IInv /\ WalkInv /\ RunInv /\ Execute => RunInv'
<1> SUFFICES ASSUME IInv, WalkInv, RunInv, Execute PROVE RunInv'
  OBVIOUS
<1> DEFINE inst == f.code[bb][k]
           v == inst.def
           m == k + 1
           before == IF inst.call THEN AfterCall(inst) ELSE val
<1>1. /\ stage = "run" /\ k <= Len(f.code[bb]) /\ k' = m
      /\ UNCHANGED <<f, stage, bb, live_out, mapping>>
      /\ val' = IF IsPhi(inst) \/ v = NoValue THEN before ELSE [before EXCEPT ![Loc(v)] = v]
  BY DEF Execute
<1>2. /\ InBlock(bb) /\ k \in 1 .. Len(f.code[bb]) + 1 /\ bb \in Blocks /\ f \in Functions
      /\ val \in [Place -> Value \cup {NoValue}]
      /\ \A w \in Held(bb, k) : Needed(bb, k, w) => val[Loc(w)] = w
  BY <1>1 DEF RunInv, InBlock, IInv, TypeOK
<1>3. /\ k \in Index(bb) /\ Index(bb) = 1 .. Len(f.code[bb]) /\ Len(f.code[bb]) \in Nat
      /\ inst \in Instruction /\ m \in 1 .. Len(f.code[bb]) + 1 /\ k \in Nat
  BY <1>1, <1>2, FunctionType
<1>4. v \in Value \cup {NoValue}
  BY <1>3 DEF Instruction
<1>5. before \in [Place -> Value \cup {NoValue}]
  BY <1>2 DEF AfterCall
<1>6. val' \in [Place -> Value \cup {NoValue}]
  <2> HIDE DEF before
  <2> QED BY <1>1, <1>4, <1>5
<1>7. ASSUME NEW w \in Held(bb, m), Needed(bb, m, w) PROVE val'[Loc(w)] = w
  <2>1. w \in Value
    BY <1>2, <1>3, HeldFacts
  <2>2. Needed(bb, k, w)
    BY <1>3, <1>7, NeededBefore
  <2>3. CASE IsPhi(inst)
    <3>1. ~inst.call /\ v \in Phis(bb)
      BY <1>2, <1>3, <2>3, Flow DEF Phis
    <3>2. DefsTo(bb, m) \subseteq DefsTo(bb, k) \cup {v}
      BY <1>2, <1>3, SeenNext
    <3>3. w \in Held(bb, k)
      BY <1>7, <3>1, <3>2 DEF Held
    <3> QED BY <1>1, <1>2, <2>2, <2>3, <3>1, <3>3
  <2>4. CASE ~IsPhi(inst) /\ w = v
    <3>1. Loc(v) \in Place /\ v # NoValue
      BY <2>1, <2>4, PlaceOfValue, RegAssumption
    <3> HIDE DEF before
    <3> QED BY <1>1, <1>5, <2>4, <3>1
  <2>5. CASE ~IsPhi(inst) /\ w # v
    <3>1. w \in Over(bb, k) /\ w \in Held(bb, k)
      BY <1>2, <1>3, <1>7, <2>5, HeldIsKept
    <3>2. val[Loc(w)] = w
      BY <1>2, <2>2, <3>1
    <3>3. before[Loc(w)] = w
      <4>1. inst.call => AfterCall(inst)[Loc(w)] = val[Loc(w)]
        BY <1>1, <1>2, <1>3, <3>1, CallKeeps DEF Coloured
      <4> QED BY <3>2, <4>1
    <3>4. CASE v = NoValue
      BY <1>1, <3>3, <3>4
    <3>5. CASE v # NoValue
      <4>1. Loc(v) # Loc(w)
        BY <1>1, <1>2, <1>3, <3>1, <3>5, KeptApart DEF Coloured
      <4>2. Loc(v) \in Place /\ Loc(w) \in Place
        BY <1>4, <2>1, <3>5, PlaceOfValue
      <4> HIDE DEF before
      <4> QED BY <1>1, <1>5, <2>5, <3>3, <3>5, <4>1, <4>2
    <3> QED BY <3>4, <3>5
  <2> QED BY <2>3, <2>4, <2>5
<1>8. /\ \A n : Held(bb, n)' = Held(bb, n)
      /\ \A n, w : Needed(bb, n, w)' = Needed(bb, n, w)
      /\ InBlock(bb)' /\ \A w : Loc(w)' = Loc(w)
  <2>1. \A w : Loc(w)' = Loc(w)
    BY <1>1 DEF Loc
  <2>2. InBlock(bb)'
    BY <1>1, <1>2, SameFunction DEF InBlock
  <2> QED BY <1>1, <2>1, <2>2, SameLiveness
<1>9. (k \in 1 .. Len(f.code[bb]) + 1)'
  BY <1>1, <1>3
<1>10. Place' = Place
  BY DEF Place
<1> HIDE DEF m
<1> QED BY <1>1, <1>6, <1>7, <1>8, <1>9, <1>10 DEF RunInv

\* An operand of a phi is held at the end of the block it comes from.
LEMMA PhiOperandHeld ==
    ASSUME IInv, WalkInv, RunInv, stage = "run", k > Len(f.code[bb]), NEW s \in f.succ[bb],
           NEW i \in Index(s), IsPhi(f.code[s][i])
    PROVE  /\ Incoming(bb, s, i) \in Held(bb, k)
           /\ Needed(bb, k, Incoming(bb, s, i))
<1> DEFINE inst == f.code[s][i]
           J == CHOOSE j \in DOMAIN inst.ops : inst.from[j] = bb
           op == Incoming(bb, s, i)
<1>1. /\ f \in Functions /\ InBlock(bb) /\ bb \in Blocks /\ Len(f.code[bb]) \in Nat
      /\ k = Len(f.code[bb]) + 1 /\ s \in Blocks /\ k \in 1 .. Len(f.code[bb]) + 1
  <2>1. f \in Functions /\ InBlock(bb) /\ bb \in Blocks /\ k \in 1 .. Len(f.code[bb]) + 1
    BY DEF RunInv, InBlock, IInv, TypeOK
  <2>2. Len(f.code[bb]) \in Nat
    BY <2>1, FunctionType
  <2>3. s \in Blocks
    BY <2>1, Flow
  <2> QED BY <2>1, <2>2, <2>3
<1>2. \E j \in DOMAIN inst.ops : inst.from[j] = bb
  BY <1>1, Flow
<1>3. J \in DOMAIN inst.ops /\ inst.from[J] = bb
  BY <1>2
<1>4. op = inst.ops[J]
  BY DEF Incoming
<1> HIDE DEF J, op
<1>5. op \in Value /\ DefinedAt(f, op, bb, Len(f.code[bb]) + 1)
  BY <1>1, <1>3, <1>4, Operands
<1>6. op \in f.args \/ bb \notin Without(f, op) \/ op \in DefsTo(bb, k)
  <2>1. op # NoValue
    BY <1>5, RegAssumption
  <2>2. \/ op \in f.args \/ bb \notin Without(f, op)
        \/ \E h \in 1 .. k - 1 : f.code[bb][h].def = op
    BY <1>1, <1>5 DEF DefinedAt
  <2> QED BY <2>1, <2>2 DEF DefsTo
<1>7. op \in Held(bb, k)
  BY <1>1, <1>5, <1>6, HeldFacts
<1>8. op \in Values
  BY <1>1, <1>7, HeldFacts
<1>9. bb \in UsedFrom(s, i, op)
  <2>1. UsedFrom(s, i, op) = {inst.from[j] : j \in {m \in DOMAIN inst.ops : inst.ops[m] = op}}
    BY UsedFromCases
  <2> HIDE DEF inst
  <2> QED BY <1>3, <1>4, <2>1
<1>10. bb \in LiveOut(op)
  <2>1. bb \in UsedAfter(op)
    BY <1>1, <1>9 DEF UsedAfter
  <2> QED BY <1>1, <2>1, LiveOutGoesOn
<1>11. op \in live_out[bb]
  BY <1>1, <1>8, <1>10 DEF WalkInv, LiveInv
<1> QED BY <1>7, <1>11 DEF Needed, op

\* What is known of a block is known of the next.
LEMMA InNextBlock ==
    ASSUME f \in Functions, NEW b, InBlock(b), NEW s \in f.succ[b]
    PROVE  InBlock(s)
<1>1. b \in Blocks /\ s \in Blocks
  BY Flow DEF InBlock
<1>2. ASSUME NEW w \in Value PROVE s \in LiveIn(w) \/ (w \notin f.args /\ s \in Without(f, w))
  <2>1. b \in LiveIn(w) \/ Defines(b, w) => s \in LiveIn(w)
    BY <1>1, LiveInGoesOn
  <2>2. b \in Without(f, w) /\ ~Defines(b, w) => s \in Without(f, w)
    BY <1>1, WithoutGoesOn
  <2> QED BY <2>1, <2>2 DEF InBlock
<1>3. ASSUME NEW w \in Value
      PROVE  s \in Without(f, w) \/ w \in f.args \/ \E c \in Blocks \cap Without(f, w) : Defines(c, w)
  <2>1. b \in Without(f, w) /\ ~Defines(b, w) => s \in Without(f, w)
    BY <1>1, WithoutGoesOn
  <2> QED BY <1>1, <2>1 DEF InBlock
<1> QED BY <1>1, <1>2, <1>3 DEF InBlock

\* What is held and needed at the start of the next block, and is no phi of it,
\* is held at the end of this one, and no phi goes to its place.
LEMMA HeldOverEdge ==
    ASSUME IInv, WalkInv, RunInv, stage = "run", k > Len(f.code[bb]), NEW s \in f.succ[bb],
           NEW w \in Held(s, 1), Needed(s, 1, w), w \notin Phis(s)
    PROVE  /\ w \in Held(bb, k) /\ Needed(bb, k, w)
           /\ \A i \in Index(s) : IsPhi(f.code[s][i]) => w \in Over(s, i)
<1>1. /\ f \in Functions /\ InBlock(bb) /\ bb \in Blocks /\ Len(f.code[bb]) \in Nat
      /\ k = Len(f.code[bb]) + 1 /\ s \in Blocks /\ k \in 1 .. Len(f.code[bb]) + 1
      /\ Len(f.code[s]) \in Nat /\ Index(s) = 1 .. Len(f.code[s]) /\ InBlock(s)
  <2>1. f \in Functions /\ InBlock(bb) /\ bb \in Blocks /\ k \in 1 .. Len(f.code[bb]) + 1
    BY DEF RunInv, InBlock, IInv, TypeOK
  <2>2. s \in Blocks /\ InBlock(s)
    BY <2>1, Flow, InNextBlock
  <2> QED BY <2>1, <2>2, FunctionType
<1>2. w \in Value /\ w \in Values
  <2>1. 1 \in 1 .. Len(f.code[s]) + 1
    BY <1>1
  <2> QED BY <1>1, <2>1, HeldFacts
<1>3. w \in f.args \/ s \notin Without(f, w)
  <2>1. w \notin DefsTo(s, 1)
    BY DEF DefsTo
  <2> QED BY <2>1 DEF Held
<1>4. s \in LiveIn(w) /\ ~Defines(s, w)
  BY <1>1, <1>2, <1>3, FromBefore DEF InBlock
<1>5. w \in Held(bb, k)
  <2>1. bb \in Without(f, w) /\ ~Defines(bb, w) => s \in Without(f, w)
    BY <1>1, WithoutGoesOn
  <2>2. Defines(bb, w) => w \in DefsTo(bb, k)
    BY <1>1 DEF Defines, Defs, DefsOf, DefsTo
  <2> QED BY <1>1, <1>2, <1>3, <2>1, <2>2, HeldFacts
<1>6. bb \in LiveOut(w)
  <2>1. CASE w \in live_out[s]
    <3>1. s \in LiveOut(w)
      BY <1>1, <2>1 DEF WalkInv, LiveInv
    <3> QED BY <1>1, <1>4, <3>1, LiveOutGoesOn
  <2>2. CASE w \notin live_out[s]
    <3>1. PICK i \in Index(s) : Uses(f.code[s][i], w) # {}
      BY <2>2 DEF Needed
    <3>2. \A h \in 1 .. i - 1 : f.code[s][h].def # w
      <4>1. \A h \in 1 .. i - 1 : h \in Index(s)
        BY <1>1
      <4>2. w # NoValue
        BY <1>2, RegAssumption
      <4> QED BY <1>1, <1>4, <4>1, <4>2, Definers
    <3>3. UsedFrom(s, i, w) = Preds(s)
      BY <3>1, <3>2, UsedFromCases
    <3>4. bb \in Preds(s)
      BY <1>1 DEF Preds
    <3>5. bb \in UsedAfter(w)
      BY <1>1, <3>3, <3>4 DEF UsedAfter
    <3> QED BY <1>1, <3>5, LiveOutGoesOn
  <2> QED BY <2>1, <2>2
<1>7. Needed(bb, k, w)
  BY <1>1, <1>2, <1>6 DEF WalkInv, LiveInv, Needed
<1>8. ASSUME NEW i \in Index(s), IsPhi(f.code[s][i]) PROVE w \in Over(s, i)
  <2>1. Needed(s, i + 1, w)
    <3>1. CASE w \in live_out[s]
      BY <3>1 DEF Needed
    <3>2. CASE w \notin live_out[s]
      <4>1. PICK j \in Index(s) : Uses(f.code[s][j], w) # {}
        BY <3>2 DEF Needed
      <4>2. ~IsPhi(f.code[s][j])
        BY <4>1 DEF Uses
      <4>3. \A h \in 1 .. i : IsPhi(f.code[s][h])
        BY <1>1, <1>8, Flow
      <4>4. j >= i + 1
        BY <1>1, <4>2, <4>3
      <4> QED BY <4>1, <4>4 DEF Needed
    <3> QED BY <3>1, <3>2
  <2> QED BY <1>2, <1>4, <2>1 DEF Over
<1> QED BY <1>5, <1>7, <1>8

\* The moves of an edge.
Into(s, p) == {i \in {j \in Index(s) : IsPhi(f.code[s][j])} : Loc(f.code[s][i].def) = p}

\* The moves of an edge go to places of their own, none of which is still needed.
LEMMA RunBranch ==
    ASSUME IInv, WalkInv, RunInv, NEW s \in Blocks, Branch(s)
    PROVE  RunInv'
<1>1. /\ stage = "run" /\ k > Len(f.code[bb]) /\ s \in f.succ[bb]
      /\ UNCHANGED <<f, stage, live_out, mapping>> /\ bb' = s /\ k' = 1
  BY DEF Branch
<1>2. val' = [p \in Place |->
                IF Into(s, p) = {} THEN val[p]
                ELSE LET i == CHOOSE i \in Into(s, p) : TRUE
                         op == Incoming(bb, s, i)
                     IN  IF Into(s, p) = {i} /\ val[Loc(op)] = op
                         THEN f.code[s][i].def ELSE NoValue]
  BY DEF Branch, Into
<1>3. /\ InBlock(bb) /\ bb \in Blocks /\ f \in Functions
      /\ val \in [Place -> Value \cup {NoValue}]
      /\ \A w \in Held(bb, k) : Needed(bb, k, w) => val[Loc(w)] = w
  BY <1>1 DEF RunInv, InBlock, IInv, TypeOK
<1>4. InBlock(s) /\ Len(f.code[s]) \in Nat /\ Index(s) = 1 .. Len(f.code[s])
  BY <1>1, <1>3, InNextBlock, FunctionType
<1>5. \A i \in Index(s) : IsPhi(f.code[s][i]) => f.code[s][i].def \in Value
  BY <1>3, Flow
<1>6. val' \in [Place -> Value \cup {NoValue}]
  <2> SUFFICES ASSUME NEW p \in Place PROVE val'[p] \in Value \cup {NoValue}
    BY <1>2
  <2>1. CASE Into(s, p) = {}
    BY <1>2, <1>3, <2>1
  <2>2. CASE Into(s, p) # {}
    <3> DEFINE i == CHOOSE i \in Into(s, p) : TRUE
    <3>1. i \in Into(s, p)
      BY <2>2
    <3>2. f.code[s][i].def \in Value
      BY <1>5, <3>1 DEF Into
    <3>3. val'[p] \in {f.code[s][i].def, NoValue}
      BY <1>2, <2>2
    <3> HIDE DEF i
    <3> QED BY <3>2, <3>3
  <2> QED BY <2>1, <2>2
<1>7. ASSUME NEW w \in Held(s, 1), Needed(s, 1, w) PROVE val'[Loc(w)] = w
  <2>1. w \in Value /\ Loc(w) \in Place
    <3>1. 1 \in 1 .. Len(f.code[s]) + 1
      BY <1>4
    <3>2. w \in Value
      BY <1>3, <1>4, <3>1, HeldFacts
    <3> QED BY <3>2, PlaceOfValue
  <2>2. CASE w \notin Phis(s)
    <3>1. /\ w \in Held(bb, k) /\ Needed(bb, k, w)
          /\ \A i \in Index(s) : IsPhi(f.code[s][i]) => w \in Over(s, i)
      BY <1>1, <1>7, <2>2, HeldOverEdge
    <3>2. \A i \in Index(s) : IsPhi(f.code[s][i]) => Loc(f.code[s][i].def) # Loc(w)
      <4> SUFFICES ASSUME NEW i \in Index(s), IsPhi(f.code[s][i])
                   PROVE  Loc(f.code[s][i].def) # Loc(w)
        OBVIOUS
      <4>1. f.code[s][i].def # NoValue /\ w \in Over(s, i)
        BY <1>5, <3>1, RegAssumption
      <4> QED BY <1>1, <4>1, KeptApart DEF Coloured
    <3>3. Into(s, Loc(w)) = {}
      BY <3>2 DEF Into
    <3> QED BY <1>2, <1>3, <2>1, <3>1, <3>3
  <2>3. CASE w \in Phis(s)
    <3>1. PICK i \in Index(s) : IsPhi(f.code[s][i]) /\ f.code[s][i].def = w
      BY <2>3 DEF Phis
    <3>2. Into(s, Loc(w)) = {i}
      <4>1. i \in Into(s, Loc(w))
        BY <3>1 DEF Into
      <4>2. ASSUME NEW j \in Into(s, Loc(w)), j # i PROVE FALSE
        <5> DEFINE u == f.code[s][j].def
        <5>1. j \in Index(s) /\ IsPhi(f.code[s][j]) /\ Loc(u) = Loc(w)
          BY DEF Into
        <5>2. u \in Phis(s) /\ u \in Value /\ u # NoValue
          BY <1>5, <5>1, RegAssumption DEF Phis
        <5>3. u # w
          BY <1>3, <3>1, <4>2, <5>1, <5>2, OneDefinition
        <5>4. Clique(Phis(s)) \subseteq IG
          BY <1>1 DEF WalkInv, EnteredInv, Walked
        <5> HIDE DEF u
        <5>5. <<u, w>> \in IG
          BY <2>3, <5>2, <5>3, <5>4 DEF Clique
        <5> QED BY <2>1, <5>1, <5>2, <5>3, <5>5, DifferentPlaces
      <4> QED BY <4>1, <4>2
    <3> DEFINE op == Incoming(bb, s, i)
    <3>3. op \in Held(bb, k) /\ Needed(bb, k, op)
      BY <1>1, <3>1, PhiOperandHeld
    <3>4. val[Loc(op)] = op
      BY <1>3, <3>3
    <3>5. (CHOOSE j \in Into(s, Loc(w)) : TRUE) = i
      BY <3>2
    <3>6. val'[Loc(w)] = f.code[s][i].def
      BY <1>2, <2>1, <3>2, <3>4, <3>5
    <3> QED BY <3>1, <3>6
  <2> QED BY <2>2, <2>3
<1>8. /\ \A b, n : Held(b, n)' = Held(b, n)
      /\ \A b, n, w : Needed(b, n, w)' = Needed(b, n, w)
      /\ \A w : Loc(w)' = Loc(w)
  BY <1>1, SameLiveness DEF Loc
<1>9. InBlock(bb)'
  BY <1>1, <1>4, SameFunction DEF InBlock
<1>10. (k \in 1 .. Len(f.code[bb]) + 1)' /\ Place' = Place
  BY <1>1, <1>4 DEF Place
<1> QED BY <1>1, <1>6, <1>7, <1>8, <1>9, <1>10 DEF RunInv

\* The entry has no phis: an operand would come from a block that jumps to it.
LEMMA NoPhisAtEntry ==
    ASSUME f \in Functions
    PROVE  Phis(1) = {}
<1> SUFFICES ASSUME NEW i \in Index(1), IsPhi(f.code[1][i]) PROVE FALSE
  BY DEF Phis
<1> DEFINE inst == f.code[1][i]
<1>1. 1 \in Blocks /\ \A b \in Blocks : f.succ[b] \subseteq Blocks \ {1}
  BY Flow
<1>2. inst \in Instruction /\ DOMAIN inst.from = DOMAIN inst.ops
  BY <1>1, FunctionType, GraphAssumption DEF Blocks, Index, IsPhi
<1>3. inst.from \in Seq(Nat) /\ inst.from # <<>>
  BY <1>2 DEF Instruction, IsPhi
<1> DEFINE from == inst.from
<1>4. 1 \in DOMAIN from
  <2>1. from \in Seq(Nat) /\ from # <<>>
    BY <1>3
  <2> HIDE DEF from
  <2> QED BY <2>1
<1>5. inst.from[1] \in Blocks /\ 1 \in f.succ[inst.from[1]]
  BY <1>1, <1>2, <1>4, Flow
<1> QED BY <1>1, <1>5

\* Function entry finds a place of its own for every argument.
LEMMA RunStart == IInv /\ WalkInv /\ StartRun => RunInv'
<1> SUFFICES ASSUME IInv, WalkInv, StartRun PROVE RunInv'
  OBVIOUS
<1>1. /\ stage = "stack" /\ stage' = "run" /\ bb' = 1 /\ k' = 1
      /\ UNCHANGED <<f, live_out, mapping>>
      /\ val' = [p \in Place |-> IF \E a \in f.args : Loc(a) = p
                                 THEN CHOOSE a \in f.args : Loc(a) = p ELSE NoValue]
  BY DEF StartRun
<1>2. f \in Functions /\ 1 \in Blocks /\ Len(f.code[1]) \in Nat /\ f.args \subseteq Value
  BY Flow, FunctionType, FunctionAssumption DEF IInv, TypeOK
<1>3. \A a \in f.args : \A c \in f.args : Loc(a) = Loc(c) => a = c
  <2> SUFFICES ASSUME NEW a \in f.args, NEW c \in f.args, a # c PROVE Loc(a) # Loc(c)
    OBVIOUS
  <2>1. <<a, c>> \in IG
    BY <1>1 DEF WalkInv, LiveInv, Clique
  <2> QED BY <1>2, <2>1, DifferentPlaces
<1>4. InBlock(1)
  <2>1. \A w \in f.args : 1 \in LiveIn(w)
    BY <1>2, LiveInGoesOn
  <2>2. \A w : 1 \in Without(f, w)
    BY <1>2, WithoutGoesOn
  <2> QED BY <1>2, <2>1, <2>2 DEF InBlock
<1>5. val' \in [Place -> Value \cup {NoValue}]
  <2> SUFFICES ASSUME NEW p \in Place PROVE val'[p] \in Value \cup {NoValue}
    BY <1>1
  <2> QED BY <1>1, <1>2
<1>6. ASSUME NEW w \in Held(1, 1) PROVE val'[Loc(w)] = w
  <2>1. 1 \in Without(f, w)
    BY <1>2, WithoutGoesOn
  <2>2. DefsTo(1, 1) = {}
    BY DEF DefsTo
  <2>3. w \in f.args
    BY <1>2, <2>1, <2>2, NoPhisAtEntry DEF Held
  <2>4. Loc(w) \in Place
    BY <1>2, <2>3, PlaceOfValue
  <2>5. (CHOOSE a \in f.args : Loc(a) = Loc(w)) = w
    BY <1>3, <2>3
  <2> QED BY <1>1, <2>3, <2>4, <2>5
<1>7. /\ \A b, n : Held(b, n)' = Held(b, n)
      /\ \A w : Loc(w)' = Loc(w)
  BY <1>1, SameLiveness DEF Loc
<1>8. InBlock(bb)'
  BY <1>1, <1>4, SameFunction DEF InBlock
<1>9. (k \in 1 .. Len(f.code[bb]) + 1)' /\ Place' = Place
  BY <1>1, <1>2 DEF Place
<1> QED BY <1>1, <1>5, <1>6, <1>7, <1>8, <1>9 DEF RunInv

\* Every step keeps the invariant of the run.
LEMMA RunInvSteps == IInv /\ WalkInv /\ RunInv /\ [Next]_vars => RunInv'
<1> SUFFICES ASSUME IInv, WalkInv, RunInv, [Next]_vars PROVE RunInv'
  OBVIOUS
<1>1. CASE FindLive \/ StartBlock \/ ProcessInst \/ EndBlock \/ StartColour
             \/ Colour \/ AllocateStackSpace
  <2>1. stage' # "run"
    BY <1>1 DEF FindLive, StartBlock, ProcessInst, EndBlock, StartColour, Colour,
                AllocateStackSpace
  <2> QED BY <2>1 DEF RunInv
<1>2. CASE UNCHANGED vars
  <2>1. UNCHANGED <<f, stage, bb, k, live_out, mapping, val>>
    BY <1>2 DEF vars
  <2>2. /\ \A b, n : Held(b, n)' = Held(b, n)
        /\ \A b, n, w : Needed(b, n, w)' = Needed(b, n, w)
        /\ \A w : Loc(w)' = Loc(w)
    BY <2>1, SameLiveness DEF Loc
  <2>3. InBlock(bb) => InBlock(bb)'
    BY <2>1, SameFunction DEF InBlock
  <2>4. Place' = Place
    BY DEF Place
  <2> QED BY <2>1, <2>2, <2>3, <2>4 DEF RunInv
<1>3. CASE Return
  BY <1>2, <1>3 DEF Return
<1> QED BY <1>1, <1>2, <1>3, RunStart, RunExecute, RunBranch DEF Next

\* What is held and needed is what the instruction or the branch at hand reads.
LEMMA UsesHeld == IInv /\ WalkInv /\ RunInv => UsesSeeDefs
<1> SUFFICES ASSUME IInv, WalkInv, RunInv PROVE UsesSeeDefs
  OBVIOUS
<1>1. DefNotActive
  BY WalkReads DEF DefNotActive
<1>2. ASSUME stage = "run", k <= Len(f.code[bb]), ~IsPhi(f.code[bb][k]),
             NEW j \in DOMAIN f.code[bb][k].ops
      PROVE  val[Loc(f.code[bb][k].ops[j])] = f.code[bb][k].ops[j]
  <2> DEFINE inst == f.code[bb][k]
             op == inst.ops[j]
  <2>1. /\ f \in Functions /\ InBlock(bb) /\ bb \in Blocks /\ k \in Index(bb)
        /\ k \in 1 .. Len(f.code[bb]) + 1 /\ k \in Nat
    <3>1. f \in Functions /\ InBlock(bb) /\ bb \in Blocks /\ k \in 1 .. Len(f.code[bb]) + 1
      BY <1>2 DEF RunInv, InBlock, IInv, TypeOK
    <3> QED BY <1>2, <3>1, FunctionType
  <2>2. op \in Value /\ DefinedAt(f, op, bb, k)
    BY <1>2, <2>1, Operands
  <2>3. op # NoValue
    BY <2>2, RegAssumption
  <2>4. j \in Uses(inst, op)
    BY <1>2 DEF Uses
  <2> HIDE DEF op
  <2>5. op \in Held(bb, k)
    BY <2>1, <2>2, <2>3, HeldFacts DEF DefinedAt, DefsTo
  <2>6. Needed(bb, k, op)
    BY <2>1, <2>4 DEF Needed
  <2>7. val[Loc(op)] = op
    BY <1>2, <2>5, <2>6 DEF RunInv
  <2> QED BY <2>7 DEF op
<1>3. ASSUME stage = "run", ~(k <= Len(f.code[bb])), NEW s \in f.succ[bb], NEW i \in Index(s),
             IsPhi(f.code[s][i])
      PROVE  LET op == Incoming(bb, s, i) IN val[Loc(op)] = op
  <2>1. k > Len(f.code[bb])
    <3>1. f \in Functions /\ bb \in Blocks /\ k \in Nat
      BY <1>3 DEF RunInv, InBlock, IInv, TypeOK
    <3> QED BY <1>3, <3>1, FunctionType
  <2>2. Incoming(bb, s, i) \in Held(bb, k) /\ Needed(bb, k, Incoming(bb, s, i))
    BY <1>3, <2>1, PhiOperandHeld
  <2> QED BY <1>3, <2>2 DEF RunInv
<1> QED BY <1>1, <1>2, <1>3 DEF UsesSeeDefs

-----------------------------------------------------------------------------
(* Theorems *)

\* Edges go both ways and no two coloured values that interfere share a register.
THEOREM Invariance == Spec => []IInv
<1>1. ASSUME IInv, [Next]_vars PROVE IInv'
  <2>1. CASE UNCHANGED vars
    BY <1>1, <2>1 DEF vars, IInv, TypeOK, Symmetric, ProperColouring, ThreadIdKept, mt_inside, Blocks
  <2> QED BY <1>1, <2>1, FindLiveStep, StartBlockStep, ProcessInstStep, BlockSteps,
             ColourStep, AllocateStackSpaceStep, RunSteps DEF Next
<1> QED BY <1>1, Initially, PTL DEF Spec

\* The allocator's state is well typed, for every function; every register it
\* gives out is one that may be allocated.
THEOREM TypeCorrect == Spec => []TypeOK
BY Invariance, PTL DEF IInv

\* Interfering values never share a register, in whatever order they are
\* coloured and whichever allowed register each is given.
THEOREM ColouringIsProper == Spec => []ProperColouring
BY Invariance, PTL DEF IInv

\* The walk counts what is still to be used, and the run keeps it in place.
THEOREM WalkAndRun == Spec => [](WalkInv /\ RunInv)
<1>1. Init => WalkInv /\ RunInv
  BY WalkInitially DEF Init, RunInv
<1>2. IInv /\ (WalkInv /\ RunInv) /\ [Next]_vars => (WalkInv /\ RunInv)'
  BY WalkSteps, RunInvSteps
<1> QED BY <1>1, <1>2, Invariance, PTL DEF Spec

\* Along every path, whatever is coloured or spilled, an instruction, a phi and
\* a call's continuation find every operand where its definition put it; and the
\* assertion of the walk never fails.
THEOREM OperandsAreInPlace == Spec => []UsesSeeDefs
<1>1. IInv /\ (WalkInv /\ RunInv) => UsesSeeDefs
  BY UsesHeld
<1> QED BY <1>1, Invariance, WalkAndRun, PTL
=============================================================================
