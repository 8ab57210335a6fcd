--------------------------- MODULE FlowGraphProofs ---------------------------
(***************************************************************************)
(* What is reached in a flow graph without passing through a block is the  *)
(* least set that holds the entry and is closed under edges: the rounds of *)
(* Avoiding are enough, and none of them goes too far.  Proofs about paths *)
(* use these two facts in place of induction over paths.                   *)
(***************************************************************************)
EXTENDS FlowGraph, WellFoundedInduction, FiniteSetTheorems, TLAPS

\* Induction, as a fact about sets of numbers.
LEMMA LeastNumber ==
    ASSUME NEW T, T \subseteq Nat, T # {}
    PROVE  \E x \in T : \A y \in T : x <= y
<1> DEFINE R == OpToRel(<, Nat)
<1>1. IsWellFoundedOn(R, Nat)
  BY NatLessThanWellFounded
<1>2. \A x, y \in Nat : x < y => <<x, y>> \in R
  BY DEF OpToRel
<1> HIDE DEF R
<1>3. PICK x \in T : \A y \in T : ~(<<y, x>> \in R)
  BY <1>1, WFMin
<1>4. ASSUME NEW y \in T PROVE x <= y
  <2>1. x \in Nat /\ y \in Nat /\ ~(y < x)
    BY <1>2, <1>3
  <2> QED BY <2>1
<1> QED BY <1>4

\* A set with 0 and the successor of each member has all numbers.
LEMMA NatSetInduction ==
    ASSUME NEW T, 0 \in T, \A n \in Nat : n \in T => n + 1 \in T
    PROVE  Nat \subseteq T
<1> SUFFICES ASSUME Nat \ T # {} PROVE FALSE
  OBVIOUS
<1>1. PICK n \in Nat \ T : \A m \in Nat \ T : n <= m
  BY LeastNumber
<1>2. n - 1 \in Nat /\ n - 1 < n /\ (n - 1) + 1 = n
  BY <1>1
<1> QED BY <1>1, <1>2

\* A set of numbers with a bound has a greatest element.
LEMMA GreatestNumber ==
    ASSUME NEW T, T \subseteq Nat, T # {}, NEW b \in Nat, \A x \in T : x <= b
    PROVE  \E x \in T : \A y \in T : y <= x
<1> DEFINE U == {b - x : x \in T}
<1>1. U \subseteq Nat /\ U # {}
  <2>1. \A x \in T : x \in Nat /\ x <= b /\ b - x \in Nat
    OBVIOUS
  <2> QED BY <2>1
<1>2. PICK u \in U : \A v \in U : u <= v
  BY <1>1, LeastNumber
<1>3. PICK x \in T : u = b - x
  BY <1>2
<1>4. ASSUME NEW y \in T PROVE y <= x
  <2>1. b - x <= b - y /\ x \in Nat /\ y \in Nat
    BY <1>2, <1>3
  <2> QED BY <2>1
<1> QED BY <1>4

\* A function on the subsets of a finite set that is defined by taking one
\* element after the other out of the set exists.
SizedSubsets(D, n) == {s \in SUBSET D : Cardinality(s) <= n}
Recursion(D, V, base, next, G, n, h) ==
    /\ h \in [SizedSubsets(D, n) -> V]
    /\ \A s \in SizedSubsets(D, n) : h[s] = IF s = {} THEN base ELSE G[<<s, h[s \ {next[s]}]>>]

IsChoice(D, next) == \A s \in SUBSET D : s # {} => next[s] \in s
SetRecursive(D, V, base, next, G) ==
    \E h \in [SUBSET D -> V] :
      \A s \in SUBSET D : h[s] = IF s = {} THEN base ELSE G[<<s, h[s \ {next[s]}]>>]

\* A function defined by recursion over the subsets of a finite set exists.
LEMMA SetRecursion ==
    ASSUME NEW D, IsFiniteSet(D), NEW V, NEW base \in V,
           NEW next, IsChoice(D, next), NEW G \in [(SUBSET D) \X V -> V]
    PROVE  SetRecursive(D, V, base, next, G)
<1> DEFINE T == {n \in Nat : \E h : Recursion(D, V, base, next, G, n, h)}
<1>1. \A s \in SUBSET D : IsFiniteSet(s) /\ Cardinality(s) \in Nat
  BY FS_Subset, FS_CardinalityType
<1>2. 0 \in T
  <2> DEFINE h == [s \in SizedSubsets(D, 0) |-> base]
  <2>1. \A s \in SizedSubsets(D, 0) : s = {}
    BY <1>1, FS_EmptySet DEF SizedSubsets
  <2>2. Recursion(D, V, base, next, G, 0, h)
    BY <2>1 DEF Recursion
  <2> QED BY <2>2
<1>3. ASSUME NEW n \in Nat, n \in T PROVE n + 1 \in T
  <2>1. PICK h : Recursion(D, V, base, next, G, n, h)
    BY <1>3
  <2> DEFINE k == [s \in SizedSubsets(D, n + 1) |->
                     IF s \in SizedSubsets(D, n) THEN h[s] ELSE G[<<s, h[s \ {next[s]}]>>]]
  <2>2. ASSUME NEW s \in SizedSubsets(D, n + 1), s # {}
        PROVE  /\ s \in SUBSET D /\ s \ {next[s]} \in SizedSubsets(D, n)
               /\ s \ {next[s]} \in SizedSubsets(D, n + 1)
    <3>1. s \in SUBSET D /\ next[s] \in s /\ IsFiniteSet(s) /\ Cardinality(s) \in Nat
          /\ Cardinality(s) <= n + 1
      BY <1>1, <2>2 DEF SizedSubsets, IsChoice
    <3>2. Cardinality(s \ {next[s]}) = Cardinality(s) - 1
      BY <3>1, FS_RemoveElement
    <3> QED BY <3>1, <3>2 DEF SizedSubsets
  <2>3. SizedSubsets(D, n) \subseteq SizedSubsets(D, n + 1)
    BY <1>1 DEF SizedSubsets
  <2>4. {} \in SizedSubsets(D, n)
    BY FS_EmptySet DEF SizedSubsets
  <2>5. \A s \in SizedSubsets(D, n) : h[s] \in V
    BY <2>1 DEF Recursion
  <2>6. ASSUME NEW s \in SizedSubsets(D, n + 1) PROVE k[s] \in V
    <3>1. CASE s \in SizedSubsets(D, n)
      BY <2>5, <3>1
    <3>2. CASE s \notin SizedSubsets(D, n)
      <4>1. s # {} /\ k[s] = G[<<s, h[s \ {next[s]}]>>]
        BY <2>4, <3>2
      <4>2. s \in SUBSET D /\ h[s \ {next[s]}] \in V
        BY <2>2, <2>5, <4>1
      <4> QED BY <4>1, <4>2
    <3> QED BY <3>1, <3>2
  <2>7. ASSUME NEW s \in SizedSubsets(D, n + 1)
        PROVE  k[s] = IF s = {} THEN base ELSE G[<<s, k[s \ {next[s]}]>>]
    <3>1. CASE s = {}
      BY <2>1, <2>4, <3>1 DEF Recursion
    <3>2. CASE s # {}
      <4>1. k[s \ {next[s]}] = h[s \ {next[s]}]
        BY <2>2, <3>2
      <4>2. k[s] = G[<<s, h[s \ {next[s]}]>>]
        BY <2>1, <3>2 DEF Recursion
      <4> QED BY <3>2, <4>1, <4>2
    <3> QED BY <3>1, <3>2
  <2>8. k \in [SizedSubsets(D, n + 1) -> V]
    BY <2>6
  <2> HIDE DEF k
  <2>9. Recursion(D, V, base, next, G, n + 1, k)
    BY <2>7, <2>8 DEF Recursion
  <2> QED BY <2>9
<1>4. Cardinality(D) \in Nat
  BY FS_CardinalityType
<1>5. Cardinality(D) \in T
  <2> HIDE DEF T
  <2> QED BY <1>2, <1>3, <1>4, NatSetInduction
<1>6. PICK h : Recursion(D, V, base, next, G, Cardinality(D), h)
  BY <1>5
<1>7. SizedSubsets(D, Cardinality(D)) = SUBSET D
  BY FS_Subset DEF SizedSubsets
<1> QED BY <1>6, <1>7 DEF Recursion, SetRecursive

\* A step taken again and again.
Iterated(V, base, G, n) ==
    \E h \in [0 .. n -> V] : \A i \in 0 .. n : h[i] = IF i = 0 THEN base ELSE G[h[i - 1]]

\* So does one defined by iteration.
LEMMA Iteration ==
    ASSUME NEW V, NEW base \in V, NEW G \in [V -> V], NEW n \in Nat
    PROVE  Iterated(V, base, G, n)
<1> DEFINE T == {m \in Nat : Iterated(V, base, G, m)}
<1>1. 0 \in T
  <2> DEFINE h == [i \in 0 .. 0 |-> base]
  <2>1. h \in [0 .. 0 -> V] /\ \A i \in 0 .. 0 : h[i] = base /\ i = 0
    OBVIOUS
  <2> HIDE DEF h
  <2>2. Iterated(V, base, G, 0)
    BY <2>1 DEF Iterated
  <2> QED BY <2>2
<1>2. ASSUME NEW m \in Nat, m \in T PROVE m + 1 \in T
  <2>1. PICK h \in [0 .. m -> V] : \A i \in 0 .. m : h[i] = IF i = 0 THEN base ELSE G[h[i - 1]]
    BY <1>2 DEF Iterated
  <2> DEFINE j == m + 1
             k == [i \in 0 .. j |-> IF i = j THEN G[h[m]] ELSE h[i]]
  <2>2. j \in 0 .. j /\ m \in 0 .. m /\ j # 0 /\ j - 1 = m
        /\ \A i \in 0 .. j : i # j => i \in 0 .. m /\ i - 1 # j /\ (i # 0 => i - 1 \in 0 .. m)
    OBVIOUS
  <2>3. k \in [0 .. j -> V]
    BY <2>2
  <2>4. ASSUME NEW i \in 0 .. j PROVE k[i] = IF i = 0 THEN base ELSE G[k[i - 1]]
    <3>1. CASE i = j
      <4>1. k[j] = G[h[m]] /\ k[m] = h[m]
        BY <2>2
      <4> QED BY <2>2, <3>1, <4>1
    <3>2. CASE i # j
      <4>1. k[i] = h[i] /\ (i # 0 => k[i - 1] = h[i - 1])
        BY <2>2, <3>2
      <4> QED BY <2>1, <2>2, <3>2, <4>1
    <3> QED BY <3>1, <3>2
  <2> HIDE DEF k
  <2>5. Iterated(V, base, G, j)
    BY <2>3, <2>4 DEF Iterated
  <2> QED BY <2>5
<1> HIDE DEF T
<1>3. n \in T
  BY <1>1, <1>2, NatSetInduction
<1> QED BY <1>3 DEF T

\* Sets that grow in a finite set until one is like the one before stay the same
\* after as many rounds as the set has elements.
LEMMA GrowthEnds ==
    ASSUME NEW D, IsFiniteSet(D), NEW h,
           \A n \in 0 .. Cardinality(D) + 1 : h[n] \subseteq D,
           \A n \in 0 .. Cardinality(D) : h[n] \subseteq h[n + 1],
           \A n \in 0 .. Cardinality(D) : n # 0 /\ h[n - 1] = h[n] => h[n] = h[n + 1],
           h[0] # {}
    PROVE  h[Cardinality(D)] = h[Cardinality(D) + 1]
<1> DEFINE N == Cardinality(D)
           T == {n \in Nat : n \in 0 .. N =>
                   h[n] = h[n + 1] \/ Cardinality(h[n]) >= n + 1}
<1>1. N \in Nat
  BY FS_CardinalityType
<1>2. \A n \in 0 .. N + 1 : /\ IsFiniteSet(h[n]) /\ Cardinality(h[n]) \in Nat
                            /\ Cardinality(h[n]) <= N
  BY FS_Subset, FS_CardinalityType
<1>3. 0 \in T
  <2>1. Cardinality(h[0]) # 0
    BY <1>1, <1>2, FS_EmptySet
  <2> QED BY <1>1, <1>2, <2>1
<1>4. ASSUME NEW n \in Nat, n \in T PROVE n + 1 \in T
  <2> SUFFICES ASSUME n + 1 \in 0 .. N, h[n + 1] # h[n + 2]
               PROVE  Cardinality(h[n + 1]) >= n + 2
    OBVIOUS
  <2>1. n \in 0 .. N /\ n + 1 \in 0 .. N + 1 /\ (n + 1) - 1 = n /\ (n + 1) + 1 = n + 2
    BY <1>1
  <2>2. h[n] # h[n + 1]
    BY <2>1
  <2>3. Cardinality(h[n]) >= n + 1
    BY <1>4, <2>1, <2>2
  <2>4. h[n] \subseteq h[n + 1]
    BY <2>1
  <2>5. Cardinality(h[n]) <= Cardinality(h[n + 1]) /\ Cardinality(h[n]) # Cardinality(h[n + 1])
    BY <1>2, <2>1, <2>2, <2>4, FS_Subset
  <2>6. Cardinality(h[n]) \in Nat /\ Cardinality(h[n + 1]) \in Nat
    <3>1. n \in 0 .. N + 1
      BY <1>1, <2>1
    <3> QED BY <1>2, <2>1, <3>1
  <2> QED BY <2>3, <2>5, <2>6
<1>5. N \in T
  <2> HIDE DEF T
  <2> QED BY <1>1, <1>3, <1>4, NatSetInduction
<1>6. ~(Cardinality(h[N]) >= N + 1)
  BY <1>1, <1>2
<1> QED BY <1>1, <1>5, <1>6

-----------------------------------------------------------------------------
(* The rounds of Avoiding *)

IsGraph(g) == /\ IsFiniteSet(DOMAIN g)
              /\ \A b \in DOMAIN g : SuccsOf(g, b) \subseteq DOMAIN g

Onward(g, a, set) == set \cup UNION {SuccsOf(g, b) \ {a} : b \in set}

\* The first k rounds.
Rounds(g, r, a, k, f) ==
    f = [n \in 0 .. k |-> IF n = 0 THEN {r} \ {a} ELSE Onward(g, a, f[n - 1])]

\* So do the rounds of a search.
LEMMA RoundsExist ==
    ASSUME NEW g, NEW r, NEW a
    PROVE  \A k \in Nat : \E f : Rounds(g, r, a, k, f)
<1> DEFINE T == {k \in Nat : \E f : Rounds(g, r, a, k, f)}
<1>1. 0 \in T
  <2> DEFINE f == [n \in 0 .. 0 |-> {r} \ {a}]
  <2>1. Rounds(g, r, a, 0, f)
    BY DEF Rounds
  <2> QED BY <2>1
<1>2. ASSUME NEW k \in Nat, k \in T PROVE k + 1 \in T
  <2>1. PICK f : Rounds(g, r, a, k, f)
    BY <1>2
  <2> DEFINE h == [n \in 0 .. (k + 1) |-> IF n = k + 1 THEN Onward(g, a, f[k]) ELSE f[n]]
  <2>2. \A n \in 0 .. k : f[n] = IF n = 0 THEN {r} \ {a} ELSE Onward(g, a, f[n - 1])
    BY <2>1 DEF Rounds
  <2>3. ASSUME NEW n \in 0 .. (k + 1)
        PROVE  h[n] = IF n = 0 THEN {r} \ {a} ELSE Onward(g, a, h[n - 1])
    <3>1. CASE n = k + 1
      <4>1. h[n] = Onward(g, a, f[k]) /\ n # 0 /\ n - 1 = k /\ h[k] = f[k]
        BY <3>1
      <4> QED BY <4>1
    <3>2. CASE n # k + 1
      <4>1. n \in 0 .. k /\ h[n] = f[n]
        BY <3>2
      <4>2. n # 0 => n - 1 \in 0 .. k /\ h[n - 1] = f[n - 1]
        BY <4>1
      <4> QED BY <2>2, <4>1, <4>2
    <3> QED BY <3>1, <3>2
  <2> DEFINE h2 == [n \in 0 .. (k + 1) |-> IF n = 0 THEN {r} \ {a} ELSE Onward(g, a, h[n - 1])]
  <2>4. h = h2
    BY <2>3
  <2> HIDE DEF h
  <2>5. Rounds(g, r, a, k + 1, h)
    BY <2>4 DEF Rounds
  <2> QED BY <2>5
<1> HIDE DEF T
<1>3. Nat \subseteq T
  BY <1>1, <1>2, NatSetInduction
<1> QED BY <1>3 DEF T

\* The function ReachedAvoiding defines is what its definition says.
LEMMA ReachedIsRounds ==
    ASSUME NEW g, NEW r, NEW a, IsFiniteSet(DOMAIN g)
    PROVE  Rounds(g, r, a, Cardinality(DOMAIN g), ReachedAvoiding(g, r, a))
<1> DEFINE N == Cardinality(DOMAIN g)
<1>1. N \in Nat
  BY FS_CardinalityType
<1>2. PICK f : Rounds(g, r, a, N, f)
  BY <1>1, RoundsExist
<1>3. ReachedAvoiding(g, r, a) = CHOOSE h : Rounds(g, r, a, N, h)
  BY DEF ReachedAvoiding, Rounds, Onward
<1> QED BY <1>2, <1>3

\* What each round of the search has.
LEMMA RoundFacts ==
    ASSUME NEW g, NEW r, NEW a, IsGraph(g), r \in DOMAIN g
    PROVE  LET N == Cardinality(DOMAIN g)
               f == ReachedAvoiding(g, r, a)
           IN  /\ N \in Nat
               /\ f[0] = {r} \ {a}
               /\ \A n \in 0 .. N : n + 1 \in 0 .. N => f[n + 1] = Onward(g, a, f[n])
               /\ \A n \in 0 .. N : f[n] \subseteq DOMAIN g
<1> DEFINE N == Cardinality(DOMAIN g)
           f == ReachedAvoiding(g, r, a)
<1>1. N \in Nat
  BY FS_CardinalityType DEF IsGraph
<1>2. f = [n \in 0 .. N |-> IF n = 0 THEN {r} \ {a} ELSE Onward(g, a, f[n - 1])]
  BY ReachedIsRounds DEF Rounds, IsGraph
<1> HIDE DEF f, N
<1>3. f[0] = {r} \ {a}
  BY <1>1, <1>2
<1>4. ASSUME NEW n \in 0 .. N, n + 1 \in 0 .. N PROVE f[n + 1] = Onward(g, a, f[n])
  <2>1. n + 1 # 0 /\ (n + 1) - 1 = n
    BY <1>1
  <2> QED BY <1>2, <1>4, <2>1
<1> DEFINE T == {n \in Nat : n \in 0 .. N => f[n] \subseteq DOMAIN g}
<1>5. 0 \in T
  BY <1>3
<1>6. ASSUME NEW n \in Nat, n \in T PROVE n + 1 \in T
  <2> SUFFICES ASSUME n + 1 \in 0 .. N PROVE f[n + 1] \subseteq DOMAIN g
    OBVIOUS
  <2>1. n \in 0 .. N /\ f[n] \subseteq DOMAIN g
    BY <1>1, <1>6
  <2>2. f[n + 1] = Onward(g, a, f[n])
    BY <1>4, <2>1
  <2> QED BY <2>1, <2>2 DEF Onward, IsGraph
<1> HIDE DEF T
<1>7. Nat \subseteq T
  BY <1>5, <1>6, NatSetInduction
<1>8. \A n \in 0 .. N : f[n] \subseteq DOMAIN g
  BY <1>1, <1>7 DEF T
<1> QED BY <1>1, <1>3, <1>4, <1>8 DEF f, N

\* Once a round adds nothing the later ones do not either; and a round that
\* adds something adds a block, so that after as many rounds as there are blocks
\* nothing is left to add.
LEMMA RoundsAreEnough ==
    ASSUME NEW g, NEW r, NEW a, IsGraph(g), r \in DOMAIN g
    PROVE  Onward(g, a, Avoiding(g, r, a)) = Avoiding(g, r, a)
<1> DEFINE N == Cardinality(DOMAIN g)
           f == ReachedAvoiding(g, r, a)
           Done(n) == Onward(g, a, f[n]) = f[n]
<1>1. /\ N \in Nat
      /\ f[0] = {r} \ {a}
      /\ \A n \in 0 .. N : n + 1 \in 0 .. N => f[n + 1] = Onward(g, a, f[n])
      /\ \A n \in 0 .. N : f[n] \subseteq DOMAIN g
  BY RoundFacts
<1>2. Avoiding(g, r, a) = f[N]
  BY DEF Avoiding
<1> HIDE DEF f, N
<1>3. \A n \in 0 .. N : IsFiniteSet(f[n]) /\ Cardinality(f[n]) \in Nat
                        /\ Cardinality(f[n]) <= N
  BY <1>1, FS_Subset, FS_CardinalityType DEF IsGraph, N
<1> DEFINE T == {n \in Nat : n \in 0 .. N => Done(n) \/ Cardinality(f[n]) >= n + 1}
<1>4. 0 \in T
  <2>1. CASE r = a
    <3>1. f[0] = {}
      BY <1>1, <2>1
    <3> QED BY <3>1 DEF Onward
  <2>2. CASE r # a
    <3>1. f[0] = {r}
      BY <1>1, <2>2
    <3>2. Cardinality(f[0]) = 1
      BY <3>1, FS_Singleton
    <3> QED BY <3>2
  <2> QED BY <2>1, <2>2
<1>5. ASSUME NEW n \in Nat, n \in T PROVE n + 1 \in T
  <2> SUFFICES ASSUME n + 1 \in 0 .. N PROVE Done(n + 1) \/ Cardinality(f[n + 1]) >= n + 2
    BY <1>1
  <2>1. n \in 0 .. N /\ f[n + 1] = Onward(g, a, f[n])
    BY <1>1
  <2>2. CASE Done(n)
    BY <2>1, <2>2
  <2>3. CASE ~Done(n)
    <3>1. Cardinality(f[n]) >= n + 1
      BY <1>5, <2>1, <2>3
    <3>2. f[n] \subseteq f[n + 1] /\ f[n] # f[n + 1]
      BY <2>1, <2>3 DEF Onward
    <3>3. IsFiniteSet(f[n + 1]) /\ f[n] \in SUBSET f[n + 1]
      BY <1>3, <3>2
    <3>4. /\ Cardinality(f[n]) <= Cardinality(f[n + 1])
          /\ Cardinality(f[n]) # Cardinality(f[n + 1])
      BY <3>2, <3>3, FS_Subset
    <3>5. Cardinality(f[n]) \in Nat /\ Cardinality(f[n + 1]) \in Nat
      BY <1>3, <2>1
    <3> QED BY <3>1, <3>4, <3>5
  <2> QED BY <2>2, <2>3
<1> HIDE DEF T
<1>6. Nat \subseteq T
  BY <1>4, <1>5, NatSetInduction
<1>7. Done(N) \/ Cardinality(f[N]) >= N + 1
  BY <1>1, <1>6 DEF T
<1>8. Done(N)
  BY <1>1, <1>3, <1>7
<1> QED BY <1>2, <1>8

-----------------------------------------------------------------------------
(* What the passes and the proofs about them use *)

\* A path goes on: what follows a block reached is reached, unless it is a.
LEMMA ReachedGoesOn ==
    ASSUME NEW g, NEW r, NEW a, IsGraph(g), r \in DOMAIN g
    PROVE  /\ r # a => r \in Avoiding(g, r, a)
           /\ a \notin Avoiding(g, r, a)
           /\ Avoiding(g, r, a) \subseteq DOMAIN g
           /\ \A b \in Avoiding(g, r, a) : \A c \in SuccsOf(g, b) :
                c # a => c \in Avoiding(g, r, a)
<1> DEFINE N == Cardinality(DOMAIN g)
           f == ReachedAvoiding(g, r, a)
<1>1. /\ N \in Nat
      /\ f[0] = {r} \ {a}
      /\ \A n \in 0 .. N : n + 1 \in 0 .. N => f[n + 1] = Onward(g, a, f[n])
      /\ \A n \in 0 .. N : f[n] \subseteq DOMAIN g
  BY RoundFacts
<1>2. Avoiding(g, r, a) = f[N]
  BY DEF Avoiding
<1> HIDE DEF f, N
<1> DEFINE T == {n \in Nat : n \in 0 .. N => a \notin f[n] /\ (r # a => r \in f[n])}
<1>3. 0 \in T
  BY <1>1
<1>4. ASSUME NEW n \in Nat, n \in T PROVE n + 1 \in T
  <2> SUFFICES ASSUME n + 1 \in 0 .. N
               PROVE  a \notin f[n + 1] /\ (r # a => r \in f[n + 1])
    OBVIOUS
  <2>1. n \in 0 .. N /\ f[n + 1] = Onward(g, a, f[n])
    BY <1>1
  <2> QED BY <1>4, <2>1 DEF Onward
<1> HIDE DEF T
<1>5. Nat \subseteq T
  BY <1>3, <1>4, NatSetInduction
<1>6. a \notin f[N] /\ (r # a => r \in f[N]) /\ f[N] \subseteq DOMAIN g
  BY <1>1, <1>5 DEF T
<1>7. Onward(g, a, f[N]) = f[N]
  BY <1>2, RoundsAreEnough
<1>8. \A b \in f[N] : \A c \in SuccsOf(g, b) : c # a => c \in f[N]
  BY <1>7 DEF Onward
<1> QED BY <1>2, <1>6, <1>8

\* No path leads out of a set that edges lead out of only to a.
LEMMA ReachedIsLeast ==
    ASSUME NEW g, NEW r, NEW a, IsGraph(g), r \in DOMAIN g,
           NEW S, r # a => r \in S,
           \A b \in S \cap DOMAIN g : \A c \in SuccsOf(g, b) : c # a => c \in S
    PROVE  Avoiding(g, r, a) \subseteq S
<1> DEFINE N == Cardinality(DOMAIN g)
           f == ReachedAvoiding(g, r, a)
<1>1. /\ N \in Nat
      /\ f[0] = {r} \ {a}
      /\ \A n \in 0 .. N : n + 1 \in 0 .. N => f[n + 1] = Onward(g, a, f[n])
      /\ \A n \in 0 .. N : f[n] \subseteq DOMAIN g
  BY RoundFacts
<1>2. Avoiding(g, r, a) = f[N]
  BY DEF Avoiding
<1> HIDE DEF f, N
<1> DEFINE T == {n \in Nat : n \in 0 .. N => f[n] \subseteq S}
<1>3. 0 \in T
  BY <1>1
<1>4. ASSUME NEW n \in Nat, n \in T PROVE n + 1 \in T
  <2> SUFFICES ASSUME n + 1 \in 0 .. N PROVE f[n + 1] \subseteq S
    OBVIOUS
  <2>1. /\ n \in 0 .. N /\ f[n + 1] = Onward(g, a, f[n])
        /\ f[n] \subseteq S /\ f[n] \subseteq DOMAIN g
    BY <1>1, <1>4
  <2> QED BY <2>1 DEF Onward
<1> HIDE DEF T
<1>5. Nat \subseteq T
  BY <1>3, <1>4, NatSetInduction
<1> QED BY <1>1, <1>2, <1>5 DEF T

-----------------------------------------------------------------------------
(* Dominance *)

\* Every set that has the entry and is closed under edges has the block.
Reachable(g, r, x) ==
    \A S : r \in S /\ (\A b \in S \cap DOMAIN g : SuccsOf(g, b) \subseteq S) => x \in S

\* All blocks can be reached: only all of them are closed under edges.
Connected(g, r) ==
    /\ IsGraph(g) /\ r \in DOMAIN g
    /\ \A S : r \in S /\ (\A b \in S \cap DOMAIN g : SuccsOf(g, b) \subseteq S)
                => DOMAIN g \subseteq S

\* A graph all of whose blocks the search reaches is connected.
LEMMA ReachedIsConnected ==
    ASSUME NEW g, NEW r, NEW z, IsGraph(g), r \in DOMAIN g, z \notin DOMAIN g,
           \A b \in DOMAIN g : b \in Avoiding(g, r, z)
    PROVE  Connected(g, r)
<1> SUFFICES ASSUME NEW S, r \in S, \A b \in S \cap DOMAIN g : SuccsOf(g, b) \subseteq S
             PROVE  DOMAIN g \subseteq S
  BY DEF Connected
<1>1. Avoiding(g, r, z) \subseteq S
  BY ReachedIsLeast
<1> QED BY <1>1

\* A block dominates itself.
LEMMA DominanceIsReflexive ==
    ASSUME NEW g, NEW r, IsGraph(g), r \in DOMAIN g, NEW a
    PROVE  DominatesIn(g, r, a, a)
BY ReachedGoesOn DEF DominatesIn

\* Dominance is transitive.
LEMMA DominanceIsTransitive ==
    ASSUME NEW g, NEW r, IsGraph(g), r \in DOMAIN g, NEW a, NEW b, NEW c,
           DominatesIn(g, r, a, b), DominatesIn(g, r, b, c)
    PROVE  DominatesIn(g, r, a, c)
<1> DEFINE S == Avoiding(g, r, a) \cap Avoiding(g, r, b)
<1>1. b \notin Avoiding(g, r, a) /\ c \notin Avoiding(g, r, b)
  BY DEF DominatesIn
<1>2. r # a => r \in S
  <2> SUFFICES ASSUME r # a PROVE r \in S
    OBVIOUS
  <2>1. r \in Avoiding(g, r, a)
    BY ReachedGoesOn
  <2>2. r # b
    BY <1>1, <2>1
  <2> QED BY <2>1, <2>2, ReachedGoesOn
<1>3. ASSUME NEW x \in S, NEW y \in SuccsOf(g, x), y # a PROVE y \in S
  <2>1. y \in Avoiding(g, r, a)
    BY <1>3, ReachedGoesOn
  <2>2. y # b
    BY <1>1, <2>1
  <2> QED BY <1>3, <2>1, <2>2, ReachedGoesOn
<1>4. Avoiding(g, r, a) \subseteq S
  <2> HIDE DEF S
  <2> QED BY <1>2, <1>3, ReachedIsLeast
<1> QED BY <1>1, <1>4 DEF DominatesIn

\* Of two blocks that dominate each other neither can be reached.
LEMMA DominanceOfReachable ==
    ASSUME NEW g, NEW r, IsGraph(g), r \in DOMAIN g, NEW a, Reachable(g, r, a), NEW b,
           DominatesIn(g, r, a, b), DominatesIn(g, r, b, a)
    PROVE  a = b
<1> SUFFICES ASSUME a # b PROVE FALSE
  OBVIOUS
<1> DEFINE S == Avoiding(g, r, a) \cap Avoiding(g, r, b)
<1>1. b \notin Avoiding(g, r, a) /\ a \notin Avoiding(g, r, b)
  BY DEF DominatesIn
<1>2. IsGraph(g) /\ r \in DOMAIN g
  OBVIOUS
<1>3. r \in S
  <2>1. r # a => r \in Avoiding(g, r, a)
    BY <1>2, ReachedGoesOn
  <2>2. r # b => r \in Avoiding(g, r, b)
    BY <1>2, ReachedGoesOn
  <2> QED BY <1>1, <2>1, <2>2
<1>4. ASSUME NEW x \in S, NEW y \in SuccsOf(g, x) PROVE y \in S
  <2>1. y # a => y \in Avoiding(g, r, a)
    BY <1>2, <1>4, ReachedGoesOn
  <2>2. y # b => y \in Avoiding(g, r, b)
    BY <1>2, <1>4, ReachedGoesOn
  <2> QED BY <1>1, <2>1, <2>2
<1>5. a \in S
  <2> HIDE DEF S
  <2> QED BY <1>3, <1>4 DEF Reachable
<1>6. a \notin Avoiding(g, r, a)
  BY <1>2, ReachedGoesOn
<1> QED BY <1>5, <1>6

\* In a connected graph there are no such blocks.
LEMMA DominanceIsAntisymmetric ==
    ASSUME NEW g, NEW r, Connected(g, r), NEW a \in DOMAIN g, NEW b,
           DominatesIn(g, r, a, b), DominatesIn(g, r, b, a)
    PROVE  a = b
<1>1. Reachable(g, r, a) /\ IsGraph(g) /\ r \in DOMAIN g
  BY DEF Reachable, Connected
<1> QED BY <1>1, DominanceOfReachable

\* What is reached from a block reached is reached.
LEMMA ReachedFromReached ==
    ASSUME NEW g, NEW r, IsGraph(g), r \in DOMAIN g, NEW a, NEW b \in Avoiding(g, r, a)
    PROVE  Avoiding(g, b, a) \subseteq Avoiding(g, r, a)
<1>1. b \in DOMAIN g
  BY ReachedGoesOn
<1>2. \A x \in Avoiding(g, r, a) : \A y \in SuccsOf(g, x) : y # a => y \in Avoiding(g, r, a)
  BY ReachedGoesOn
<1> QED BY <1>1, <1>2, ReachedIsLeast

\* The dominators of a block that can be reached lie on one line.
LEMMA ReachableInLine ==
    ASSUME NEW g, NEW r, IsGraph(g), r \in DOMAIN g,
           NEW a \in DOMAIN g, NEW b \in DOMAIN g, NEW c, Reachable(g, r, c),
           DominatesIn(g, r, a, c), DominatesIn(g, r, b, c)
    PROVE  DominatesIn(g, r, a, b) \/ DominatesIn(g, r, b, a)
<1> SUFFICES ASSUME b \in Avoiding(g, r, a), a \in Avoiding(g, r, b) PROVE FALSE
  BY DEF DominatesIn
<1> DEFINE S == (Avoiding(g, r, a) \cap Avoiding(g, r, b)) \cup Avoiding(g, a, b) \cup Avoiding(g, b, a)
<1>1. c \notin Avoiding(g, r, a) /\ c \notin Avoiding(g, r, b)
  BY DEF DominatesIn
<1>2. IsGraph(g) /\ r \in DOMAIN g
  OBVIOUS
<1>3. a # b
  BY <1>2, ReachedGoesOn
<1>4. a \in Avoiding(g, a, b) /\ b \in Avoiding(g, b, a)
  BY <1>2, <1>3, ReachedGoesOn
<1>5. r \in S
  <2>1. r # a => r \in Avoiding(g, r, a)
    BY <1>2, ReachedGoesOn
  <2>2. r # b => r \in Avoiding(g, r, b)
    BY <1>2, ReachedGoesOn
  <2> QED BY <1>4, <2>1, <2>2
<1>6. ASSUME NEW x \in S, NEW y \in SuccsOf(g, x) PROVE y \in S
  <2>1. CASE x \in Avoiding(g, r, a) \cap Avoiding(g, r, b)
    <3>1. y # a => y \in Avoiding(g, r, a)
      BY <1>2, <2>1, ReachedGoesOn
    <3>2. y # b => y \in Avoiding(g, r, b)
      BY <1>2, <2>1, ReachedGoesOn
    <3> QED BY <1>4, <3>1, <3>2
  <2>2. CASE x \in Avoiding(g, a, b)
    <3>1. y # b => y \in Avoiding(g, a, b)
      BY <1>2, <2>2, ReachedGoesOn
    <3> QED BY <1>4, <3>1
  <2>3. CASE x \in Avoiding(g, b, a)
    <3>1. y # a => y \in Avoiding(g, b, a)
      BY <1>2, <2>3, ReachedGoesOn
    <3> QED BY <1>4, <3>1
  <2> QED BY <1>6, <2>1, <2>2, <2>3
<1>7. c \in S
  <2> HIDE DEF S
  <2> QED BY <1>5, <1>6 DEF Reachable
<1>8. Avoiding(g, a, b) \subseteq Avoiding(g, r, b) /\ Avoiding(g, b, a) \subseteq Avoiding(g, r, a)
  BY <1>2, ReachedFromReached
<1> QED BY <1>1, <1>7, <1>8

\* So do those of any block of a connected graph.
LEMMA DominatorsAreInLine ==
    ASSUME NEW g, NEW r, Connected(g, r), NEW a \in DOMAIN g, NEW b \in DOMAIN g, NEW c \in DOMAIN g,
           DominatesIn(g, r, a, c), DominatesIn(g, r, b, c)
    PROVE  DominatesIn(g, r, a, b) \/ DominatesIn(g, r, b, a)
<1>1. Reachable(g, r, c) /\ IsGraph(g) /\ r \in DOMAIN g
  BY DEF Reachable, Connected
<1> QED BY <1>1, ReachableInLine

\* What strictly dominates a block dominates its predecessors.
LEMMA DominatesPredecessor ==
    ASSUME NEW g, NEW r, IsGraph(g), r \in DOMAIN g, NEW a, NEW p \in DOMAIN g,
           NEW b \in SuccsOf(g, p), a # b, DominatesIn(g, r, a, b)
    PROVE  DominatesIn(g, r, a, p)
BY ReachedGoesOn DEF DominatesIn

\* The entry dominates every block.
LEMMA RootDominates ==
    ASSUME NEW g, NEW r, Connected(g, r), NEW b
    PROVE  DominatesIn(g, r, r, b)
<1>1. IsGraph(g) /\ r \in DOMAIN g
  BY DEF Connected
<1> DEFINE S == {}
<1>2. Avoiding(g, r, r) \subseteq S
  <2>1. \A x : x \notin S
    OBVIOUS
  <2> HIDE DEF S
  <2> QED BY <1>1, <2>1, ReachedIsLeast
<1> QED BY <1>2 DEF DominatesIn

DominatorsOf(g, r, b) == {a \in DOMAIN g : DominatesIn(g, r, a, b)}

\* A block has more dominators than those that strictly dominate it.
LEMMA MoreDominators ==
    ASSUME NEW g, NEW r, Connected(g, r), NEW a \in DOMAIN g, NEW b \in DOMAIN g,
           a # b, DominatesIn(g, r, a, b)
    PROVE  /\ Cardinality(DominatorsOf(g, r, a)) \in Nat
           /\ Cardinality(DominatorsOf(g, r, b)) \in Nat
           /\ Cardinality(DominatorsOf(g, r, a)) < Cardinality(DominatorsOf(g, r, b))
<1> DEFINE A == DominatorsOf(g, r, a)
           B == DominatorsOf(g, r, b)
<1>1. IsGraph(g) /\ r \in DOMAIN g
  BY DEF Connected
<1>2. IsFiniteSet(A) /\ IsFiniteSet(B)
  BY <1>1, FS_Subset DEF IsGraph, DominatorsOf
<1>3. A \subseteq B
  BY <1>1, DominanceIsTransitive DEF DominatorsOf
<1>4. b \in B
  BY <1>1, DominanceIsReflexive DEF DominatorsOf
<1>5. b \notin A
  BY DominanceIsAntisymmetric DEF DominatorsOf
<1> HIDE DEF A, B
<1>6. Cardinality(A) \in Nat /\ Cardinality(B) \in Nat
  BY <1>2, FS_CardinalityType
<1>7. Cardinality(A) <= Cardinality(B) /\ (Cardinality(A) = Cardinality(B) => A = B)
  BY <1>2, <1>3, FS_Subset
<1>8. Cardinality(A) < Cardinality(B)
  BY <1>4, <1>5, <1>6, <1>7
<1> QED BY <1>6, <1>8 DEF A, B

Closest(g, r, a, b) ==
    /\ a \in DOMAIN g \ {b}
    /\ DominatesIn(g, r, a, b)
    /\ \A c \in DOMAIN g \ {b} : DominatesIn(g, r, c, b) => DominatesIn(g, r, c, a)

\* Every block but the entry has a closest strict dominator.
LEMMA ClosestExists ==
    ASSUME NEW g, NEW r, Connected(g, r), NEW b \in DOMAIN g, b # r
    PROVE  Closest(g, r, ClosestDominator(g, r, b), b)
<1> DEFINE D == DominatorsOf(g, r, b) \ {b}
           T == {Cardinality(DominatorsOf(g, r, a)) : a \in D}
           N == Cardinality(DOMAIN g)
<1>1. IsGraph(g) /\ r \in DOMAIN g /\ IsFiniteSet(DOMAIN g)
  BY DEF Connected, IsGraph
<1>2. r \in D
  BY <1>1, RootDominates DEF DominatorsOf
<1>3. \A a : IsFiniteSet(DominatorsOf(g, r, a)) /\ DominatorsOf(g, r, a) \subseteq DOMAIN g
  BY <1>1, FS_Subset DEF DominatorsOf
<1>4. N \in Nat /\ \A a : /\ Cardinality(DominatorsOf(g, r, a)) \in Nat
                          /\ Cardinality(DominatorsOf(g, r, a)) <= N
  BY <1>1, <1>3, FS_CardinalityType, FS_Subset
<1>5. T \subseteq Nat /\ T # {} /\ \A x \in T : x <= N
  BY <1>2, <1>4
<1>6. PICK t \in T : \A u \in T : u <= t
  <2> HIDE DEF T
  <2> QED BY <1>4, <1>5, GreatestNumber
<1>7. PICK a \in D : t = Cardinality(DominatorsOf(g, r, a))
  BY <1>6
<1>8. a \in DOMAIN g \ {b} /\ DominatesIn(g, r, a, b)
  BY <1>7 DEF DominatorsOf
<1>9. ASSUME NEW c \in DOMAIN g \ {b}, DominatesIn(g, r, c, b) PROVE DominatesIn(g, r, c, a)
  <2>1. CASE c = a
    BY <2>1, <1>1, DominanceIsReflexive
  <2>2. CASE c # a
    <3>1. DominatesIn(g, r, c, a) \/ DominatesIn(g, r, a, c)
      BY <1>8, <1>9, DominatorsAreInLine
    <3>2. ~DominatesIn(g, r, a, c)
      <4> SUFFICES ASSUME DominatesIn(g, r, a, c) PROVE FALSE
        OBVIOUS
      <4>1. Cardinality(DominatorsOf(g, r, a)) < Cardinality(DominatorsOf(g, r, c))
        BY <1>8, <2>2, MoreDominators
      <4>2. c \in D
        BY <1>9 DEF DominatorsOf
      <4>3. Cardinality(DominatorsOf(g, r, c)) <= t
        BY <1>6, <4>2
      <4> QED BY <1>4, <1>7, <4>1, <4>3
    <3> QED BY <3>1, <3>2
  <2> QED BY <2>1, <2>2
<1>10. Closest(g, r, a, b)
  BY <1>8, <1>9 DEF Closest
<1> QED BY <1>10 DEF Closest, ClosestDominator

\* Below a on the way to d there is a child of a in the dominator tree.
LEMMA ChildOnTheWay ==
    ASSUME NEW g, NEW r, Connected(g, r), NEW a \in DOMAIN g, NEW d \in DOMAIN g,
           a # d, DominatesIn(g, r, a, d)
    PROVE  \E c \in DOMAIN g \ {r} : ClosestDominator(g, r, c) = a /\ DominatesIn(g, r, c, d)
<1> DEFINE C == {c \in DOMAIN g \ {a} : DominatesIn(g, r, a, c) /\ DominatesIn(g, r, c, d)}
           T == {Cardinality(DominatorsOf(g, r, c)) : c \in C}
<1>1. IsGraph(g) /\ r \in DOMAIN g /\ IsFiniteSet(DOMAIN g)
  BY DEF Connected, IsGraph
<1>2. d \in C
  BY <1>1, DominanceIsReflexive
<1>3. \A c : Cardinality(DominatorsOf(g, r, c)) \in Nat
  BY <1>1, FS_Subset, FS_CardinalityType DEF DominatorsOf
<1>4. PICK t \in T : \A u \in T : t <= u
  <2>1. T \subseteq Nat /\ T # {}
    BY <1>2, <1>3
  <2> HIDE DEF T
  <2> QED BY <2>1, LeastNumber
<1>5. PICK c \in C : t = Cardinality(DominatorsOf(g, r, c))
  BY <1>4
<1>6. c # r
  BY <1>5, RootDominates, DominanceIsAntisymmetric
<1> DEFINE e == ClosestDominator(g, r, c)
<1>7. Closest(g, r, e, c)
  BY <1>5, <1>6, ClosestExists
<1> HIDE DEF e
<1>8. DominatesIn(g, r, a, e) /\ e \in DOMAIN g /\ e # c /\ DominatesIn(g, r, e, c)
  BY <1>5, <1>7 DEF Closest
<1>9. DominatesIn(g, r, e, d)
  BY <1>1, <1>5, <1>8, DominanceIsTransitive
<1>10. e = a
  <2> SUFFICES ASSUME e # a PROVE FALSE
    OBVIOUS
  <2>1. e \in C
    BY <1>8, <1>9
  <2>2. t <= Cardinality(DominatorsOf(g, r, e))
    BY <1>4, <2>1
  <2>3. Cardinality(DominatorsOf(g, r, e)) < Cardinality(DominatorsOf(g, r, c))
    BY <1>5, <1>8, MoreDominators
  <2> QED BY <1>3, <1>5, <2>2, <2>3
<1> QED BY <1>5, <1>6, <1>10 DEF e

-----------------------------------------------------------------------------
(* Ways inside of a set of blocks *)

FurtherIn(g, set, s) == s \cup (set \cap UNION {SuccsOf(g, c) : c \in s})

\* The rounds of WithinFrom.
WithinRounds(g, set, b, f) ==
    f = [n \in 0 .. Cardinality(set) |->
           IF n = 0 THEN SuccsOf(g, b) \cap set ELSE FurtherIn(g, set, f[n - 1])]

WithinEndsWith(g, set, b, f) ==
    /\ f \in [0 .. Cardinality(set) -> SUBSET set]
    /\ f[0] = SuccsOf(g, b) \cap set
    /\ \A n \in 0 .. Cardinality(set) : n # 0 => f[n] = FurtherIn(g, set, f[n - 1])
    /\ WithinFrom(g, set, b) = f[Cardinality(set)]

\* They exist, so that WithinFrom is the last of them.
LEMMA WithinIsRounds ==
    ASSUME NEW g, NEW set, NEW b, IsFiniteSet(set)
    PROVE  \E f : WithinEndsWith(g, set, b, f)
<1> DEFINE N == Cardinality(set)
           V == SUBSET set
           base == SuccsOf(g, b) \cap set
           G == [s \in V |-> FurtherIn(g, set, s)]
<1>1. N \in Nat
  BY FS_CardinalityType
<1>2. base \in V /\ G \in [V -> V]
  <2>1. \A s \in V : FurtherIn(g, set, s) \in V
    BY DEF FurtherIn
  <2> QED BY <2>1
<1>3. \A s \in V : G[s] = FurtherIn(g, set, s)
  OBVIOUS
<1> HIDE DEF G, V, base
<1>4. PICK h \in [0 .. N -> V] : \A i \in 0 .. N : h[i] = IF i = 0 THEN base ELSE G[h[i - 1]]
  <2>1. Iterated(V, base, G, N)
    BY <1>1, <1>2, Iteration
  <2> QED BY <2>1 DEF Iterated
<1>5. ASSUME NEW i \in 0 .. N
      PROVE  h[i] = IF i = 0 THEN base ELSE FurtherIn(g, set, h[i - 1])
  <2>1. i # 0 => i - 1 \in 0 .. N
    BY <1>1
  <2>2. i # 0 => h[i - 1] \in V
    BY <1>4, <2>1
  <2> QED BY <1>3, <1>4, <2>2
<1> DEFINE k == [n \in 0 .. N |-> IF n = 0 THEN base ELSE FurtherIn(g, set, h[n - 1])]
<1>6. h = k
  <2>1. h = [n \in 0 .. N |-> h[n]]
    BY <1>4
  <2> QED BY <1>5, <2>1
<1>7. WithinRounds(g, set, b, h)
  BY <1>6 DEF WithinRounds, base
<1>8. WithinFrom(g, set, b) = (CHOOSE f : WithinRounds(g, set, b, f))[N]
  BY DEF WithinFrom, WithinRounds, FurtherIn
<1> DEFINE F == CHOOSE f : WithinRounds(g, set, b, f)
<1>9. WithinRounds(g, set, b, F)
  BY <1>7
<1> HIDE DEF F
<1>10. /\ DOMAIN F = 0 .. N
       /\ \A n \in 0 .. N : F[n] = IF n = 0 THEN base ELSE FurtherIn(g, set, F[n - 1])
  BY <1>9 DEF WithinRounds, base
<1> DEFINE T == {n \in Nat : n \in 0 .. N => F[n] \in V}
<1>11. 0 \in T
  BY <1>2, <1>10
<1>12. ASSUME NEW n \in Nat, n \in T PROVE n + 1 \in T
  <2> SUFFICES ASSUME n + 1 \in 0 .. N PROVE F[n + 1] \in V
    OBVIOUS
  <2> DEFINE m == n + 1
  <2>1. n \in 0 .. N /\ m \in 0 .. N /\ m # 0 /\ m - 1 = n
    BY <1>1
  <2>2. F[n] \in V
    BY <1>12, <2>1
  <2> HIDE DEF m
  <2>3. F[m] = FurtherIn(g, set, F[n])
    BY <1>10, <2>1
  <2>4. F[m] \in V
    BY <2>2, <2>3 DEF V, FurtherIn
  <2> QED BY <2>4 DEF m
<1> HIDE DEF T
<1>13. Nat \subseteq T
  BY <1>11, <1>12, NatSetInduction
<1>14. \A n \in 0 .. N : F[n] \in V
  BY <1>1, <1>13 DEF T
<1>15. F = [n \in 0 .. N |-> F[n]]
  BY <1>9 DEF WithinRounds
<1>16. F \in [0 .. N -> V]
  BY <1>14, <1>15
<1> QED
  <2>1. F[0] = base
    BY <1>1, <1>10
  <2> QED BY <1>8, <1>10, <1>16, <2>1 DEF F, V, base, WithinEndsWith

\* A way inside of the set goes on, and no way leads out of what is closed.
LEMMA WithinFacts ==
    ASSUME NEW g, NEW set, NEW b, IsFiniteSet(set)
    PROVE  /\ SuccsOf(g, b) \cap set \subseteq WithinFrom(g, set, b)
           /\ WithinFrom(g, set, b) \subseteq set
           /\ \A c \in WithinFrom(g, set, b) : SuccsOf(g, c) \cap set \subseteq WithinFrom(g, set, b)
           /\ \A S : /\ SuccsOf(g, b) \cap set \subseteq S
                     /\ \A c \in S \cap set : SuccsOf(g, c) \cap set \subseteq S
                     => WithinFrom(g, set, b) \subseteq S
<1> DEFINE N == Cardinality(set)
           base == SuccsOf(g, b) \cap set
<1>1. N \in Nat
  BY FS_CardinalityType
<1>2. PICK f : WithinEndsWith(g, set, b, f)
  BY WithinIsRounds
<1>0. /\ f \in [0 .. N -> SUBSET set]
      /\ f[0] = base
      /\ \A n \in 0 .. N : n # 0 => f[n] = FurtherIn(g, set, f[n - 1])
      /\ WithinFrom(g, set, b) = f[N]
  BY <1>2 DEF WithinEndsWith
<1> HIDE DEF N, base
<1>3. \A n \in 0 .. N : f[n] \subseteq set
  BY <1>0
<1>4. ASSUME NEW n \in Nat, n + 1 \in 0 .. N
      PROVE  n \in 0 .. N /\ f[n + 1] = FurtherIn(g, set, f[n])
  <2> DEFINE m == n + 1
  <2>1. n \in 0 .. N /\ m \in 0 .. N /\ m # 0 /\ m - 1 = n
    BY <1>1, <1>4
  <2> HIDE DEF m
  <2>2. f[m] = FurtherIn(g, set, f[n])
    BY <1>0, <2>1
  <2> QED BY <2>1, <2>2 DEF m
<1>5. base \subseteq f[N]
  <2> DEFINE T == {n \in Nat : n \in 0 .. N => base \subseteq f[n]}
  <2>1. 0 \in T
    BY <1>0
  <2>2. ASSUME NEW n \in Nat, n \in T PROVE n + 1 \in T
    BY <1>4, <2>2 DEF FurtherIn
  <2> HIDE DEF T
  <2>3. Nat \subseteq T
    BY <2>1, <2>2, NatSetInduction
  <2> QED BY <1>1, <2>3 DEF T
<1>6. \A c \in f[N] : SuccsOf(g, c) \cap set \subseteq f[N]
  <2>1. CASE base = {}
    <3> DEFINE T == {n \in Nat : n \in 0 .. N => f[n] = {}}
    <3>1. 0 \in T
      BY <1>0, <2>1
    <3>2. ASSUME NEW n \in Nat, n \in T PROVE n + 1 \in T
      <4> SUFFICES ASSUME n + 1 \in 0 .. N PROVE f[n + 1] = {}
        OBVIOUS
      <4>1. f[n + 1] = FurtherIn(g, set, {})
        BY <1>4, <3>2
      <4> QED BY <4>1 DEF FurtherIn
    <3> HIDE DEF T
    <3>3. Nat \subseteq T
      BY <3>1, <3>2, NatSetInduction
    <3> QED BY <1>1, <3>3 DEF T
  <2>2. CASE base # {}
    <3> DEFINE M == N + 1
               h == [n \in 0 .. M |-> IF n = M THEN FurtherIn(g, set, f[N]) ELSE f[n]]
    <3>1. h[M] = FurtherIn(g, set, f[N]) /\ h[N] = f[N] /\ h[0] = base
      BY <1>1, <1>0
    <3>2. \A n \in 0 .. N : h[n] = f[n] /\ n + 1 \in 0 .. M
      BY <1>1
    <3> HIDE DEF h
    <3>3. ASSUME NEW n \in 0 .. N PROVE h[n + 1] = FurtherIn(g, set, h[n])
      <4>1. CASE n = N
        BY <3>1, <4>1
      <4>2. CASE n # N
        <5>1. n \in Nat /\ n + 1 \in 0 .. N
          BY <1>1, <4>2
        <5> QED BY <1>4, <3>2, <5>1
      <4> QED BY <4>1, <4>2
    <3>4. \A n \in 0 .. M : h[n] \subseteq set
      <4>1. \A n \in 0 .. N : h[n] \subseteq set
        BY <1>3, <3>2
      <4>2. h[M] \subseteq set
        BY <1>1, <1>3, <3>1 DEF FurtherIn
      <4> QED BY <1>1, <4>1, <4>2
    <3>5. \A n \in 0 .. N : h[n] \subseteq h[n + 1]
      BY <3>3 DEF FurtherIn
    <3>6. ASSUME NEW n \in 0 .. N, n # 0, h[n - 1] = h[n] PROVE h[n] = h[n + 1]
      <4> DEFINE m == n - 1
      <4>1. m \in 0 .. N /\ m + 1 = n
        BY <1>1, <3>6
      <4> HIDE DEF m
      <4>2. h[n] = FurtherIn(g, set, h[m])
        BY <3>3, <4>1
      <4> QED BY <3>3, <3>6, <4>2 DEF m
    <3>7. h[0] # {}
      BY <2>2, <3>1
    <3>8. h[N] = h[M]
      BY <3>4, <3>5, <3>6, <3>7, GrowthEnds DEF N
    <3> QED BY <3>1, <3>8 DEF FurtherIn
  <2> QED BY <2>1, <2>2
<1>7. ASSUME NEW S, base \subseteq S, \A c \in S \cap set : SuccsOf(g, c) \cap set \subseteq S
      PROVE  f[N] \subseteq S
  <2> DEFINE T == {n \in Nat : n \in 0 .. N => f[n] \subseteq S}
  <2>1. 0 \in T
    BY <1>0, <1>7
  <2>2. ASSUME NEW n \in Nat, n \in T PROVE n + 1 \in T
    <3> SUFFICES ASSUME n + 1 \in 0 .. N PROVE f[n + 1] \subseteq S
      OBVIOUS
    <3>1. n \in 0 .. N /\ f[n + 1] = FurtherIn(g, set, f[n])
      BY <1>4
    <3>2. f[n] \subseteq S \cap set
      BY <1>3, <2>2, <3>1
    <3> QED BY <1>7, <3>1, <3>2 DEF FurtherIn
  <2> HIDE DEF T
  <2>3. Nat \subseteq T
    BY <2>1, <2>2, NatSetInduction
  <2> QED BY <1>1, <2>3 DEF T
<1> QED BY <1>1, <1>0, <1>3, <1>5, <1>6, <1>7 DEF base

\* What is closed under edges inside of the set and has what the block leads to
\* has all that the block reaches.
LEMMA WithinIsLeast ==
    ASSUME NEW g, NEW set, NEW b, IsFiniteSet(set), NEW S,
           \A c \in SuccsOf(g, b) : c \in set => c \in S,
           \A x \in S : \A c \in SuccsOf(g, x) : x \in set /\ c \in set => c \in S
    PROVE  WithinFrom(g, set, b) \subseteq S
<1>1. SuccsOf(g, b) \cap set \subseteq S
  OBVIOUS
<1>2. \A x \in S \cap set : SuccsOf(g, x) \cap set \subseteq S
  OBVIOUS
<1> QED BY <1>1, <1>2, WithinFacts

\* A way goes on by an edge or another way.
LEMMA WithinGoesOn ==
    ASSUME NEW g, NEW set, NEW b, IsFiniteSet(set)
    PROVE  /\ WithinFrom(g, set, b) \subseteq set
           /\ \A c \in SuccsOf(g, b) : c \in set => c \in WithinFrom(g, set, b)
           /\ \A x \in WithinFrom(g, set, b) : \A c \in SuccsOf(g, x) :
                c \in set => c \in WithinFrom(g, set, b)
           /\ \A x \in WithinFrom(g, set, b) : WithinFrom(g, set, x) \subseteq WithinFrom(g, set, b)
<1>1. /\ WithinFrom(g, set, b) \subseteq set
      /\ \A c \in SuccsOf(g, b) : c \in set => c \in WithinFrom(g, set, b)
      /\ \A x \in WithinFrom(g, set, b) : \A c \in SuccsOf(g, x) :
           c \in set => c \in WithinFrom(g, set, b)
  BY WithinFacts
<1>2. ASSUME NEW x \in WithinFrom(g, set, b)
      PROVE  WithinFrom(g, set, x) \subseteq WithinFrom(g, set, b)
  <2> DEFINE S == WithinFrom(g, set, b)
  <2>1. /\ \A c \in SuccsOf(g, x) : c \in set => c \in S
        /\ \A y \in S : \A c \in SuccsOf(g, y) : y \in set /\ c \in set => c \in S
    BY <1>1
  <2> HIDE DEF S
  <2>2. WithinFrom(g, set, x) \subseteq S
    BY <2>1, WithinIsLeast
  <2> QED BY <2>2 DEF S
<1> QED BY <1>1, <1>2

\* In a larger set there are more ways.
LEMMA WithinLarger ==
    ASSUME NEW g, NEW set, NEW larger, set \subseteq larger, IsFiniteSet(larger), NEW b
    PROVE  WithinFrom(g, set, b) \subseteq WithinFrom(g, larger, b)
<1> DEFINE S == WithinFrom(g, larger, b)
<1>1. IsFiniteSet(set)
  BY FS_Subset
<1>2. /\ \A c \in SuccsOf(g, b) : c \in set => c \in S
      /\ \A x \in S : \A c \in SuccsOf(g, x) : x \in set /\ c \in set => c \in S
  BY WithinGoesOn
<1> HIDE DEF S
<1>3. WithinFrom(g, set, b) \subseteq S
  BY <1>1, <1>2, WithinIsLeast
<1> QED BY <1>3 DEF S

-----------------------------------------------------------------------------
(* Natural loops *)

\* A graph the analyses are asked about: nothing jumps to the entry, and from no
\* block that cannot be reached.
Alive(g, r, z) ==
    /\ IsGraph(g) /\ r \in DOMAIN g /\ z \notin DOMAIN g
    /\ \A b \in DOMAIN g : /\ r \notin SuccsOf(g, b)
                           /\ SuccsOf(g, b) # {} => b \in Avoiding(g, r, z)

IsLoop(g, r, h) == h \in DOMAIN g /\ Latches(g, r, h) # {}

\* Blocks on edges can be reached.
LEMMA AliveFacts ==
    ASSUME NEW g, NEW r, NEW z, Alive(g, r, z)
    PROVE  /\ \A b \in Avoiding(g, r, z) : b \in DOMAIN g /\ Reachable(g, r, b)
           /\ r \in Avoiding(g, r, z)
           /\ \A p \in DOMAIN g : \A b \in SuccsOf(g, p) :
                p \in Avoiding(g, r, z) /\ b \in Avoiding(g, r, z)
<1>1. IsGraph(g) /\ r \in DOMAIN g /\ z \notin DOMAIN g
  BY DEF Alive
<1>2. r \in Avoiding(g, r, z) /\ Avoiding(g, r, z) \subseteq DOMAIN g
  BY <1>1, ReachedGoesOn
<1>3. ASSUME NEW b \in Avoiding(g, r, z) PROVE Reachable(g, r, b)
  <2> SUFFICES ASSUME NEW S, r \in S, \A x \in S \cap DOMAIN g : SuccsOf(g, x) \subseteq S
               PROVE  b \in S
    BY DEF Reachable
  <2>1. Avoiding(g, r, z) \subseteq S
    BY <1>1, ReachedIsLeast
  <2> QED BY <2>1
<1>4. ASSUME NEW p \in DOMAIN g, NEW b \in SuccsOf(g, p)
      PROVE  p \in Avoiding(g, r, z) /\ b \in Avoiding(g, r, z)
  <2>1. p \in Avoiding(g, r, z)
    BY <1>4 DEF Alive
  <2>2. b # z
    BY <1>1 DEF IsGraph
  <2> QED BY <1>1, <2>1, <2>2, ReachedGoesOn
<1> QED BY <1>2, <1>3, <1>4

\* A latch is in its loop.
LEMMA LatchInLoop ==
    ASSUME NEW g, NEW r, NEW z, Alive(g, r, z), NEW h \in DOMAIN g, NEW u \in Latches(g, r, h)
    PROVE  /\ u \in DOMAIN g /\ h \in SuccsOf(g, u) /\ DominatesIn(g, r, h, u)
           /\ u \in Avoiding(g, r, z) /\ h \in Avoiding(g, r, z)
           /\ u \in NaturalLoop(g, r, h)
<1>1. u \in DOMAIN g /\ h \in SuccsOf(g, u) /\ DominatesIn(g, r, h, u)
  BY DEF Latches, PredsOf
<1>2. u # h => u \in Avoiding(g, u, h)
  BY <1>1, ReachedGoesOn DEF Alive
<1>3. u \in NaturalLoop(g, r, h)
  BY <1>1, <1>2 DEF NaturalLoop
<1> QED BY <1>1, <1>3, AliveFacts

\* The header dominates its loop, all of which can be reached.
LEMMA HeaderDominates ==
    ASSUME NEW g, NEW r, NEW z, Alive(g, r, z), NEW h, IsLoop(g, r, h),
           NEW y \in NaturalLoop(g, r, h)
    PROVE  /\ y \in DOMAIN g /\ y \in Avoiding(g, r, z)
           /\ DominatesIn(g, r, h, y)
<1>1. IsGraph(g) /\ r \in DOMAIN g /\ h \in DOMAIN g
  BY DEF Alive, IsLoop
<1>2. CASE y = h
  <2>1. PICK u : u \in Latches(g, r, h)
    BY DEF IsLoop
  <2> QED BY <1>1, <1>2, <2>1, LatchInLoop, DominanceIsReflexive
<1>3. CASE y # h
  <2>1. y \in DOMAIN g
    BY <1>3 DEF NaturalLoop
  <2>2. PICK u : u \in Avoiding(g, y, h) /\ u \in Latches(g, r, h)
    BY <1>3 DEF NaturalLoop
  <2>3. u \in DOMAIN g /\ DominatesIn(g, r, h, u)
    BY <1>1, <2>2, LatchInLoop
  <2>4. DominatesIn(g, r, h, y)
    <3> SUFFICES ASSUME y \in Avoiding(g, r, h) PROVE FALSE
      BY DEF DominatesIn
    <3> QED BY <1>1, <2>2, <2>3, ReachedFromReached DEF DominatesIn
  <2>5. SuccsOf(g, y) # {}
    <3> SUFFICES ASSUME SuccsOf(g, y) = {} PROVE FALSE
      OBVIOUS
    <3> DEFINE S == {y}
    <3>1. Avoiding(g, y, h) \subseteq S
      <4>1. y \in S /\ \A b \in S : SuccsOf(g, b) = {}
        OBVIOUS
      <4> HIDE DEF S
      <4> QED BY <1>1, <2>1, <4>1, ReachedIsLeast
    <3>2. u = y
      BY <2>2, <3>1
    <3> QED BY <1>1, <2>2, <3>2, LatchInLoop
  <2> QED BY <2>1, <2>4, <2>5 DEF Alive
<1> QED BY <1>2, <1>3

\* A loop is entered through its header only.
LEMMA LoopEntry ==
    ASSUME NEW g, NEW r, NEW z, Alive(g, r, z), NEW h \in DOMAIN g,
           NEW y \in NaturalLoop(g, r, h), y # h, NEW p \in DOMAIN g, y \in SuccsOf(g, p)
    PROVE  p \in NaturalLoop(g, r, h)
<1> SUFFICES ASSUME p # h PROVE p \in NaturalLoop(g, r, h)
  BY DEF NaturalLoop
<1>1. IsGraph(g)
  BY DEF Alive
<1>2. y \in DOMAIN g /\ Avoiding(g, y, h) \cap Latches(g, r, h) # {}
  BY DEF NaturalLoop
<1>3. p \in Avoiding(g, p, h)
  BY <1>1, ReachedGoesOn
<1>4. y \in Avoiding(g, p, h)
  BY <1>1, <1>3, ReachedGoesOn
<1>5. Avoiding(g, y, h) \subseteq Avoiding(g, p, h)
  BY <1>1, <1>4, ReachedFromReached
<1> QED BY <1>2, <1>5 DEF NaturalLoop

\* Inside of its loop the header reaches every block of it.
LEMMA FromHeader ==
    ASSUME NEW g, NEW r, NEW z, Alive(g, r, z), NEW h, IsLoop(g, r, h),
           NEW y \in NaturalLoop(g, r, h), y # h
    PROVE  y \in WithinFrom(g, NaturalLoop(g, r, h), h)
<1> DEFINE L == NaturalLoop(g, r, h)
           W == WithinFrom(g, L, h)
           S == Avoiding(g, r, h) \cup W \cup {h} \cup (DOMAIN g \ L)
<1>1. IsGraph(g) /\ r \in DOMAIN g /\ h \in DOMAIN g /\ L \subseteq DOMAIN g
  BY DEF Alive, IsLoop, NaturalLoop
<1>2. IsFiniteSet(L)
  BY <1>1, FS_Subset DEF IsGraph
<1>3. /\ \A c \in SuccsOf(g, h) : c \in L => c \in W
      /\ \A x \in W : \A c \in SuccsOf(g, x) : c \in L => c \in W
  <2> HIDE DEF L
  <2> QED BY <1>2, WithinGoesOn
<1>4. r \in S
  <2>1. r # h => r \in Avoiding(g, r, h)
    BY <1>1, ReachedGoesOn
  <2> QED BY <2>1
<1>5. ASSUME NEW x \in S \cap DOMAIN g, NEW c \in SuccsOf(g, x) PROVE c \in S
  <2>1. c \in DOMAIN g
    BY <1>1, <1>5 DEF IsGraph
  <2>2. CASE x \in Avoiding(g, r, h)
    <3>1. c # h => c \in Avoiding(g, r, h)
      BY <1>1, <1>5, <2>2, ReachedGoesOn
    <3> QED BY <3>1
  <2>3. CASE x \in W \cup {h}
    <3>1. c \in L => c \in W
      BY <1>3, <1>5, <2>3
    <3> QED BY <2>1, <3>1
  <2>4. CASE x \in DOMAIN g \ L
    <3>1. c \in L => c = h
      BY <1>1, <1>5, <2>4, LoopEntry
    <3> QED BY <2>1, <3>1
  <2> QED BY <1>5, <2>2, <2>3, <2>4
<1>6. y \in DOMAIN g /\ y \in Avoiding(g, r, z) /\ y \notin Avoiding(g, r, h)
  BY HeaderDominates DEF DominatesIn
<1>7. y \in S
  <2>1. Reachable(g, r, y)
    BY <1>6, AliveFacts
  <2> HIDE DEF S
  <2> QED BY <1>4, <1>5, <2>1 DEF Reachable
<1> QED BY <1>6, <1>7

\* And every block of it, the header included, the header.
LEMMA ToHeader ==
    ASSUME NEW g, NEW r, NEW z, Alive(g, r, z), NEW h, IsLoop(g, r, h),
           NEW y \in NaturalLoop(g, r, h)
    PROVE  h \in WithinFrom(g, NaturalLoop(g, r, h), y)
<1> DEFINE L == NaturalLoop(g, r, h)
           W == WithinFrom(g, L, y)
<1>1. IsGraph(g) /\ r \in DOMAIN g /\ h \in DOMAIN g /\ L \subseteq DOMAIN g /\ h \in L
  BY DEF Alive, IsLoop, NaturalLoop
<1>2. IsFiniteSet(L)
  BY <1>1, FS_Subset DEF IsGraph
<1>3. /\ \A c \in SuccsOf(g, y) : c \in L => c \in W
      /\ \A x \in W : \A c \in SuccsOf(g, x) : c \in L => c \in W
  <2> HIDE DEF L
  <2> QED BY <1>2, WithinGoesOn
<1>4. CASE y # h
  <2> DEFINE S == W \cup {y} \cup (DOMAIN g \ L)
  <2>1. PICK u : u \in Avoiding(g, y, h) /\ u \in Latches(g, r, h)
    BY <1>4 DEF NaturalLoop
  <2>2. u \in L /\ h \in SuccsOf(g, u) /\ u \in DOMAIN g
    BY <1>1, <2>1, LatchInLoop
  <2>3. y \in S
    OBVIOUS
  <2>4. ASSUME NEW x \in S \cap DOMAIN g, NEW c \in SuccsOf(g, x), c # h PROVE c \in S
    <3>1. c \in DOMAIN g
      BY <1>1, <2>4 DEF IsGraph
    <3>2. CASE x \in W \cup {y}
      BY <1>3, <2>4, <3>1, <3>2
    <3>3. CASE x \in DOMAIN g \ L
      BY <1>1, <2>4, <3>1, <3>3, LoopEntry
    <3> QED BY <2>4, <3>2, <3>3
  <2>5. Avoiding(g, y, h) \subseteq S
    <3> HIDE DEF S
    <3>1. y \in DOMAIN g
      BY <1>1
    <3> QED BY <1>1, <2>3, <2>4, <3>1, ReachedIsLeast
  <2>6. u \in W \cup {y}
    BY <2>1, <2>2, <2>5
  <2> QED BY <1>1, <1>3, <2>2, <2>6
<1>5. CASE y = h
  <2>1. PICK u : u \in Latches(g, r, h)
    BY DEF IsLoop
  <2>2. u \in L /\ h \in SuccsOf(g, u)
    BY <1>1, <2>1, LatchInLoop
  <2>3. u # h => u \in WithinFrom(g, L, h)
    BY <2>2, FromHeader
  <2> QED BY <1>1, <1>3, <1>5, <2>2, <2>3
<1> QED BY <1>4, <1>5

\* Any two blocks of a loop reach each other in every set that has the loop.
LEMMA LoopIsConnected ==
    ASSUME NEW g, NEW r, NEW z, Alive(g, r, z), NEW h, IsLoop(g, r, h),
           NEW set, IsFiniteSet(set), NaturalLoop(g, r, h) \subseteq set,
           NEW x \in NaturalLoop(g, r, h), NEW y \in NaturalLoop(g, r, h)
    PROVE  y \in WithinFrom(g, set, x)
<1> DEFINE L == NaturalLoop(g, r, h)
<1>1. IsFiniteSet(L)
  BY FS_Subset
<1>2. h \in WithinFrom(g, L, x) /\ h \in WithinFrom(g, L, y)
  BY ToHeader
<1>3. y # h => y \in WithinFrom(g, L, h)
  BY FromHeader
<1> HIDE DEF L
<1>4. y \in WithinFrom(g, L, x)
  BY <1>1, <1>2, <1>3, WithinGoesOn
<1> QED BY <1>4, WithinLarger DEF L

\* A loop whose header is in another loop lies in it.
LEMMA LoopsNest ==
    ASSUME NEW g, NEW r, NEW z, Alive(g, r, z),
           NEW h, IsLoop(g, r, h), NEW k, IsLoop(g, r, k),
           h \in NaturalLoop(g, r, k), h # k
    PROVE  NaturalLoop(g, r, h) \subseteq NaturalLoop(g, r, k) /\ k \notin NaturalLoop(g, r, h)
<1>1. IsGraph(g) /\ r \in DOMAIN g /\ h \in DOMAIN g /\ k \in DOMAIN g
  BY DEF Alive, IsLoop
<1>2. k \notin NaturalLoop(g, r, h)
  <2> SUFFICES ASSUME k \in NaturalLoop(g, r, h) PROVE FALSE
    OBVIOUS
  <2>1. DominatesIn(g, r, h, k) /\ DominatesIn(g, r, k, h) /\ h \in Avoiding(g, r, z)
    BY HeaderDominates
  <2>2. Reachable(g, r, h)
    BY <2>1, AliveFacts
  <2> QED BY <1>1, <2>1, <2>2, DominanceOfReachable
<1> DEFINE L == NaturalLoop(g, r, h)
           K == NaturalLoop(g, r, k)
           S == K \cup (DOMAIN g \ L)
<1>3. L \subseteq DOMAIN g /\ IsFiniteSet(L)
  <2>1. L \subseteq DOMAIN g
    BY <1>1 DEF NaturalLoop
  <2> QED BY <1>1, <2>1, FS_Subset DEF IsGraph
<1>4. ASSUME NEW y \in L PROVE y \in K
  \* y reaches h inside of L, and what reaches h there is in K.
  <2> SUFFICES ASSUME y \notin K PROVE FALSE
    OBVIOUS
  <2> DEFINE T == L \ K
  <2>1. h \in WithinFrom(g, L, y)
    BY ToHeader
  <2>2. ASSUME NEW x \in T, NEW c \in SuccsOf(g, x), c \in L PROVE c \in T
    <3> SUFFICES ASSUME c \in K PROVE FALSE
      BY <2>2
    <3>1. c # k /\ x \in DOMAIN g
      BY <1>2, <1>3, <2>2
    <3>2. x \in K
      BY <1>1, <2>2, <3>1, LoopEntry
    <3> QED BY <2>2, <3>2
  <2>3. y \in T
    BY <1>4
  <2> HIDE DEF T, L
  <2>4. WithinFrom(g, L, y) \subseteq T
    BY <1>3, <2>2, <2>3, WithinIsLeast
  <2> QED BY <2>1, <2>4 DEF T
<1> QED BY <1>2, <1>4

\* Of two loops that share a block one has the other's header.
LEMMA LoopsShare ==
    ASSUME NEW g, NEW r, NEW z, Alive(g, r, z),
           NEW h, IsLoop(g, r, h), NEW k, IsLoop(g, r, k),
           NEW b \in NaturalLoop(g, r, h), b \in NaturalLoop(g, r, k)
    PROVE  h \in NaturalLoop(g, r, k) \/ k \in NaturalLoop(g, r, h)
<1> SUFFICES ASSUME h \notin NaturalLoop(g, r, k), k \notin NaturalLoop(g, r, h) PROVE FALSE
  OBVIOUS
<1>1. IsGraph(g) /\ r \in DOMAIN g /\ h \in DOMAIN g /\ k \in DOMAIN g
  BY DEF Alive, IsLoop
<1> DEFINE X == NaturalLoop(g, r, h)
           Y == NaturalLoop(g, r, k)
           T == X \ Y
<1>2. X \subseteq DOMAIN g /\ IsFiniteSet(X) /\ h \in X
  <2>1. X \subseteq DOMAIN g /\ h \in X
    BY DEF NaturalLoop, IsLoop
  <2> QED BY <1>1, <2>1, FS_Subset DEF IsGraph
<1>3. b \in WithinFrom(g, X, h)
  BY FromHeader
<1>4. ASSUME NEW a \in T, NEW c \in SuccsOf(g, a), c \in X PROVE c \in T
  <2> SUFFICES ASSUME c \in Y PROVE FALSE
    BY <1>4
  <2>1. c # k /\ a \in DOMAIN g
    BY <1>2, <1>4
  <2>2. a \in Y
    BY <1>1, <1>4, <2>1, LoopEntry
  <2> QED BY <1>4, <2>2
<1>5. h \in T
  BY <1>2
<1> HIDE DEF T, X
<1>6. WithinFrom(g, X, h) \subseteq T
  BY <1>2, <1>4, <1>5, WithinIsLeast
<1> QED BY <1>3, <1>6 DEF T

-----------------------------------------------------------------------------
(* Components *)

\* The blocks of a set that reach c and are reached from it there.
Component(g, set, c) ==
    {x \in set : x = c \/ (x \in WithinFrom(g, set, c) /\ c \in WithinFrom(g, set, x))}

\* Of a component any two blocks reach each other; what reaches it and is reached
\* from it is in it.
LEMMA ComponentFacts ==
    ASSUME NEW g, NEW set, IsFiniteSet(set), NEW c \in set
    PROVE  /\ c \in Component(g, set, c) /\ Component(g, set, c) \subseteq set
           /\ \A x, y \in Component(g, set, c) : x # y => y \in WithinFrom(g, set, x)
           /\ \A x \in Component(g, set, c) : \A w \in set :
                w \in WithinFrom(g, set, x) /\ x \in WithinFrom(g, set, w) => w \in Component(g, set, c)
<1> DEFINE W(x) == WithinFrom(g, set, x)
<1>1. \A x, y, w \in set : y \in W(x) /\ w \in W(y) => w \in W(x)
  BY WithinGoesOn
<1> HIDE DEF W
<1>2. Component(g, set, c) = {x \in set : x = c \/ (x \in W(c) /\ c \in W(x))}
  BY DEF Component, W
<1>3. \A x, y \in Component(g, set, c) : x # y => y \in W(x)
  BY <1>1, <1>2
<1>4. \A x \in Component(g, set, c) : \A w \in set :
        w \in W(x) /\ x \in W(w) => w \in Component(g, set, c)
  BY <1>1, <1>2
<1> QED BY <1>2, <1>3, <1>4 DEF W

ForwardOf(g, r) ==
    [b \in DOMAIN g |->
       [n \in {m \in DOMAIN g[b] : ~DominatesIn(g, r, g[b][m], b)} |-> g[b][n]]]

\* In a reducible graph every component has a block that dominates it: one that no
\* forward edge within the component leads to.
LEMMA ReducibleHeader ==
    ASSUME NEW g, NEW r, NEW z, Alive(g, r, z), Reducible(g, r),
           NEW N, N \subseteq DOMAIN g, NEW c \in N
    PROVE  \E h \in Component(g, N, c) : \A x \in Component(g, N, c) : DominatesIn(g, r, h, x)
<1> DEFINE S == Component(g, N, c)
           D == DOMAIN g
           forward == ForwardOf(g, r)
           F(x) == WithinFrom(forward, D, x)
           W(x) == WithinFrom(g, N, x)
           Behind(x) == {y \in D : x \in F(y)}
           T == {Cardinality(Behind(x)) : x \in S}
<1>1. IsGraph(g) /\ r \in D /\ IsFiniteSet(D) /\ IsFiniteSet(N)
  <2>1. IsGraph(g) /\ r \in D /\ IsFiniteSet(D)
    BY DEF Alive, IsGraph
  <2> QED BY <2>1, FS_Subset
<1>2. /\ c \in S /\ S \subseteq N
      /\ \A x, y \in S : x # y => y \in W(x)
      /\ \A x \in S : \A w \in N : w \in W(x) /\ x \in W(w) => w \in S
  BY <1>1, ComponentFacts
<1>3. \A b \in D : b \notin F(b)
  BY DEF Reducible, ForwardOf
<1>4. \A b \in D : \A s \in SuccsOf(g, b) : ~DominatesIn(g, r, s, b) => s \in SuccsOf(forward, b)
  BY DEF SuccsOf, ForwardOf
<1>5. \A x, y, w \in D : y \in F(x) /\ w \in F(y) => w \in F(x)
  <2> HIDE DEF forward
  <2> QED BY <1>1, WithinGoesOn
<1>6. \A x \in D : \A s \in SuccsOf(forward, x) : s \in D => s \in F(x)
  <2> HIDE DEF forward
  <2> QED BY <1>1, WithinGoesOn
<1> HIDE DEF forward, F, S, D
<1>7. PICK h \in S : \A y \in S : h \notin F(y)
  <2>1. \A x : IsFiniteSet(Behind(x)) /\ Cardinality(Behind(x)) \in Nat
    BY <1>1, FS_Subset, FS_CardinalityType
  <2>2. T \subseteq Nat /\ T # {}
    BY <1>2, <2>1
  <2>3. PICK t \in T : \A u \in T : t <= u
    <3> HIDE DEF T
    <3> QED BY <2>2, LeastNumber
  <2>4. PICK h \in S : t = Cardinality(Behind(h))
    BY <2>3
  <2>5. ASSUME NEW y \in S, h \in F(y) PROVE FALSE
    <3>1. y \in D /\ h \in D
      BY <1>2 DEF D
    <3>2. Behind(y) \subseteq Behind(h)
      BY <1>5, <2>5, <3>1
    <3>3. y \in Behind(h) /\ y \notin Behind(y)
      BY <1>3, <2>5, <3>1
    <3>4. Behind(y) # Behind(h)
      BY <3>3
    <3> HIDE DEF Behind
    <3>5. Cardinality(Behind(y)) <= Cardinality(Behind(h)) /\ Cardinality(Behind(y)) # Cardinality(Behind(h))
      BY <2>1, <3>2, <3>4, FS_Subset
    <3>6. t <= Cardinality(Behind(y))
      BY <2>3
    <3> QED BY <2>1, <2>4, <3>5, <3>6
  <2> QED BY <2>5
<1> DEFINE Below == {x \in S : DominatesIn(g, r, h, x)}
<1>8. h \in Below
  BY <1>1, DominanceIsReflexive DEF D
<1>9. ASSUME NEW y \in S, y \notin Below PROVE FALSE
  <2> DEFINE U == (S \ Below) \cup {x \in N : x \notin S /\ h \notin W(x)}
  <2>1. h \in W(y)
    BY <1>2, <1>8, <1>9
  <2>2. ASSUME NEW x \in U, NEW s \in SuccsOf(g, x), x \in N, s \in N PROVE s \in U
    <3>1. s \in W(x) /\ \A w \in N : w \in W(s) => w \in W(x)
      BY <1>1, <2>2, WithinGoesOn
    <3>2. x \in D /\ s \in D /\ h \in D /\ h \in N
      BY <1>2, <2>2 DEF D
    <3>3. CASE x \in S \ Below
      <4>1. s \notin Below
        <5>1. CASE s = h
          <6>1. s \notin SuccsOf(forward, x)
            BY <1>6, <1>7, <3>2, <3>3, <5>1
          <6>2. DominatesIn(g, r, h, x)
            BY <1>4, <2>2, <3>2, <5>1, <6>1
          <6> QED BY <3>3, <6>2
        <5>2. CASE s # h
          <6> SUFFICES ASSUME DominatesIn(g, r, h, s) PROVE FALSE
            OBVIOUS
          <6>1. DominatesIn(g, r, h, x)
            BY <1>1, <2>2, <3>2, <5>2, DominatesPredecessor DEF D
          <6> QED BY <3>3, <6>1
        <5> QED BY <5>1, <5>2
      <4>2. s \notin S => h \notin W(s)
        <5> SUFFICES ASSUME s \notin S, h \in W(s) PROVE FALSE
          OBVIOUS
        <5>1. x \in W(h)
          BY <1>2, <1>8, <3>3
        <5>2. x \in W(s)
          BY <1>1, <5>1, WithinGoesOn
        <5> QED BY <1>2, <2>2, <3>1, <3>3, <5>2
      <4> QED BY <2>2, <4>1, <4>2
    <3>4. CASE x \notin S /\ h \notin W(x)
      <4>1. s # h /\ h \notin W(s)
        BY <3>1, <3>2, <3>4
      <4>2. s \notin S
        BY <1>2, <4>1
      <4> QED BY <2>2, <4>1, <4>2
    <3> QED BY <2>2, <3>3, <3>4
  <2>3. y \in U /\ y \in N
    BY <1>2, <1>9
  <2> HIDE DEF U
  <2>4. WithinFrom(g, N, y) \subseteq U
    BY <1>1, <2>2, <2>3, WithinIsLeast
  <2>5. h \in U
    BY <2>1, <2>4
  <2> QED BY <1>8, <2>5 DEF U
<1>10. \A x \in S : DominatesIn(g, r, h, x)
  BY <1>9
<1> QED BY <1>10 DEF S

\* A component of two blocks and more, in a set that has the whole loop of every
\* header it has, is a natural loop, and no loop around it has its header in the
\* set.
LEMMA ComponentIsLoop ==
    ASSUME NEW g, NEW r, NEW z, Alive(g, r, z), NEW N, N \subseteq DOMAIN g, NEW c \in N,
           \A k \in LoopsOf(g, r) \cap N : NaturalLoop(g, r, k) \subseteq N,
           NEW h \in Component(g, N, c), \A x \in Component(g, N, c) : DominatesIn(g, r, h, x),
           Component(g, N, c) # {h}
    PROVE  /\ h \in LoopsOf(g, r) \cap N
           /\ Component(g, N, c) = NaturalLoop(g, r, h)
           /\ \A k \in LoopsOf(g, r) : k # h /\ h \in NaturalLoop(g, r, k) => k \notin N
<1> DEFINE S == Component(g, N, c)
           L == NaturalLoop(g, r, h)
           W(x) == WithinFrom(g, N, x)
<1>1. IsGraph(g) /\ r \in DOMAIN g /\ IsFiniteSet(N)
  <2>1. IsGraph(g) /\ r \in DOMAIN g /\ IsFiniteSet(DOMAIN g)
    BY DEF Alive, IsGraph
  <2> QED BY <2>1, FS_Subset
<1>2. /\ h \in S /\ S \subseteq N
      /\ \A x, y \in S : x # y => y \in W(x)
      /\ \A x \in S : \A w \in N : w \in W(x) /\ x \in W(w) => w \in S
  BY <1>1, ComponentFacts
<1>3. ASSUME NEW x \in S, x # h PROVE Avoiding(g, x, h) \cap Latches(g, r, h) # {}
  <2> SUFFICES ASSUME Avoiding(g, x, h) \cap Latches(g, r, h) = {} PROVE FALSE
    OBVIOUS
  <2> DEFINE T == {y \in N : y \in Avoiding(g, x, h) /\ (y = x \/ y \in W(x))}
  <2>1. x \in N /\ x \in DOMAIN g /\ h \in W(x)
    BY <1>2, <1>3
  <2>2. x \in Avoiding(g, x, h) /\ h \notin Avoiding(g, x, h)
    BY <1>1, <1>3, <2>1, ReachedGoesOn
  <2>3. ASSUME NEW y \in T, NEW s \in SuccsOf(g, y), s \in N PROVE s \in T
    <3>1. s \in W(x)
      BY <1>1, <2>3, WithinGoesOn
    <3>2. CASE s # h
      <4>1. s \in Avoiding(g, x, h)
        BY <1>1, <2>1, <2>3, <3>2, ReachedGoesOn
      <4> QED BY <2>3, <3>1, <4>1
    <3>3. CASE s = h
      <4>1. y \in S
        <5>1. h \in W(y)
          BY <1>1, <1>2, <2>3, <3>3, WithinGoesOn
        <5>2. x \in W(h)
          BY <1>2, <1>3
        <5>3. x \in W(y)
          BY <1>1, <5>1, <5>2, WithinGoesOn
        <5> QED BY <1>2, <1>3, <2>3, <5>3
      <4>2. DominatesIn(g, r, h, y) /\ y \in DOMAIN g
        BY <2>3, <4>1
      <4>3. y \in Latches(g, r, h)
        BY <2>3, <3>3, <4>2 DEF Latches, PredsOf
      <4> QED BY <2>3, <4>3
    <3> QED BY <3>2, <3>3
  <2>4. x \in T
    BY <2>1, <2>2
  <2> HIDE DEF T
  <2>5. WithinFrom(g, N, x) \subseteq T
    BY <1>1, <2>3, <2>4, WithinIsLeast
  <2>6. h \in T
    BY <2>1, <2>5
  <2> QED BY <2>2, <2>6 DEF T
<1>4. S \subseteq L
  BY <1>2, <1>3 DEF NaturalLoop
<1>5. PICK x \in S : x # h
  BY <1>2
<1>6. Latches(g, r, h) # {} /\ h \in DOMAIN g /\ L # {h}
  BY <1>2, <1>3, <1>4, <1>5
<1>7. h \in LoopsOf(g, r) /\ IsLoop(g, r, h) /\ h \in N
  BY <1>2, <1>6 DEF LoopsOf, IsLoop
<1>8. L \subseteq N
  BY <1>7
<1>9. ASSUME NEW y \in L PROVE y \in S
  <2>1. h \in L
    BY DEF NaturalLoop
  <2>2. y \in W(h) /\ h \in W(y)
    BY <1>1, <1>7, <1>8, <2>1, LoopIsConnected
  <2> QED BY <1>2, <1>8, <2>2
<1>10. ASSUME NEW k \in LoopsOf(g, r), k # h, h \in NaturalLoop(g, r, k) PROVE k \notin N
  <2> SUFFICES ASSUME k \in N PROVE FALSE
    OBVIOUS
  <2>1. NaturalLoop(g, r, k) \subseteq N /\ IsLoop(g, r, k) /\ k \in NaturalLoop(g, r, k)
    BY DEF LoopsOf, IsLoop, NaturalLoop
  <2>2. k \in W(h) /\ h \in W(k)
    BY <1>1, <1>10, <2>1, LoopIsConnected
  <2>3. k \in S
    BY <1>2, <2>2
  <2>4. k \notin L
    BY <1>7, <1>10, <2>1, LoopsNest
  <2> QED BY <1>4, <2>3, <2>4
<1> QED BY <1>4, <1>7, <1>9, <1>10
=============================================================================
