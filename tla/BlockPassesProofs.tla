-------------------------- MODULE BlockPassesProofs --------------------------
(***************************************************************************)
(* The passes over a block keep what the block does, and what they know of *)
(* memory is so.                                                           *)
(***************************************************************************)
EXTENDS BlockPasses, WellFoundedInduction, TLAPS

\* Induction up to a number, as a fact about sets of numbers.
LEMMA UpTo ==
    ASSUME NEW N \in Nat, NEW T, 0 \in T, \A n \in 0 .. N : n \in T /\ n < N => n + 1 \in T
    PROVE  \A n \in 0 .. N : n \in T
<1> DEFINE R == OpToRel(<, Nat)
           U == {n \in 0 .. N : n \notin T}
<1> SUFFICES ASSUME U # {} PROVE FALSE
  OBVIOUS
<1>1. IsWellFoundedOn(R, Nat)
  BY NatLessThanWellFounded
<1>2. \A x, y \in Nat : x < y => <<x, y>> \in R
  BY DEF OpToRel
<1>3. U \subseteq Nat
  OBVIOUS
<1> HIDE DEF R
<1>4. PICK n \in U : \A y \in U : ~(<<y, n>> \in R)
  <2> HIDE DEF U
  <2> QED BY <1>1, <1>3, WFMin
<1>5. n # 0 /\ n - 1 \in 0 .. N /\ n - 1 < N /\ (n - 1) + 1 = n
  OBVIOUS
<1>6. n - 1 \notin U
  <2>1. n - 1 \in Nat /\ n \in Nat /\ n - 1 < n
    BY <1>5
  <2>2. <<n - 1, n>> \in R
    BY <1>2, <2>1
  <2> QED BY <1>4, <2>2
<1> QED BY <1>5, <1>6

-----------------------------------------------------------------------------
(* The functions Trace and Kept are what their definitions say. *)

IsTrace(m, c, N, f) ==
    f = [n \in 0 .. N |-> IF n = 0 THEN m ELSE Executed(f[n - 1], c[n])]
IsKept(c, ids, N, f) ==
    f = [n \in 0 .. N |->
           IF n = 0 THEN <<>>
           ELSE IF c[n].id \in ids THEN f[n - 1] ELSE Append(f[n - 1], c[n])]

\* There is a function as the definition of Trace asks for.
LEMMA TraceExists ==
    ASSUME NEW m, NEW c, NEW N \in Nat
    PROVE  \E f : IsTrace(m, c, N, f)
<1> DEFINE T == {j \in Nat : \E f : IsTrace(m, c, j, f)}
<1>1. 0 \in T
  <2> DEFINE f == [n \in 0 .. 0 |-> m]
  <2>1. IsTrace(m, c, 0, f)
    BY DEF IsTrace
  <2> QED BY <2>1
<1>2. ASSUME NEW j \in 0 .. N, j \in T PROVE j + 1 \in T
  <2>1. PICK f : IsTrace(m, c, j, f)
    BY <1>2
  <2> DEFINE next == Executed(f[j], c[j + 1])
             h == [n \in 0 .. (j + 1) |-> IF n = j + 1 THEN next ELSE f[n]]
  <2>2. \A n \in 0 .. j : f[n] = IF n = 0 THEN m ELSE Executed(f[n - 1], c[n])
    BY <2>1 DEF IsTrace
  <2>3. ASSUME NEW n \in 0 .. (j + 1)
        PROVE  h[n] = IF n = 0 THEN m ELSE Executed(h[n - 1], c[n])
    <3>1. CASE n = j + 1
      <4>1. h[n] = next /\ n # 0 /\ n - 1 = j /\ h[j] = f[j]
        BY <3>1
      <4> QED BY <3>1, <4>1
    <3>2. CASE n # j + 1
      <4>1. n \in 0 .. j /\ h[n] = f[n]
        BY <3>2
      <4>2. n # 0 => n - 1 \in 0 .. j /\ h[n - 1] = f[n - 1]
        BY <4>1
      <4> HIDE DEF h
      <4> QED BY <2>2, <4>1, <4>2
    <3> QED BY <3>1, <3>2
  <2> DEFINE h2 == [n \in 0 .. (j + 1) |-> IF n = 0 THEN m ELSE Executed(h[n - 1], c[n])]
  <2>4. h = h2
    <3> HIDE DEF next
    <3> QED BY <2>3
  <2> HIDE DEF h
  <2>5. IsTrace(m, c, j + 1, h)
    BY <2>4 DEF IsTrace
  <2> QED BY <1>2, <2>5
<1> HIDE DEF T
<1>3. N \in T
  BY <1>1, <1>2, UpTo
<1> QED BY <1>3 DEF T

\* A block leads through the machines its instructions make, one after the
\* other.
LEMMA TraceFacts ==
    ASSUME NEW m, NEW c, Len(c) \in Nat
    PROVE  /\ Trace(m, c)[0] = m
           /\ \A n \in 1 .. Len(c) : Trace(m, c)[n] = Executed(Trace(m, c)[n - 1], c[n])
           /\ Run(m, c) = Trace(m, c)[Len(c)]
<1>1. PICK f : IsTrace(m, c, Len(c), f)
  BY TraceExists
<1>2. Trace(m, c) = CHOOSE h : IsTrace(m, c, Len(c), h)
  BY DEF Trace, IsTrace
<1> DEFINE t == Trace(m, c)
<1>3. IsTrace(m, c, Len(c), t)
  BY <1>1, <1>2
<1> HIDE DEF t
<1>4. t[0] = m /\ \A n \in 1 .. Len(c) : t[n] = Executed(t[n - 1], c[n])
  <2>1. \A n \in 0 .. Len(c) : t[n] = IF n = 0 THEN m ELSE Executed(t[n - 1], c[n])
    BY <1>3 DEF IsTrace
  <2>2. 0 \in 0 .. Len(c) /\ \A n \in 1 .. Len(c) : n \in 0 .. Len(c) /\ n # 0
    OBVIOUS
  <2> QED BY <2>1, <2>2
<1> QED BY <1>4 DEF t, Run

\* And so for what is kept of a block.
LEMMA KeptExists ==
    ASSUME NEW c, NEW ids, NEW N \in Nat
    PROVE  \E f : IsKept(c, ids, N, f)
<1> DEFINE T == {j \in Nat : \E f : IsKept(c, ids, j, f)}
<1>1. 0 \in T
  <2> DEFINE f == [n \in 0 .. 0 |-> <<>>]
  <2>1. IsKept(c, ids, 0, f)
    BY DEF IsKept
  <2> QED BY <2>1
<1>2. ASSUME NEW j \in 0 .. N, j \in T PROVE j + 1 \in T
  <2>1. PICK f : IsKept(c, ids, j, f)
    BY <1>2
  <2> DEFINE Next1(before, n) == IF c[n].id \in ids THEN before ELSE Append(before, c[n])
             next == Next1(f[j], j + 1)
             h == [n \in 0 .. (j + 1) |-> IF n = j + 1 THEN next ELSE f[n]]
  <2>2. \A n \in 0 .. j : f[n] = IF n = 0 THEN <<>> ELSE Next1(f[n - 1], n)
    BY <2>1 DEF IsKept
  <2>3. ASSUME NEW n \in 0 .. (j + 1)
        PROVE  h[n] = IF n = 0 THEN <<>> ELSE Next1(h[n - 1], n)
    <3>1. CASE n = j + 1
      <4>1. h[n] = next /\ n # 0 /\ n - 1 = j /\ h[j] = f[j]
        BY <3>1
      <4> QED BY <3>1, <4>1
    <3>2. CASE n # j + 1
      <4>1. n \in 0 .. j /\ h[n] = f[n]
        BY <3>2
      <4>2. n # 0 => n - 1 \in 0 .. j /\ h[n - 1] = f[n - 1]
        BY <4>1
      <4> HIDE DEF h, Next1
      <4> QED BY <2>2, <4>1, <4>2
    <3> QED BY <3>1, <3>2
  <2> DEFINE h2 == [n \in 0 .. (j + 1) |-> IF n = 0 THEN <<>> ELSE Next1(h[n - 1], n)]
  <2>4. h = h2
    <3> HIDE DEF next, Next1
    <3> QED BY <2>3
  <2> HIDE DEF h
  <2>5. IsKept(c, ids, j + 1, h)
    BY <2>4 DEF IsKept
  <2> QED BY <1>2, <2>5
<1> HIDE DEF T
<1>3. N \in T
  BY <1>1, <1>2, UpTo
<1> QED BY <1>3 DEF T

\* Instruction after instruction is kept or left out.
LEMMA KeptFacts ==
    ASSUME NEW c, NEW ids, Len(c) \in Nat
    PROVE  /\ Kept(c, ids)[0] = <<>>
           /\ \A n \in 1 .. Len(c) :
                Kept(c, ids)[n] = IF c[n].id \in ids THEN Kept(c, ids)[n - 1]
                                  ELSE Append(Kept(c, ids)[n - 1], c[n])
           /\ Deleted(c, ids) = Kept(c, ids)[Len(c)]
<1>1. PICK f : IsKept(c, ids, Len(c), f)
  BY KeptExists
<1>2. Kept(c, ids) = CHOOSE h : IsKept(c, ids, Len(c), h)
  BY DEF Kept, IsKept
<1> DEFINE t == Kept(c, ids)
<1>3. IsKept(c, ids, Len(c), t)
  BY <1>1, <1>2
<1> HIDE DEF t
<1>4. /\ t[0] = <<>>
      /\ \A n \in 1 .. Len(c) :
           t[n] = IF c[n].id \in ids THEN t[n - 1] ELSE Append(t[n - 1], c[n])
  <2>1. \A n \in 0 .. Len(c) : t[n] = IF n = 0 THEN <<>>
                                      ELSE IF c[n].id \in ids THEN t[n - 1]
                                      ELSE Append(t[n - 1], c[n])
    BY <1>3 DEF IsKept
  <2>2. 0 \in 0 .. Len(c) /\ \A n \in 1 .. Len(c) : n \in 0 .. Len(c) /\ n # 0
    OBVIOUS
  <2> QED BY <2>1, <2>2
<1> QED BY <1>4 DEF t, Deleted

\* Blocks that begin alike go through the same machines there.
LEMMA TraceOfPrefix ==
    ASSUME NEW m, NEW c, NEW d, Len(c) \in Nat, Len(d) \in Nat,
           NEW N \in Nat, N <= Len(c), N <= Len(d), \A n \in 1 .. N : c[n] = d[n]
    PROVE  \A n \in 0 .. N : Trace(m, c)[n] = Trace(m, d)[n]
<1> DEFINE T == {n \in 0 .. N : Trace(m, c)[n] = Trace(m, d)[n]}
<1>1. 0 \in T
  BY TraceFacts
<1>2. ASSUME NEW n \in 0 .. N, n \in T, n < N PROVE n + 1 \in T
  <2>1. n + 1 \in 1 .. Len(c) /\ n + 1 \in 1 .. Len(d) /\ n + 1 \in 1 .. N /\ (n + 1) - 1 = n
        /\ n + 1 \in 0 .. N
    BY <1>2
  <2>2. /\ Trace(m, c)[n + 1] = Executed(Trace(m, c)[n], c[n + 1])
        /\ Trace(m, d)[n + 1] = Executed(Trace(m, d)[n], d[n + 1])
    BY <2>1, TraceFacts
  <2> QED BY <1>2, <2>1, <2>2
<1> HIDE DEF T
<1>3. \A n \in 0 .. N : n \in T
  BY <1>1, <1>2, UpTo
<1> QED BY <1>3 DEF T

\* A block with one more instruction.
LEMMA TraceOfAppend ==
    ASSUME NEW m, NEW c \in Seq(Instruction), NEW i \in Instruction
    PROVE  /\ \A n \in 0 .. Len(c) : Trace(m, Append(c, i))[n] = Trace(m, c)[n]
           /\ Trace(m, Append(c, i))[Len(c)] = Run(m, c)
           /\ Run(m, Append(c, i)) = Executed(Run(m, c), i)
<1> DEFINE d == Append(c, i)
<1>1. /\ Len(c) \in Nat /\ Len(d) = Len(c) + 1 /\ d[Len(c) + 1] = i
      /\ \A n \in 1 .. Len(c) : c[n] = d[n]
  OBVIOUS
<1> HIDE DEF d
<1>2. \A n \in 0 .. Len(c) : Trace(m, c)[n] = Trace(m, d)[n]
  BY <1>1, TraceOfPrefix
<1>3. /\ Run(m, c) = Trace(m, c)[Len(c)]
      /\ Run(m, d) = Trace(m, d)[Len(d)]
      /\ Trace(m, d)[Len(d)] = Executed(Trace(m, d)[Len(d) - 1], d[Len(d)])
  <2>1. Len(d) \in 1 .. Len(d) /\ Len(d) \in Nat
    BY <1>1
  <2> QED BY <1>1, <2>1, TraceFacts
<1>4. Len(d) - 1 = Len(c) /\ Len(c) \in 0 .. Len(c)
  BY <1>1
<1> QED BY <1>1, <1>2, <1>3, <1>4 DEF d

-----------------------------------------------------------------------------
(* The machine *)

\* What a name is given.
LEMMA SetFacts ==
    ASSUME NEW m, IsMachine(m), NEW id, NEW v
    PROVE  /\ IsMachine(Set(m, id, v))
           /\ Set(m, id, v).mem = m.mem
           /\ Set(m, id, v).out = m.out
           /\ DOMAIN Set(m, id, v).env = DOMAIN m.env \cup {id}
           /\ Set(m, id, v).env[id] = v
           /\ \A x \in DOMAIN m.env : x # id => Set(m, id, v).env[x] = m.env[x]
<1> DEFINE e == [x \in DOMAIN m.env \cup {id} |-> IF x = id THEN v ELSE m.env[x]]
<1>1. Set(m, id, v) = [env |-> e, mem |-> m.mem, out |-> m.out]
  BY DEF Set, IsMachine
<1>2. /\ DOMAIN e = DOMAIN m.env \cup {id}
      /\ e[id] = v
      /\ \A x \in DOMAIN m.env : x # id => e[x] = m.env[x]
      /\ e = [x \in DOMAIN e |-> e[x]]
  OBVIOUS
<1> HIDE DEF e
<1> QED BY <1>1, <1>2 DEF IsMachine

CallArgs(m, i) == [n \in DOMAIN i.args |-> Val(m, i.args[n])]
CallResult(m, i) ==
    (IF CallArgs(m, i) = <<>> THEN 0 ELSE CallArgs(m, i)[1])
      + (IF Function[i.fn].reads = 0 THEN 0 ELSE m.mem[Function[i.fn].reads])
      + (IF Function[i.fn].io THEN Len(m.out) ELSE 0)

Others == Binary \cup {"muladd"}

\* The value an instruction other than a store gives its name.
ValueOf(m, i) == IF i.op = "load" THEN m.mem[Accessed(m, i)]
                 ELSE IF i.op = "call" THEN CallResult(m, i)
                 ELSE Result(m, i)

MemoryAfter(m, i) ==
    IF i.op = "store" THEN [m.mem EXCEPT ![Accessed(m, i)] = Val(m, RVal(i))]
    ELSE IF i.op = "call" /\ Function[i.fn].writes # 0
    THEN [m.mem EXCEPT ![Function[i.fn].writes] = @ + 1]
    ELSE m.mem

OutAfter(m, i) == IF i.op = "call" /\ Function[i.fn].io
                  THEN Append(m.out, <<i.fn, CallArgs(m, i)>>) ELSE m.out

\* What an instruction does to names, memory and output.
LEMMA ExecutedFacts ==
    ASSUME NEW m, IsMachine(m), NEW i \in Instruction
    PROVE  /\ IsMachine(Executed(m, i))
           /\ Executed(m, i).mem = MemoryAfter(m, i)
           /\ Executed(m, i).out = OutAfter(m, i)
           /\ DOMAIN Executed(m, i).mem = DOMAIN m.mem
           /\ i.op = "store" => Executed(m, i).env = m.env
           /\ i.op # "store" =>
                /\ DOMAIN Executed(m, i).env = DOMAIN m.env \cup {i.id}
                /\ Executed(m, i).env[i.id] = ValueOf(m, i)
                /\ \A x \in DOMAIN m.env : x # i.id => Executed(m, i).env[x] = m.env[x]
<1> i.op \in Operations
  BY DEF Instruction
<1>1. CASE i.op = "store"
  <2>1. Executed(m, i) = [m EXCEPT !.mem[Accessed(m, i)] = Val(m, RVal(i))]
    BY <1>1 DEF Executed
  <2> DEFINE a == Accessed(m, i)
             v == Val(m, RVal(i))
             w == [m.mem EXCEPT ![a] = v]
  <2> HIDE DEF a, v
  <2>2. Executed(m, i) = [env |-> m.env, mem |-> w, out |-> m.out]
    BY <2>1 DEF a, v, IsMachine
  <2>3. w = [x \in DOMAIN w |-> w[x]] /\ DOMAIN w = DOMAIN m.mem
    OBVIOUS
  <2>4. w = MemoryAfter(m, i) /\ m.out = OutAfter(m, i)
    BY <1>1 DEF MemoryAfter, OutAfter, a, v
  <2> HIDE DEF w
  <2> QED BY <1>1, <2>2, <2>3, <2>4 DEF IsMachine
<1>2. CASE i.op = "load"
  <2>1. Executed(m, i) = Set(m, i.id, ValueOf(m, i))
    BY <1>2 DEF Executed, ValueOf
  <2>2. m.mem = MemoryAfter(m, i) /\ m.out = OutAfter(m, i)
    BY <1>2 DEF MemoryAfter, OutAfter
  <2> QED BY <1>2, <2>1, <2>2, SetFacts
<1>3. CASE i.op = "call"
  <2> DEFINE f == Function[i.fn]
             s == Set(m, i.id, CallResult(m, i))
             w == IF f.writes = 0 THEN m.mem ELSE [m.mem EXCEPT ![f.writes] = @ + 1]
             o == IF f.io THEN Append(m.out, <<i.fn, CallArgs(m, i)>>) ELSE m.out
  <2>1. Executed(m, i) = [env |-> s.env, mem |-> w, out |-> o]
    BY <1>3 DEF Executed, Called, CallArgs, CallResult
  <2>2. IsMachine(s) /\ DOMAIN s.env = DOMAIN m.env \cup {i.id}
        /\ s.env[i.id] = CallResult(m, i) /\ \A x \in DOMAIN m.env : x # i.id => s.env[x] = m.env[x]
    BY SetFacts
  <2>3. w = [x \in DOMAIN w |-> w[x]] /\ DOMAIN w = DOMAIN m.mem
    BY DEF IsMachine
  <2>4. w = MemoryAfter(m, i) /\ o = OutAfter(m, i) /\ CallResult(m, i) = ValueOf(m, i)
    BY <1>3 DEF MemoryAfter, OutAfter, ValueOf
  <2> HIDE DEF f, s, w, o
  <2>5. IsMachine(Executed(m, i))
    BY <2>1, <2>2, <2>3 DEF IsMachine
  <2> QED BY <1>3, <2>1, <2>2, <2>3, <2>4, <2>5
<1>4. CASE i.op \notin {"store", "load", "call"}
  <2>1. Executed(m, i) = Set(m, i.id, ValueOf(m, i))
    BY <1>4 DEF Executed, ValueOf
  <2>2. m.mem = MemoryAfter(m, i) /\ m.out = OutAfter(m, i)
    BY <1>4 DEF MemoryAfter, OutAfter
  <2> QED BY <1>4, <2>1, <2>2, SetFacts
<1> QED BY <1>1, <1>2, <1>3, <1>4

-----------------------------------------------------------------------------
(* Instructions that do the same *)

\* The operand that is a shift by a constant, if there is one.
ShiftPlace(i) == IF i.op = "add" THEN 3 ELSE Place(i) + 2

\* Two instructions with the same operation on the same values, each in a machine.
Alike(m, i, w, j) ==
    /\ i \in Instruction /\ j \in Instruction
    /\ i.op = j.op /\ i.fn = j.fn
    /\ Len(i.args) = Len(j.args) /\ Len(i.args) >= Arity(i.op)
    /\ \A n \in 1 .. Len(i.args) : Val(m, i.args[n]) = Val(w, j.args[n])
    /\ LET n == ShiftPlace(i)
       IN  i.op \in MemoryOps \cup {"add"} /\ n <= Len(i.args) => IntOf(i.args[n]) = IntOf(j.args[n])

\* What there is to know of the types of an instruction.
LEMMA InstructionFacts ==
    ASSUME NEW i \in Instruction
    PROVE  /\ i.op \in Operations
           /\ Len(i.args) \in Nat /\ DOMAIN i.args = 1 .. Len(i.args)
           /\ \A n \in DOMAIN i.args : /\ i.args[n] # NoOperand
                                       /\ IsConst(i.args[n]) \/ i.args[n] = V(i.args[n][2])
                                       /\ IsConst(i.args[n]) => IntOf(i.args[n]) \in Int
<1>1. i.op \in Operations /\ i.args \in Seq(OperandType)
  BY DEF Instruction
<1>2. \A v \in OperandType : /\ v # NoOperand /\ (IsConst(v) \/ v = V(v[2]))
                             /\ IsConst(v) => IntOf(v) \in Int
  <2>1. ASSUME NEW v \in {"value"} \X STRING \X {0}
        PROVE  v # NoOperand /\ v = V(v[2]) /\ ~IsConst(v)
    <3>1. v = <<v[1], v[2], v[3]>> /\ v[1] = "value" /\ v[3] = 0
      OBVIOUS
    <3>2. NoOperand[1] = "none"
      BY DEF NoOperand
    <3>3. v = V(v[2]) /\ ~IsConst(v)
      BY <3>1 DEF V, IsConst
    <3> QED BY <3>1, <3>2, <3>3
  <2>2. ASSUME NEW v \in {"const"} \X STRING \X Int
        PROVE  v # NoOperand /\ IsConst(v) /\ IntOf(v) \in Int
    <3>1. v[1] = "const" /\ v[3] \in Int
      OBVIOUS
    <3>2. NoOperand[1] = "none"
      BY DEF NoOperand
    <3>3. IsConst(v) /\ IntOf(v) \in Int
      BY <3>1 DEF IntOf, IsConst
    <3> QED BY <3>1, <3>2, <3>3
  <2> QED BY <2>1, <2>2 DEF OperandType
<1> QED BY <1>1, <1>2

\* They access the same place.
LEMMA SameAccess ==
    ASSUME NEW m, NEW i, NEW w, NEW j, Alike(m, i, w, j), i.op \in MemoryOps
    PROVE  Accessed(m, i) = Accessed(w, j)
<1> DEFINE p == Place(i)
<1>1. p = Place(j) /\ p \in {1, 2} /\ p <= Len(i.args) /\ ShiftPlace(i) = p + 2
  BY DEF Alike, Place, MemoryOps, Arity, ShiftPlace, Binary
<1>2. /\ DOMAIN i.args = 1 .. Len(i.args) /\ DOMAIN j.args = 1 .. Len(i.args)
      /\ Len(i.args) \in Nat
      /\ \A n \in 1 .. Len(i.args) : i.args[n] # NoOperand /\ j.args[n] # NoOperand
  BY InstructionFacts DEF Alike
<1> HIDE DEF p
<1>3. LVal(i) = i.args[p] /\ LVal(j) = j.args[p]
      /\ Offset(i) = Operand(i, p + 1) /\ Offset(j) = Operand(j, p + 1)
      /\ Shift(i) = IntOf(Operand(i, p + 2)) /\ Shift(j) = IntOf(Operand(j, p + 2))
  BY <1>1 DEF LVal, Offset, Shift, p
<1>4. Val(m, LVal(i)) = Val(w, LVal(j))
  BY <1>1, <1>2, <1>3 DEF Alike
<1>5. Shift(i) = Shift(j)
  BY <1>1, <1>2, <1>3 DEF Operand, Alike
<1>6. CASE p + 1 <= Len(i.args)
  <2>1. Offset(i) # NoOperand /\ Offset(j) # NoOperand /\ Val(m, Offset(i)) = Val(w, Offset(j))
    BY <1>1, <1>2, <1>3, <1>6 DEF Operand, Alike
  <2> QED BY <1>4, <1>5, <2>1 DEF Accessed, Address
<1>7. CASE ~(p + 1 <= Len(i.args))
  <2>1. Offset(i) = NoOperand /\ Offset(j) = NoOperand
    BY <1>1, <1>2, <1>3, <1>7 DEF Operand
  <2> QED BY <1>4, <2>1 DEF Accessed, Address
<1> QED BY <1>6, <1>7

\* They compute the same.
LEMMA SameResult ==
    ASSUME NEW m, NEW i, NEW w, NEW j, Alike(m, i, w, j), i.op \in Others
    PROVE  Result(m, i) = Result(w, j)
<1>1. /\ DOMAIN i.args = 1 .. Len(i.args) /\ DOMAIN j.args = 1 .. Len(i.args)
      /\ Len(i.args) \in Nat /\ 2 <= Len(i.args) /\ (i.op = "muladd" => 3 <= Len(i.args))
  BY InstructionFacts DEF Alike, Others, Arity, Binary
<1>2. Val(m, i.args[1]) = Val(w, j.args[1]) /\ Val(m, i.args[2]) = Val(w, j.args[2])
      /\ (i.op = "muladd" => Val(m, i.args[3]) = Val(w, j.args[3]))
  BY <1>1 DEF Alike
<1>3. i.op = "add" => IntOf(Operand(i, 3)) = IntOf(Operand(j, 3))
  BY <1>1 DEF Alike, ShiftPlace, Operand, MemoryOps
<1>4. i.op = j.op
  BY DEF Alike
<1>5. CASE i.op = "add"
  BY <1>2, <1>3, <1>4, <1>5 DEF Result
<1>6. CASE i.op = "muladd"
  BY <1>2, <1>4, <1>6 DEF Result
<1>7. CASE i.op \in Others \ {"add", "muladd"}
  BY <1>2, <1>4, <1>7 DEF Result, Others, Binary
<1> QED BY <1>5, <1>6, <1>7

\* They store the same, and call with the same arguments.
LEMMA SameOperands ==
    ASSUME NEW m, NEW i, NEW w, NEW j, Alike(m, i, w, j)
    PROVE  /\ i.op = "store" => Val(m, RVal(i)) = Val(w, RVal(j))
           /\ CallArgs(m, i) = CallArgs(w, j)
<1>1. /\ DOMAIN i.args = 1 .. Len(i.args) /\ DOMAIN j.args = 1 .. Len(i.args)
      /\ Len(i.args) \in Nat
  BY InstructionFacts DEF Alike
<1>2. i.op = "store" => 1 \in 1 .. Len(i.args)
  BY <1>1 DEF Alike, Arity
<1> QED BY <1>1, <1>2 DEF Alike, RVal, CallArgs

\* So in one machine they do the same.
LEMMA SameExecuted ==
    ASSUME NEW m, NEW i, NEW j, Alike(m, i, m, j), i.id = j.id
    PROVE  Executed(m, i) = Executed(m, j)
<1>0. i.op \in Operations /\ i.op = j.op /\ i.fn = j.fn
  BY DEF Alike, Instruction
<1>1. CASE i.op = "store"
  BY <1>0, <1>1, SameAccess, SameOperands DEF Executed, MemoryOps
<1>2. CASE i.op = "load"
  BY <1>0, <1>2, SameAccess DEF Executed, MemoryOps
<1>3. CASE i.op = "call"
  <2>1. CallArgs(m, i) = CallArgs(m, j)
    BY SameOperands
  <2> DEFINE Result1(args, fn) ==
               (IF args = <<>> THEN 0 ELSE args[1])
                 + (IF Function[fn].reads = 0 THEN 0 ELSE m.mem[Function[fn].reads])
                 + (IF Function[fn].io THEN Len(m.out) ELSE 0)
             Called1(args, fn, id) ==
               [env |-> Set(m, id, Result1(args, fn)).env,
                mem |-> IF Function[fn].writes = 0 THEN m.mem
                        ELSE [m.mem EXCEPT ![Function[fn].writes] = @ + 1],
                out |-> IF Function[fn].io THEN Append(m.out, <<fn, args>>) ELSE m.out]
  <2>2. /\ Called(m, i) = Called1(CallArgs(m, i), i.fn, i.id)
        /\ Called(m, j) = Called1(CallArgs(m, j), j.fn, j.id)
    BY DEF Called, CallArgs
  <2> HIDE DEF Called1
  <2>4. Called(m, i) = Called(m, j)
    BY <1>0, <2>1, <2>2
  <2> QED BY <1>0, <1>3, <2>4 DEF Executed
<1>4. CASE i.op \in Others
  <2>1. Result(m, i) = Result(m, j)
    BY <1>4, SameResult
  <2> QED BY <1>0, <1>4, <2>1 DEF Executed, Others, Binary
<1> QED BY <1>0, <1>1, <1>2, <1>3, <1>4 DEF Operations, MemoryOps, Others

-----------------------------------------------------------------------------
(* A block in SSA form and the machines it leads through *)

\* The names that have a value after n instructions.
Names(env, c, n) == DOMAIN env \cup {c[q].id : q \in {r \in 1 .. n : c[r].op # "store"}}

\* SSA form, instruction by instruction.
LEMMA SSAFacts ==
    ASSUME NEW env, NEW c, SSA(env, c)
    PROVE  /\ Len(c) \in Nat /\ DOMAIN c = 1 .. Len(c)
           /\ \A p \in 1 .. Len(c) :
                /\ c[p] \in Instruction
                /\ c[p].id \notin DOMAIN env
                /\ \A q \in 1 .. Len(c) : c[q].id = c[p].id => q = p
                /\ Len(c[p].args) \in Nat
                /\ Len(c[p].args) >= Arity(c[p].op)
                /\ \A n \in 1 .. Len(c[p].args) :
                     IsConst(c[p].args[n]) \/ c[p].args[n][2] \in Names(env, c, p - 1)
                /\ LET n == ShiftPlace(c[p])
                   IN  c[p].op \in MemoryOps \cup {"add"} /\ n <= Len(c[p].args)
                         => IsConst(c[p].args[n])
<1>1. c \in Seq(Instruction)
  BY DEF SSA
<1>2. Len(c) \in Nat /\ DOMAIN c = 1 .. Len(c) /\ \A p \in 1 .. Len(c) : c[p] \in Instruction
  BY <1>1
<1>3. ASSUME NEW p \in 1 .. Len(c)
      PROVE  /\ c[p].id \notin DOMAIN env
             /\ \A q \in 1 .. Len(c) : c[q].id = c[p].id => q = p
             /\ Len(c[p].args) >= Arity(c[p].op)
             /\ \A n \in DOMAIN c[p].args : Settled(env, c, c[p].args[n], p)
             /\ c[p].op = "add" /\ Len(c[p].args) > 2 => IsConst(c[p].args[3])
             /\ c[p].op \in MemoryOps /\ Len(c[p].args) > Place(c[p]) + 1
                  => IsConst(c[p].args[Place(c[p]) + 2])
  BY <1>2 DEF SSA
<1>4. ASSUME NEW p \in 1 .. Len(c)
      PROVE  Len(c[p].args) \in Nat /\ DOMAIN c[p].args = 1 .. Len(c[p].args)
  BY <1>2, InstructionFacts
<1>5. ASSUME NEW p \in 1 .. Len(c), NEW n \in 1 .. Len(c[p].args)
      PROVE  IsConst(c[p].args[n]) \/ c[p].args[n][2] \in Names(env, c, p - 1)
  <2>1. Settled(env, c, c[p].args[n], p)
    BY <1>3, <1>4
  <2> QED BY <2>1 DEF Settled, Names
<1>6. ASSUME NEW p \in 1 .. Len(c), c[p].op \in MemoryOps \cup {"add"},
             ShiftPlace(c[p]) <= Len(c[p].args)
      PROVE  IsConst(c[p].args[ShiftPlace(c[p])])
  <2>1. Place(c[p]) \in Nat
    BY DEF Place
  <2>2. CASE c[p].op = "add"
    BY <1>3, <1>4, <1>6, <2>2 DEF ShiftPlace
  <2>3. CASE c[p].op # "add"
    BY <1>3, <1>4, <1>6, <2>1, <2>3 DEF ShiftPlace
  <2> QED BY <2>2, <2>3
<1> QED BY <1>2, <1>3, <1>4, <1>5, <1>6

\* Where a name has its value in a machine that has come that far.
LEMMA RunFacts ==
    ASSUME NEW m, IsMachine(m), NEW c, SSA(m.env, c)
    PROVE  \A n \in 0 .. Len(c) :
             /\ IsMachine(Trace(m, c)[n])
             /\ DOMAIN Trace(m, c)[n].mem = DOMAIN m.mem
             /\ DOMAIN Trace(m, c)[n].env = Names(m.env, c, n)
<1> DEFINE t == Trace(m, c)
           P(n) == /\ IsMachine(t[n])
                   /\ DOMAIN t[n].mem = DOMAIN m.mem
                   /\ DOMAIN t[n].env = Names(m.env, c, n)
           T == {n \in 0 .. Len(c) : P(n)}
<1>0. /\ Len(c) \in Nat
      /\ \A p \in 1 .. Len(c) : c[p] \in Instruction
  BY SSAFacts
<1>1. t[0] = m /\ \A n \in 1 .. Len(c) : t[n] = Executed(t[n - 1], c[n])
  BY <1>0, TraceFacts
<1> HIDE DEF t
<1>2. 0 \in T
  <2>1. Names(m.env, c, 0) = DOMAIN m.env
    BY DEF Names
  <2> QED BY <1>0, <1>1, <2>1
<1>3. ASSUME NEW n \in 0 .. Len(c), n \in T, n < Len(c) PROVE n + 1 \in T
  <2>1. n + 1 \in 1 .. Len(c) /\ (n + 1) - 1 = n /\ n + 1 \in 0 .. Len(c)
    BY <1>0, <1>3
  <2>2. P(n) /\ t[n + 1] = Executed(t[n], c[n + 1]) /\ c[n + 1] \in Instruction
    BY <1>0, <1>1, <1>3, <2>1
  <2>3. /\ IsMachine(t[n + 1])
        /\ DOMAIN t[n + 1].mem = DOMAIN t[n].mem
        /\ c[n + 1].op = "store" => t[n + 1].env = t[n].env
        /\ c[n + 1].op # "store" => DOMAIN t[n + 1].env = DOMAIN t[n].env \cup {c[n + 1].id}
    BY <2>2, ExecutedFacts
  <2>4. Names(m.env, c, n + 1) = IF c[n + 1].op = "store" THEN Names(m.env, c, n)
                                 ELSE Names(m.env, c, n) \cup {c[n + 1].id}
    <3>1. 1 .. (n + 1) = (1 .. n) \cup {n + 1}
      BY <1>3
    <3> QED BY <3>1 DEF Names
  <2>5. P(n + 1)
    BY <2>2, <2>3, <2>4
  <2> QED BY <2>1, <2>5
<1> HIDE DEF T
<1>4. \A n \in 0 .. Len(c) : n \in T
  BY <1>0, <1>2, <1>3, UpTo
<1> QED BY <1>4 DEF T, t

\* A value is what it was when it was settled.
LEMMA Stable ==
    ASSUME NEW m, IsMachine(m), NEW c, SSA(m.env, c),
           NEW b \in 0 .. Len(c), NEW n \in b .. Len(c),
           NEW v, IsConst(v) \/ v[2] \in Names(m.env, c, b)
    PROVE  Val(Trace(m, c)[n], v) = Val(Trace(m, c)[b], v)
<1> DEFINE t == Trace(m, c)
           T == {j \in 0 .. Len(c) : j >= b => Val(t[j], v) = Val(t[b], v)}
<1>0. /\ Len(c) \in Nat /\ b \in Nat /\ n \in Nat
      /\ \A p \in 1 .. Len(c) : c[p] \in Instruction
  BY SSAFacts
<1>1. CASE IsConst(v)
  BY <1>1 DEF Val
<1>2. CASE ~IsConst(v)
  <2>1. \A j \in 1 .. Len(c) : t[j] = Executed(t[j - 1], c[j])
    BY <1>0, TraceFacts
  <2>2. \A j \in 0 .. Len(c) : IsMachine(t[j]) /\ DOMAIN t[j].env = Names(m.env, c, j)
    BY RunFacts
  <2> HIDE DEF t
  <2>3. 0 \in T
    BY <1>0
  <2>4. ASSUME NEW j \in 0 .. Len(c), j \in T, j < Len(c) PROVE j + 1 \in T
    <3> SUFFICES ASSUME j + 1 >= b PROVE Val(t[j + 1], v) = Val(t[b], v)
      BY <1>0, <2>4
    <3>1. CASE j + 1 = b
      BY <3>1
    <3>2. CASE j >= b
      <4>1. j + 1 \in 1 .. Len(c) /\ (j + 1) - 1 = j
        BY <1>0, <2>4
      <4>2. v[2] \in DOMAIN t[j].env
        BY <1>0, <1>2, <2>2, <3>2 DEF Names
      <4>3. v[2] # c[j + 1].id
        <5>1. c[j + 1].id \notin DOMAIN m.env
              /\ \A q \in 1 .. Len(c) : c[q].id = c[j + 1].id => q = j + 1
          BY <4>1, SSAFacts
        <5>2. \A q \in 1 .. b : q \in 1 .. Len(c) /\ q # j + 1
          BY <1>0, <3>2
        <5> QED BY <1>2, <5>1, <5>2 DEF Names
      <4>4. t[j + 1].env[v[2]] = t[j].env[v[2]]
        <5>1. t[j + 1] = Executed(t[j], c[j + 1]) /\ IsMachine(t[j]) /\ c[j + 1] \in Instruction
          BY <1>0, <2>1, <2>2, <4>1
        <5> QED BY <4>2, <4>3, <5>1, ExecutedFacts
      <4>5. Val(t[j], v) = Val(t[b], v)
        BY <2>4, <3>2
      <4> QED BY <1>2, <4>4, <4>5 DEF Val
    <3> QED BY <1>0, <2>4, <3>1, <3>2
  <2> HIDE DEF T
  <2>5. \A j \in 0 .. Len(c) : j \in T
    BY <1>0, <2>3, <2>4, UpTo
  <2>6. n \in 0 .. Len(c) /\ n >= b
    BY <1>0
  <2> QED BY <2>5, <2>6 DEF T, t
<1> QED BY <1>1, <1>2

-----------------------------------------------------------------------------
(* Another value in the place of one *)

\* A function on the first numbers is a sequence.
LEMMA IsSequence ==
    ASSUME NEW S, NEW N \in Nat, NEW f, f \in [1 .. N -> S]
    PROVE  f \in Seq(S) /\ Len(f) = N /\ DOMAIN f = 1 .. N
OBVIOUS

\* The block that comes of a replacement.
LEMMA ReplacedFacts ==
    ASSUME NEW c, c \in Seq(Instruction), NEW id, NEW v \in OperandType
    PROVE  LET d == ReplaceAllUse(c, id, v)
           IN  /\ d \in Seq(Instruction) /\ Len(d) = Len(c)
               /\ \A p \in 1 .. Len(c) :
                    /\ d[p].op = c[p].op /\ d[p].id = c[p].id /\ d[p].fn = c[p].fn
                    /\ Len(d[p].args) = Len(c[p].args)
                    /\ \A n \in 1 .. Len(c[p].args) :
                         d[p].args[n] = IF c[p].args[n] = V(id) THEN v ELSE c[p].args[n]
<1> DEFINE d == ReplaceAllUse(c, id, v)
           Args(p) == [x \in DOMAIN c[p].args |-> IF c[p].args[x] = V(id) THEN v ELSE c[p].args[x]]
<1>1. Len(c) \in Nat /\ DOMAIN c = 1 .. Len(c) /\ \A p \in 1 .. Len(c) : c[p] \in Instruction
  OBVIOUS
<1>2. ASSUME NEW p \in 1 .. Len(c)
      PROVE  /\ d[p] = [c[p] EXCEPT !.args = Args(p)]
             /\ d[p] \in Instruction
             /\ d[p].op = c[p].op /\ d[p].id = c[p].id /\ d[p].fn = c[p].fn
             /\ Len(d[p].args) = Len(c[p].args)
             /\ \A n \in 1 .. Len(c[p].args) :
                  d[p].args[n] = IF c[p].args[n] = V(id) THEN v ELSE c[p].args[n]
  <2>1. d[p] = [c[p] EXCEPT !.args = Args(p)]
    BY <1>1 DEF ReplaceAllUse
  <2>2. c[p].args \in Seq(OperandType) /\ c[p].op \in Operations /\ c[p].id \in STRING
        /\ c[p].fn \in STRING /\ c[p] = [op |-> c[p].op, id |-> c[p].id, args |-> c[p].args, fn |-> c[p].fn]
    BY <1>1 DEF Instruction
  <2>3. Args(p) \in [1 .. Len(c[p].args) -> OperandType] /\ Len(c[p].args) \in Nat
        /\ \A n \in 1 .. Len(c[p].args) :
             Args(p)[n] = IF c[p].args[n] = V(id) THEN v ELSE c[p].args[n]
    BY <2>2
  <2> HIDE DEF Args, d
  <2>4. Args(p) \in Seq(OperandType) /\ Len(Args(p)) = Len(c[p].args)
    BY <2>3, IsSequence
  <2>5. d[p] = [op |-> c[p].op, id |-> c[p].id, args |-> Args(p), fn |-> c[p].fn]
    BY <2>1, <2>2
  <2> QED BY <2>1, <2>2, <2>3, <2>4, <2>5 DEF Instruction
<1>3. d \in [1 .. Len(c) -> Instruction]
  <2>1. DOMAIN d = 1 .. Len(c) /\ d = [p \in 1 .. Len(c) |-> d[p]]
    BY <1>1 DEF ReplaceAllUse
  <2> HIDE DEF d
  <2> QED BY <1>2, <2>1
<1> HIDE DEF d
<1>4. d \in Seq(Instruction) /\ Len(d) = Len(c)
  BY <1>1, <1>3, IsSequence
<1> QED BY <1>2, <1>4 DEF d

\* A block can be told from another by its operands only, and there by values.
SameShape(c, d) ==
    /\ Len(c) = Len(d)
    /\ \A p \in 1 .. Len(c) : /\ d[p].op = c[p].op /\ d[p].id = c[p].id /\ d[p].fn = c[p].fn
                              /\ Len(d[p].args) = Len(c[p].args)

\* A block of the same shape with operands that are settled and have the same
\* values goes through the same machines.
LEMMA SameTrace ==
    ASSUME NEW m, NEW c, NEW d, Good(m, c), d \in Seq(Instruction), SameShape(c, d),
           \A p \in 1 .. Len(c) : \A n \in 1 .. Len(c[p].args) :
             /\ IsConst(c[p].args[n]) => d[p].args[n] = c[p].args[n]
             /\ IsConst(d[p].args[n]) \/ d[p].args[n][2] \in Names(m.env, c, p - 1)
             /\ Val(Trace(m, c)[p - 1], d[p].args[n]) = Val(Trace(m, c)[p - 1], c[p].args[n])
    PROVE  /\ Good(m, d)
           /\ \A n \in 0 .. Len(c) : Trace(m, d)[n] = Trace(m, c)[n]
           /\ \A n \in 0 .. Len(c) : Names(m.env, d, n) = Names(m.env, c, n)
<1> DEFINE t == Trace(m, c)
           u == Trace(m, d)
<1>1. /\ Len(c) \in Nat /\ Len(d) = Len(c) /\ DOMAIN d = 1 .. Len(c)
      /\ IsMachine(m) /\ SSA(m.env, c) /\ Runs(m, c)
  BY SSAFacts DEF Good, SameShape
<1>2. ASSUME NEW n \in 0 .. Len(c) PROVE Names(m.env, d, n) = Names(m.env, c, n)
  <2>1. \A p \in 1 .. n : d[p].op = c[p].op /\ d[p].id = c[p].id
    BY <1>1, <1>2 DEF SameShape
  <2>2. {d[q].id : q \in {r \in 1 .. n : d[r].op # "store"}}
          = {c[q].id : q \in {r \in 1 .. n : c[r].op # "store"}}
    BY <2>1
  <2> QED BY <2>2 DEF Names
<1>3. ASSUME NEW p \in 1 .. Len(c) PROVE Alike(t[p - 1], d[p], t[p - 1], c[p])
  <2>1. d[p] \in Instruction /\ c[p] \in Instruction /\ Len(c[p].args) \in Nat
        /\ Len(c[p].args) >= Arity(c[p].op)
        /\ LET n == ShiftPlace(c[p])
           IN  c[p].op \in MemoryOps \cup {"add"} /\ n <= Len(c[p].args) => IsConst(c[p].args[n])
    BY <1>1, SSAFacts
  <2>2. /\ d[p].op = c[p].op /\ d[p].id = c[p].id /\ d[p].fn = c[p].fn
        /\ Len(d[p].args) = Len(c[p].args)
    BY <1>1 DEF SameShape
  <2>3. ShiftPlace(d[p]) = ShiftPlace(c[p]) /\ ShiftPlace(c[p]) \in {3, 4}
    BY <2>2 DEF ShiftPlace, Place
  <2>4. \A n \in 1 .. Len(c[p].args) :
             /\ IsConst(c[p].args[n]) => d[p].args[n] = c[p].args[n]
             /\ Val(t[p - 1], d[p].args[n]) = Val(t[p - 1], c[p].args[n])
    OBVIOUS
  <2> HIDE DEF t
  <2>5. c[p].op \in MemoryOps \cup {"add"} /\ ShiftPlace(c[p]) <= Len(c[p].args)
          => d[p].args[ShiftPlace(c[p])] = c[p].args[ShiftPlace(c[p])]
    BY <2>1, <2>3, <2>4
  <2> QED BY <2>1, <2>2, <2>3, <2>4, <2>5 DEF Alike
<1>4. ASSUME NEW p \in 1 .. Len(c) PROVE Executed(t[p - 1], d[p]) = Executed(t[p - 1], c[p])
  <2>1. d[p].id = c[p].id
    BY DEF SameShape
  <2> QED BY <1>3, <2>1, SameExecuted
<1>5. \A n \in 0 .. Len(c) : u[n] = t[n]
  <2>1. /\ t[0] = m /\ \A n \in 1 .. Len(c) : t[n] = Executed(t[n - 1], c[n])
        /\ u[0] = m /\ \A n \in 1 .. Len(c) : u[n] = Executed(u[n - 1], d[n])
    BY <1>1, TraceFacts
  <2> HIDE DEF t, u
  <2> DEFINE T == {n \in 0 .. Len(c) : u[n] = t[n]}
  <2>2. 0 \in T
    BY <1>1, <2>1
  <2>3. ASSUME NEW n \in 0 .. Len(c), n \in T, n < Len(c) PROVE n + 1 \in T
    <3>1. n + 1 \in 1 .. Len(c) /\ (n + 1) - 1 = n /\ n + 1 \in 0 .. Len(c)
      BY <1>1, <2>3
    <3>2. u[n + 1] = Executed(u[n], d[n + 1]) /\ t[n + 1] = Executed(t[n], c[n + 1])
          /\ Executed(t[n], d[n + 1]) = Executed(t[n], c[n + 1])
      BY <1>4, <2>1, <3>1
    <3> QED BY <2>3, <3>1, <3>2
  <2> HIDE DEF T
  <2>4. \A n \in 0 .. Len(c) : n \in T
    BY <1>1, <2>2, <2>3, UpTo
  <2> QED BY <2>4 DEF T
<1>6. SSA(m.env, d)
  <2>1. ASSUME NEW p \in 1 .. Len(c)
        PROVE  /\ d[p].id \notin DOMAIN m.env
               /\ \A q \in 1 .. Len(c) : d[q].id = d[p].id => q = p
               /\ Len(d[p].args) >= Arity(d[p].op)
    <3>1. \A q \in 1 .. Len(c) : d[q].id = c[q].id
      BY DEF SameShape
    <3>2. d[p].op = c[p].op /\ Len(d[p].args) = Len(c[p].args)
      BY DEF SameShape
    <3> QED BY <1>1, <3>1, <3>2, SSAFacts
  <2>2. ASSUME NEW p \in 1 .. Len(c), NEW n \in DOMAIN d[p].args
        PROVE  Settled(m.env, d, d[p].args[n], p)
    <3>1. d[p] \in Instruction
      BY <1>1
    <3>2. n \in 1 .. Len(c[p].args)
      BY <3>1, InstructionFacts DEF SameShape
    <3>3. IsConst(d[p].args[n]) \/ d[p].args[n][2] \in Names(m.env, c, p - 1)
      BY <3>2
    <3>4. p - 1 \in 0 .. Len(c)
      BY <1>1
    <3>5. IsConst(d[p].args[n]) \/ d[p].args[n][2] \in Names(m.env, d, p - 1)
      BY <1>2, <3>3, <3>4
    <3> QED BY <3>5 DEF Names, Settled
  <2>3. ASSUME NEW p \in 1 .. Len(c)
        PROVE  /\ d[p].op = "add" /\ Len(d[p].args) > 2 => IsConst(d[p].args[3])
               /\ d[p].op \in MemoryOps /\ Len(d[p].args) > Place(d[p]) + 1
                    => IsConst(d[p].args[Place(d[p]) + 2])
    <3>1. d[p].op = c[p].op /\ Len(d[p].args) = Len(c[p].args) /\ Place(d[p]) = Place(c[p])
          /\ Len(c[p].args) \in Nat /\ Place(c[p]) \in {1, 2}
      BY <1>1, SSAFacts DEF SameShape, Place
    <3>2. LET n == ShiftPlace(c[p])
          IN  c[p].op \in MemoryOps \cup {"add"} /\ n <= Len(c[p].args) => IsConst(c[p].args[n])
      BY <1>1, SSAFacts
    <3>3. CASE c[p].op = "add"
      <4>1. ShiftPlace(c[p]) = 3
        BY <3>3 DEF ShiftPlace
      <4> QED BY <3>1, <3>2, <3>3, <4>1 DEF MemoryOps
    <3>4. CASE c[p].op \in MemoryOps
      <4>1. ShiftPlace(c[p]) = Place(c[p]) + 2 /\ c[p].op # "add"
        BY <3>4 DEF ShiftPlace, MemoryOps
      <4>2. Len(c[p].args) > Place(c[p]) + 1 => IsConst(c[p].args[Place(c[p]) + 2])
        <5>1. Len(c[p].args) > Place(c[p]) + 1 => Place(c[p]) + 2 <= Len(c[p].args)
          BY <3>1
        <5> QED BY <3>2, <3>4, <4>1, <5>1, Zenon
      <4>3. Len(c[p].args) > Place(c[p]) + 1
              => d[p].args[Place(c[p]) + 2] = c[p].args[Place(c[p]) + 2]
        <5>1. Len(c[p].args) > Place(c[p]) + 1 => Place(c[p]) + 2 \in 1 .. Len(c[p].args)
          BY <3>1
        <5> QED BY <4>2, <5>1
      <4> QED BY <3>1, <4>1, <4>2, <4>3
    <3> QED BY <3>1, <3>3, <3>4
  <2> QED BY <1>1, <2>1, <2>2, <2>3 DEF SSA
<1>7. Runs(m, d)
  <2> SUFFICES ASSUME NEW n \in 0 .. Len(c)
               PROVE  /\ \A x \in DOMAIN u[n].env : u[n].env[x] \in Int
                      /\ n < Len(c) =>
                           /\ d[n + 1].op \in MemoryOps
                                => Accessed(u[n], d[n + 1]) \in DOMAIN m.mem
                           /\ d[n + 1].op = "call"
                                => Function[d[n + 1].fn].reads \in DOMAIN m.mem \cup {0}
    BY <1>1 DEF Runs
  <2>1. /\ \A x \in DOMAIN t[n].env : t[n].env[x] \in Int
        /\ n < Len(c) =>
             /\ c[n + 1].op \in MemoryOps => Accessed(t[n], c[n + 1]) \in DOMAIN m.mem
             /\ c[n + 1].op = "call" => Function[c[n + 1].fn].reads \in DOMAIN m.mem \cup {0}
    BY <1>1 DEF Runs
  <2>2. u[n] = t[n]
    BY <1>5
  <2>3. CASE n < Len(c)
    <3>1. n + 1 \in 1 .. Len(c) /\ (n + 1) - 1 = n
      BY <1>1, <2>3
    <3>2. Alike(t[n], d[n + 1], t[n], c[n + 1])
      BY <1>3, <3>1
    <3>3. d[n + 1].op = c[n + 1].op /\ d[n + 1].fn = c[n + 1].fn
      BY <3>1 DEF SameShape
    <3> HIDE DEF t, u
    <3>4. d[n + 1].op \in MemoryOps => Accessed(t[n], d[n + 1]) = Accessed(t[n], c[n + 1])
      BY <3>2, SameAccess
    <3> QED BY <2>1, <2>2, <3>3, <3>4
  <2> HIDE DEF t, u
  <2> QED BY <2>1, <2>2, <2>3
<1> QED BY <1>1, <1>2, <1>5, <1>6, <1>7 DEF Good

\* Block d is c with value v for the q-th instruction: it makes the same states.
Remade(m, c, q, v, d) ==
    /\ Good(m, d) /\ SameShape(c, d)
    /\ \A n \in 0 .. Len(c) : Trace(m, d)[n] = Trace(m, c)[n]
    /\ \A n \in 0 .. Len(c) : Names(m.env, d, n) = Names(m.env, c, n)
    /\ \A p \in 1 .. q : \A n \in 1 .. Len(c[p].args) : d[p].args[n] = c[p].args[n]
    /\ \A p \in 1 .. Len(c) : \A n \in 1 .. Len(c[p].args) :
         /\ d[p].args[n] # V(c[q].id)
         /\ d[p].args[n] \in {v, c[p].args[n]}

\* Where the value of an instruction is replaced by one that is settled and
\* the same, nothing changes but the uses of the instruction, which are gone.
LEMMA Replaced ==
    ASSUME NEW m, NEW c, Good(m, c), NEW q \in 1 .. Len(c), c[q].op # "store",
           NEW v \in OperandType, IsConst(v) \/ v[2] \in Names(m.env, c, q - 1),
           Val(Trace(m, c)[q], v) = Val(Trace(m, c)[q], V(c[q].id))
    PROVE  Remade(m, c, q, v, ReplaceAllUse(c, c[q].id, v))
<1> USE DEF Remade
<1> DEFINE id == c[q].id
           d == ReplaceAllUse(c, id, v)
           t == Trace(m, c)
<1>0. /\ IsMachine(m) /\ SSA(m.env, c) /\ Len(c) \in Nat /\ c \in Seq(Instruction)
  BY SSAFacts DEF Good, SSA
<1>1. /\ d \in Seq(Instruction) /\ Len(d) = Len(c)
      /\ \A p \in 1 .. Len(c) :
           /\ d[p].op = c[p].op /\ d[p].id = c[p].id /\ d[p].fn = c[p].fn
           /\ Len(d[p].args) = Len(c[p].args)
           /\ \A n \in 1 .. Len(c[p].args) :
                d[p].args[n] = IF c[p].args[n] = V(id) THEN v ELSE c[p].args[n]
  BY <1>0, ReplacedFacts
<1>2. V(id)[2] = id /\ ~IsConst(V(id))
  BY DEF V, IsConst
<1>3. \A n \in 0 .. q - 1 : id \notin Names(m.env, c, n)
  <2> SUFFICES ASSUME NEW n \in 0 .. q - 1, id \in Names(m.env, c, n) PROVE FALSE
    OBVIOUS
  <2>1. id \notin DOMAIN m.env /\ \A r \in 1 .. Len(c) : c[r].id = id => r = q
    BY <1>0, SSAFacts
  <2>2. \A r \in 1 .. n : r \in 1 .. Len(c) /\ r # q
    BY <1>0
  <2> QED BY <2>1, <2>2 DEF Names
<1>4. v # V(id)
  BY <1>0, <1>2, <1>3
<1> HIDE DEF d, t
<1>5. ASSUME NEW p \in 1 .. q, NEW n \in 1 .. Len(c[p].args) PROVE c[p].args[n] # V(id)
  <2>1. p \in 1 .. Len(c) /\ p - 1 \in 0 .. q - 1
    BY <1>0
  <2>2. IsConst(c[p].args[n]) \/ c[p].args[n][2] \in Names(m.env, c, p - 1)
    BY <1>0, <2>1, SSAFacts
  <2> QED BY <1>2, <1>3, <2>1, <2>2
<1>6. ASSUME NEW p \in 1 .. Len(c), NEW n \in 1 .. Len(c[p].args)
      PROVE  /\ IsConst(c[p].args[n]) => d[p].args[n] = c[p].args[n]
             /\ IsConst(d[p].args[n]) \/ d[p].args[n][2] \in Names(m.env, c, p - 1)
             /\ Val(t[p - 1], d[p].args[n]) = Val(t[p - 1], c[p].args[n])
  <2>1. d[p].args[n] = IF c[p].args[n] = V(id) THEN v ELSE c[p].args[n]
    BY <1>1
  <2>2. IsConst(c[p].args[n]) \/ c[p].args[n][2] \in Names(m.env, c, p - 1)
    BY <1>0, SSAFacts
  <2>3. CASE c[p].args[n] # V(id)
    BY <2>1, <2>2, <2>3
  <2>4. CASE c[p].args[n] = V(id)
    <3>1. p > q
      BY <1>0, <1>5, <2>4
    <3>2. q \in 0 .. Len(c) /\ p - 1 \in q .. Len(c)
      BY <1>0, <3>1
    <3>3. id \in Names(m.env, c, q)
      BY <1>0 DEF Names
    <3>4. IsConst(v) \/ v[2] \in Names(m.env, c, q)
      <4>1. 1 .. (q - 1) \subseteq 1 .. q
        BY <1>0
      <4> QED BY <4>1 DEF Names
    <3>5. Val(t[p - 1], v) = Val(t[q], v) /\ Val(t[p - 1], V(id)) = Val(t[q], V(id))
      BY <1>0, <1>2, <3>2, <3>3, <3>4, Stable DEF t
    <3>6. IsConst(v) \/ v[2] \in Names(m.env, c, p - 1)
      <4>1. 1 .. q \subseteq 1 .. (p - 1)
        BY <1>0, <3>1
      <4> QED BY <3>4, <4>1 DEF Names
    <3> QED BY <1>2, <2>1, <2>4, <3>5, <3>6 DEF t
  <2> QED BY <2>3, <2>4
<1>7. SameShape(c, d)
  BY <1>1 DEF SameShape
<1>8. /\ Good(m, d)
      /\ \A n \in 0 .. Len(c) : Trace(m, d)[n] = Trace(m, c)[n]
      /\ \A n \in 0 .. Len(c) : Names(m.env, d, n) = Names(m.env, c, n)
  BY <1>1, <1>6, <1>7, SameTrace DEF t
<1>9. \A p \in 1 .. q : p \in 1 .. Len(c)
  BY <1>0
<1>10. \A p \in 1 .. q : \A n \in 1 .. Len(c[p].args) : d[p].args[n] = c[p].args[n]
  BY <1>1, <1>5, <1>9
<1>11. \A p \in 1 .. Len(c) : \A n \in 1 .. Len(c[p].args) :
         d[p].args[n] # V(id) /\ d[p].args[n] \in {v, c[p].args[n]}
  BY <1>1, <1>4
<1> QED BY <1>7, <1>8, <1>10, <1>11 DEF d

-----------------------------------------------------------------------------
(* A block without some of its instructions *)

\* Where an access goes when the block is run.
Acc(m, c, p) == Accessed(Trace(m, c)[p - 1], c[p])

\* No operand of what stays names what goes.
Unneeded(c, ids) ==
    \A p \in 1 .. Len(c) :
      c[p].id \notin ids =>
        \A n \in 1 .. Len(c[p].args) : IsConst(c[p].args[n]) \/ c[p].args[n][2] \notin ids

\* The r-th instruction, if it stays, leaves alone what the p-th has stored.
Quiet(m, c, ids, p, r) ==
    /\ c[r].op = "load" => c[r].id \in ids \/ Acc(m, c, r) # Acc(m, c, p)
    /\ c[r].op = "call" => Function[c[r].fn].writes = 0 /\ Function[c[r].fn].reads # Acc(m, c, p)

\* The q-th instruction stores where the p-th has stored, and none in between
\* could tell.
Kills(m, c, ids, p, q) ==
    /\ q \in p + 1 .. Len(c) /\ c[q].op = "store" /\ Acc(m, c, q) = Acc(m, c, p)
    /\ \A r \in p + 1 .. q - 1 : Quiet(m, c, ids, p, r)

\* What may be deleted.
MayGo(m, c, ids) ==
    \A p \in 1 .. Len(c) :
      c[p].id \in ids =>
        /\ c[p].op = "call" => Function[c[p].fn].writes = 0 /\ ~Function[c[p].fn].io
        /\ c[p].op = "store" => \E q \in 1 .. Len(c) : Kills(m, c, ids, p, q)

\* The names left after n instructions, and the words that differ until a
\* store to come.
Left(env, c, ids, n) ==
    DOMAIN env \cup {c[q].id : q \in {r \in 1 .. n : c[r].op # "store" /\ c[r].id \notin ids}}
Pending(m, c, ids, n, a) ==
    \E p \in 1 .. n : \E q \in n + 1 .. Len(c) :
      c[p].op = "store" /\ Kills(m, c, ids, p, q) /\ a = Acc(m, c, p)

\* A machine r that runs what is left has come as far as the one that runs all.
Follows(m, c, ids, n, r) ==
    /\ IsMachine(r)
    /\ DOMAIN r.mem = DOMAIN m.mem
    /\ r.out = Trace(m, c)[n].out
    /\ DOMAIN r.env = Left(m.env, c, ids, n)
    /\ \A x \in Left(m.env, c, ids, n) : r.env[x] = Trace(m, c)[n].env[x]
    /\ \A a \in DOMAIN m.mem : r.mem[a] = Trace(m, c)[n].mem[a] \/ Pending(m, c, ids, n, a)

\* The ground of both steps.
LEMMA FollowsFacts ==
    ASSUME NEW m, NEW c, NEW ids, Good(m, c), Unneeded(c, ids),
           NEW n \in 0 .. Len(c), n < Len(c), NEW r, Follows(m, c, ids, n, r)
    PROVE  /\ Len(c) \in Nat /\ n + 1 \in 1 .. Len(c) /\ (n + 1) - 1 = n
           /\ c[n + 1] \in Instruction
           /\ IsMachine(Trace(m, c)[n]) /\ DOMAIN Trace(m, c)[n].mem = DOMAIN m.mem
           /\ DOMAIN Trace(m, c)[n].env = Names(m.env, c, n)
           /\ Left(m.env, c, ids, n) \subseteq Names(m.env, c, n)
           /\ c[n + 1].id \notin Names(m.env, c, n)
           /\ Trace(m, c)[n + 1] = Executed(Trace(m, c)[n], c[n + 1])
           /\ c[n + 1].id \notin ids => Alike(r, c[n + 1], Trace(m, c)[n], c[n + 1])
<1> DEFINE t == Trace(m, c)
           i == c[n + 1]
<1>1. /\ IsMachine(m) /\ SSA(m.env, c) /\ Len(c) \in Nat /\ n + 1 \in 1 .. Len(c) /\ (n + 1) - 1 = n
      /\ i \in Instruction
  BY SSAFacts DEF Good
<1>2. IsMachine(t[n]) /\ DOMAIN t[n].mem = DOMAIN m.mem /\ DOMAIN t[n].env = Names(m.env, c, n)
  BY <1>1, RunFacts
<1>3. t[n + 1] = Executed(t[n], i)
  BY <1>1, TraceFacts
<1>4. Left(m.env, c, ids, n) \subseteq Names(m.env, c, n)
  BY DEF Left, Names
<1>5. i.id \notin Names(m.env, c, n)
  <2>1. i.id \notin DOMAIN m.env /\ \A q \in 1 .. Len(c) : c[q].id = i.id => q = n + 1
    BY <1>1, SSAFacts
  <2>2. \A q \in 1 .. n : q \in 1 .. Len(c) /\ q # n + 1
    BY <1>1
  <2> QED BY <2>1, <2>2 DEF Names
<1>6. Len(i.args) \in Nat /\ Len(i.args) >= Arity(i.op)
      /\ \A j \in 1 .. Len(i.args) : IsConst(i.args[j]) \/ i.args[j][2] \in Names(m.env, c, n)
  BY <1>1, SSAFacts
<1>7. ASSUME i.id \notin ids, NEW j \in 1 .. Len(i.args) PROVE Val(r, i.args[j]) = Val(t[n], i.args[j])
  <2>1. CASE IsConst(i.args[j])
    BY <2>1 DEF Val
  <2>2. CASE ~IsConst(i.args[j])
    <3>1. i.args[j][2] \in Names(m.env, c, n) /\ i.args[j][2] \notin ids
      BY <1>1, <1>6, <1>7, <2>2 DEF Unneeded
    <3>2. i.args[j][2] \in Left(m.env, c, ids, n)
      BY <3>1 DEF Left, Names
    <3> QED BY <2>2, <3>2 DEF Val, Follows
  <2> QED BY <2>1, <2>2
<1>8. i.id \notin ids => Alike(r, i, t[n], i)
  BY <1>1, <1>6, <1>7 DEF Alike
<1> QED BY <1>1, <1>2, <1>3, <1>4, <1>5, <1>8

\* A word an instruction that stays can tell is not pending.
LEMMA NotPending ==
    ASSUME NEW m, NEW c, NEW ids, Len(c) \in Nat, NEW n \in 0 .. Len(c), n < Len(c)
    PROVE  /\ c[n + 1].op = "load" /\ c[n + 1].id \notin ids => ~Pending(m, c, ids, n, Acc(m, c, n + 1))
           /\ c[n + 1].op = "call" => ~Pending(m, c, ids, n, Function[c[n + 1].fn].reads)
           /\ \A a : /\ c[n + 1].op = "call" /\ Function[c[n + 1].fn].writes # 0
                            => ~Pending(m, c, ids, n, a)
                     /\ Pending(m, c, ids, n, a) =>
                          \/ Pending(m, c, ids, n + 1, a)
                          \/ c[n + 1].op = "store" /\ a = Acc(m, c, n + 1)
<1>1. ASSUME NEW p \in 1 .. n, NEW q \in n + 1 .. Len(c), c[p].op = "store", Kills(m, c, ids, p, q)
      PROVE  \/ q = n + 1 /\ c[n + 1].op = "store" /\ Acc(m, c, n + 1) = Acc(m, c, p)
             \/ q \in (n + 1) + 1 .. Len(c) /\ p \in 1 .. n + 1 /\ Quiet(m, c, ids, p, n + 1)
  <2>1. CASE q = n + 1
    BY <1>1, <2>1 DEF Kills
  <2>2. CASE q # n + 1
    <3>1. q \in (n + 1) + 1 .. Len(c) /\ p \in 1 .. n + 1 /\ n + 1 \in p + 1 .. q - 1
      BY <2>2
    <3> QED BY <1>1, <3>1 DEF Kills
  <2> QED BY <2>1, <2>2
<1>2. c[n + 1].op = "load" /\ c[n + 1].id \notin ids => ~Pending(m, c, ids, n, Acc(m, c, n + 1))
  BY <1>1 DEF Pending, Quiet
<1>3. c[n + 1].op = "call" => ~Pending(m, c, ids, n, Function[c[n + 1].fn].reads)
  BY <1>1 DEF Pending, Quiet
<1>4. ASSUME NEW a, Pending(m, c, ids, n, a)
      PROVE  /\ c[n + 1].op = "call" => Function[c[n + 1].fn].writes = 0
             /\ \/ Pending(m, c, ids, n + 1, a)
                \/ c[n + 1].op = "store" /\ a = Acc(m, c, n + 1)
  BY <1>1, <1>4 DEF Pending, Quiet
<1> QED BY <1>2, <1>3, <1>4

\* An instruction that stays does the same after the deletion.
LEMMA FollowsKept ==
    ASSUME NEW m, NEW c, NEW ids, Good(m, c), Unneeded(c, ids),
           NEW n \in 0 .. Len(c), n < Len(c), NEW r, Follows(m, c, ids, n, r),
           c[n + 1].id \notin ids
    PROVE  Follows(m, c, ids, n + 1, Executed(r, c[n + 1]))
<1>0. /\ Len(c) \in Nat /\ n + 1 \in 1 .. Len(c) /\ (n + 1) - 1 = n
      /\ c[n + 1] \in Instruction
      /\ IsMachine(Trace(m, c)[n]) /\ DOMAIN Trace(m, c)[n].mem = DOMAIN m.mem
      /\ DOMAIN Trace(m, c)[n].env = Names(m.env, c, n)
      /\ Left(m.env, c, ids, n) \subseteq Names(m.env, c, n)
      /\ c[n + 1].id \notin Names(m.env, c, n)
      /\ Trace(m, c)[n + 1] = Executed(Trace(m, c)[n], c[n + 1])
      /\ c[n + 1].id \notin ids => Alike(r, c[n + 1], Trace(m, c)[n], c[n + 1])
  BY FollowsFacts
<1> DEFINE t == Trace(m, c)
           i == c[n + 1]
           s == Executed(r, i)
           u == Executed(t[n], i)
           w == Function[i.fn].writes
<1>1. /\ Len(c) \in Nat /\ n + 1 \in 1 .. Len(c) /\ (n + 1) - 1 = n
      /\ i \in Instruction
      /\ IsMachine(t[n]) /\ DOMAIN t[n].mem = DOMAIN m.mem
      /\ DOMAIN t[n].env = Names(m.env, c, n)
      /\ Left(m.env, c, ids, n) \subseteq Names(m.env, c, n)
      /\ i.id \notin Names(m.env, c, n)
      /\ t[n + 1] = u
      /\ Alike(r, i, t[n], i)
  BY <1>0
<1>2. /\ IsMachine(r) /\ DOMAIN r.mem = DOMAIN m.mem /\ r.out = t[n].out
      /\ DOMAIN r.env = Left(m.env, c, ids, n)
      /\ \A x \in Left(m.env, c, ids, n) : r.env[x] = t[n].env[x]
      /\ \A a \in DOMAIN m.mem : r.mem[a] = t[n].mem[a] \/ Pending(m, c, ids, n, a)
  BY DEF Follows
<1>3. /\ i.op \in MemoryOps => Accessed(t[n], i) \in DOMAIN m.mem
      /\ i.op = "call" => Function[i.fn].reads \in DOMAIN m.mem \cup {0}
  BY DEF Good, Runs
<1>4. Acc(m, c, n + 1) = Accessed(t[n], i)
  BY <1>1 DEF Acc
<1>5. /\ i.op = "load" => ~Pending(m, c, ids, n, Accessed(t[n], i))
      /\ i.op = "call" => ~Pending(m, c, ids, n, Function[i.fn].reads)
      /\ \A a : /\ i.op = "call" /\ w # 0 => ~Pending(m, c, ids, n, a)
                /\ Pending(m, c, ids, n, a) =>
                     Pending(m, c, ids, n + 1, a) \/ (i.op = "store" /\ a = Accessed(t[n], i))
  BY <1>1, <1>4, NotPending
<1> HIDE DEF t
<1>6. /\ i.op \in MemoryOps => Accessed(r, i) = Accessed(t[n], i)
      /\ i.op \in Others => Result(r, i) = Result(t[n], i)
      /\ i.op = "store" => Val(r, RVal(i)) = Val(t[n], RVal(i))
      /\ CallArgs(r, i) = CallArgs(t[n], i)
  <2> HIDE DEF i
  <2> QED BY <1>1, SameAccess, SameResult, SameOperands
<1>7. /\ IsMachine(s) /\ IsMachine(u)
      /\ s.mem = MemoryAfter(r, i) /\ s.out = OutAfter(r, i)
      /\ u.mem = MemoryAfter(t[n], i) /\ u.out = OutAfter(t[n], i)
      /\ DOMAIN s.mem = DOMAIN m.mem
      /\ i.op = "store" => s.env = r.env /\ u.env = t[n].env
      /\ i.op # "store" =>
           /\ DOMAIN s.env = DOMAIN r.env \cup {i.id}
           /\ s.env[i.id] = ValueOf(r, i) /\ u.env[i.id] = ValueOf(t[n], i)
           /\ \A x \in DOMAIN r.env : x # i.id => s.env[x] = r.env[x]
           /\ \A x \in DOMAIN t[n].env : x # i.id => u.env[x] = t[n].env[x]
  <2> HIDE DEF i
  <2> QED BY <1>1, <1>2, ExecutedFacts
<1>8. Left(m.env, c, ids, n + 1) = IF i.op = "store" THEN Left(m.env, c, ids, n)
                                   ELSE Left(m.env, c, ids, n) \cup {i.id}
  <2>1. 1 .. (n + 1) = (1 .. n) \cup {n + 1}
    BY <1>1
  <2> QED BY <2>1 DEF Left
<1>9. i.op # "store" => ValueOf(r, i) = ValueOf(t[n], i)
  <2>1. CASE i.op = "load"
    <3>1. r.mem[Accessed(t[n], i)] = t[n].mem[Accessed(t[n], i)]
      BY <1>2, <1>3, <1>5, <2>1 DEF MemoryOps
    <3> QED BY <1>6, <2>1, <3>1 DEF ValueOf, MemoryOps
  <2>2. CASE i.op = "call"
    <3>1. Function[i.fn].reads # 0 => r.mem[Function[i.fn].reads] = t[n].mem[Function[i.fn].reads]
      BY <1>2, <1>3, <1>5, <2>2
    <3>2. CallResult(r, i) = CallResult(t[n], i)
      BY <1>2, <1>6, <3>1 DEF CallResult
    <3> QED BY <2>2, <3>2 DEF ValueOf
  <2>3. CASE i.op \notin {"load", "call", "store"}
    <3>1. i.op \in Others
      BY <1>1, <2>3, InstructionFacts DEF Operations, MemoryOps, Others
    <3> QED BY <1>6, <2>3, <3>1 DEF ValueOf
  <2> QED BY <2>1, <2>2, <2>3
<1>10. s.out = u.out
  BY <1>2, <1>6, <1>7 DEF OutAfter
<1>11. ASSUME NEW a \in DOMAIN m.mem PROVE s.mem[a] = u.mem[a] \/ Pending(m, c, ids, n + 1, a)
  <2> HIDE DEF s, u, i
  <2>1. r.mem[a] = t[n].mem[a] \/ Pending(m, c, ids, n, a)
    BY <1>2
  <2>2. CASE i.op = "store"
    <3> DEFINE b == Accessed(t[n], i)
               v == Val(t[n], RVal(i))
    <3>1. s.mem = [r.mem EXCEPT ![b] = v] /\ u.mem = [t[n].mem EXCEPT ![b] = v]
      BY <1>6, <1>7, <2>2 DEF MemoryAfter, MemoryOps
    <3> HIDE DEF b, v
    <3>2. CASE a = b
      BY <1>1, <1>2, <3>1, <3>2
    <3>3. CASE a # b
      <4>1. s.mem[a] = r.mem[a] /\ u.mem[a] = t[n].mem[a]
        BY <1>1, <1>2, <3>1, <3>3
      <4> QED BY <1>5, <2>1, <3>3, <4>1 DEF b
    <3> QED BY <3>2, <3>3
  <2>3. CASE i.op = "call" /\ w # 0
    <3>1. s.mem = [r.mem EXCEPT ![w] = @ + 1] /\ u.mem = [t[n].mem EXCEPT ![w] = @ + 1]
      BY <1>7, <2>3 DEF MemoryAfter
    <3>2. r.mem[a] = t[n].mem[a]
      BY <1>5, <2>1, <2>3
    <3>3. a \in DOMAIN r.mem /\ a \in DOMAIN t[n].mem
      BY <1>1, <1>2
    <3> HIDE DEF w
    <3> QED BY <3>1, <3>2, <3>3
  <2>4. CASE i.op # "store" /\ ~(i.op = "call" /\ w # 0)
    <3>1. s.mem = r.mem
      BY <1>7, <2>4 DEF MemoryAfter
    <3>2. u.mem = t[n].mem
      BY <1>7, <2>4 DEF MemoryAfter
    <3>3. Pending(m, c, ids, n, a) => Pending(m, c, ids, n + 1, a)
      BY <1>5, <2>4
    <3> QED BY <2>1, <3>1, <3>2, <3>3
  <2> QED BY <2>2, <2>3, <2>4
<1>12. ASSUME NEW x \in Left(m.env, c, ids, n + 1) PROVE s.env[x] = u.env[x]
  <2>1. CASE x \in Left(m.env, c, ids, n)
    <3>1. x # i.id /\ x \in DOMAIN r.env /\ x \in DOMAIN t[n].env /\ r.env[x] = t[n].env[x]
      BY <1>1, <1>2, <2>1
    <3> HIDE DEF s, u, i
    <3> QED BY <1>7, <3>1
  <2>2. CASE x \notin Left(m.env, c, ids, n)
    <3>1. i.op # "store" /\ x = i.id
      BY <1>8, <2>2
    <3> QED BY <1>7, <1>9, <3>1
  <2> QED BY <2>1, <2>2
<1>13. DOMAIN s.env = Left(m.env, c, ids, n + 1)
  BY <1>2, <1>7, <1>8
<1> QED BY <1>1, <1>7, <1>10, <1>11, <1>12, <1>13 DEF Follows, t

\* One that goes may leave a word that is pending.
LEMMA FollowsGone ==
    ASSUME NEW m, NEW c, NEW ids, Good(m, c), Unneeded(c, ids), MayGo(m, c, ids),
           NEW n \in 0 .. Len(c), n < Len(c), NEW r, Follows(m, c, ids, n, r),
           c[n + 1].id \in ids
    PROVE  Follows(m, c, ids, n + 1, r)
<1>0. /\ Len(c) \in Nat /\ n + 1 \in 1 .. Len(c) /\ (n + 1) - 1 = n
      /\ c[n + 1] \in Instruction
      /\ IsMachine(Trace(m, c)[n]) /\ DOMAIN Trace(m, c)[n].mem = DOMAIN m.mem
      /\ DOMAIN Trace(m, c)[n].env = Names(m.env, c, n)
      /\ Left(m.env, c, ids, n) \subseteq Names(m.env, c, n)
      /\ c[n + 1].id \notin Names(m.env, c, n)
      /\ Trace(m, c)[n + 1] = Executed(Trace(m, c)[n], c[n + 1])
      /\ c[n + 1].id \notin ids => Alike(r, c[n + 1], Trace(m, c)[n], c[n + 1])
  BY FollowsFacts
<1> DEFINE t == Trace(m, c)
           i == c[n + 1]
           u == Executed(t[n], i)
<1>1. /\ Len(c) \in Nat /\ n + 1 \in 1 .. Len(c) /\ (n + 1) - 1 = n
      /\ i \in Instruction
      /\ IsMachine(t[n]) /\ DOMAIN t[n].mem = DOMAIN m.mem
      /\ DOMAIN t[n].env = Names(m.env, c, n)
      /\ Left(m.env, c, ids, n) \subseteq Names(m.env, c, n)
      /\ i.id \notin Names(m.env, c, n)
      /\ t[n + 1] = u
  BY <1>0
<1>2. /\ IsMachine(r) /\ DOMAIN r.mem = DOMAIN m.mem /\ r.out = t[n].out
      /\ DOMAIN r.env = Left(m.env, c, ids, n)
      /\ \A x \in Left(m.env, c, ids, n) : r.env[x] = t[n].env[x]
      /\ \A a \in DOMAIN m.mem : r.mem[a] = t[n].mem[a] \/ Pending(m, c, ids, n, a)
  BY DEF Follows
<1>3. Acc(m, c, n + 1) = Accessed(t[n], i)
  BY <1>1 DEF Acc
<1>4. \A a : Pending(m, c, ids, n, a) =>
               Pending(m, c, ids, n + 1, a) \/ (i.op = "store" /\ a = Accessed(t[n], i))
  BY <1>1, <1>3, NotPending
<1>5. /\ i.op = "call" => Function[i.fn].writes = 0 /\ ~Function[i.fn].io
      /\ i.op = "store" => \E q \in 1 .. Len(c) : Kills(m, c, ids, n + 1, q)
  BY <1>1 DEF MayGo
<1> HIDE DEF t
<1>6. /\ u.mem = MemoryAfter(t[n], i) /\ u.out = OutAfter(t[n], i)
      /\ i.op = "store" => u.env = t[n].env
      /\ i.op # "store" => \A x \in DOMAIN t[n].env : x # i.id => u.env[x] = t[n].env[x]
  <2> HIDE DEF i
  <2> QED BY <1>1, ExecutedFacts
<1>7. Left(m.env, c, ids, n + 1) = Left(m.env, c, ids, n)
  <2>1. 1 .. (n + 1) = (1 .. n) \cup {n + 1}
    BY <1>1
  <2> QED BY <2>1 DEF Left
<1>8. u.out = t[n].out
  BY <1>5, <1>6 DEF OutAfter
<1>9. ASSUME NEW x \in Left(m.env, c, ids, n) PROVE r.env[x] = u.env[x]
  <2>1. x # i.id /\ x \in DOMAIN t[n].env /\ r.env[x] = t[n].env[x]
    BY <1>1, <1>2
  <2> HIDE DEF u, i
  <2> QED BY <1>6, <2>1
<1>10. ASSUME NEW a \in DOMAIN m.mem PROVE r.mem[a] = u.mem[a] \/ Pending(m, c, ids, n + 1, a)
  <2> HIDE DEF u, i
  <2>1. r.mem[a] = t[n].mem[a] \/ Pending(m, c, ids, n, a)
    BY <1>2
  <2>2. CASE i.op = "store"
    <3> DEFINE b == Accessed(t[n], i)
    <3>1. u.mem = [t[n].mem EXCEPT ![b] = Val(t[n], RVal(i))]
      BY <1>6, <2>2 DEF MemoryAfter
    <3> HIDE DEF b
    <3>2. CASE a = b
      <4>1. PICK q \in 1 .. Len(c) : Kills(m, c, ids, n + 1, q)
        BY <1>5, <2>2
      <4>2. q \in (n + 1) + 1 .. Len(c) /\ n + 1 \in 1 .. n + 1
        BY <1>1, <4>1 DEF Kills
      <4>3. a = Acc(m, c, n + 1)
        BY <1>3, <3>2 DEF b
      <4> QED BY <2>2, <4>1, <4>2, <4>3 DEF Pending, i
    <3>3. CASE a # b
      <4>1. u.mem[a] = t[n].mem[a]
        BY <1>1, <3>1, <3>3
      <4> QED BY <1>4, <2>1, <3>3, <4>1 DEF b
    <3> QED BY <3>2, <3>3
  <2>3. CASE i.op # "store"
    <3>1. u.mem = t[n].mem
      BY <1>5, <1>6, <2>3 DEF MemoryAfter
    <3>2. Pending(m, c, ids, n, a) => Pending(m, c, ids, n + 1, a)
      BY <1>4, <2>3
    <3> QED BY <2>1, <3>1, <3>2
  <2> QED BY <2>2, <2>3
<1> QED BY <1>1, <1>2, <1>7, <1>8, <1>9, <1>10 DEF Follows, t

\* Instruction i may follow block d, which reached machine r: it has a name of
\* its own, the operands its operation needs, each a constant or defined before
\* it, and it runs.
MayFollow(m, d, r, i) ==
    /\ i.id \notin DOMAIN m.env /\ \A p \in 1 .. Len(d) : d[p].id # i.id
    /\ Len(i.args) >= Arity(i.op)
    /\ \A n \in 1 .. Len(i.args) :
         IsConst(i.args[n]) \/ i.args[n][2] \in Names(m.env, d, Len(d))
    /\ i.op \in MemoryOps \cup {"add"} /\ ShiftPlace(i) <= Len(i.args)
         => IsConst(i.args[ShiftPlace(i)])
    /\ i.op \in MemoryOps => Accessed(r, i) \in DOMAIN m.mem
    /\ i.op = "call" => Function[i.fn].reads \in DOMAIN m.mem \cup {0}
    /\ \A x \in DOMAIN Executed(r, i).env : Executed(r, i).env[x] \in Int

\* Then the longer block is in good order and adds the name of i.
Followed(m, d, i) ==
    /\ Good(m, Append(d, i))
    /\ Names(m.env, Append(d, i), Len(d) + 1)
         = Names(m.env, d, Len(d)) \cup (IF i.op = "store" THEN {} ELSE {i.id})

\* A block in good order stays so with one more instruction.
LEMMA GoodAppend ==
    ASSUME NEW m, NEW d, Good(m, d), NEW i \in Instruction, MayFollow(m, d, Run(m, d), i)
    PROVE  Followed(m, d, i)
<1> USE DEF MayFollow, Followed
<1> DEFINE e == Append(d, i)
           L == Len(d)
<1>1. IsMachine(m) /\ SSA(m.env, d) /\ Runs(m, d) /\ L \in Nat /\ d \in Seq(Instruction)
  BY SSAFacts DEF Good, SSA
<1>2. /\ e \in Seq(Instruction) /\ Len(e) = L + 1 /\ e[L + 1] = i
      /\ \A p \in 1 .. L : e[p] = d[p]
      /\ DOMAIN e = 1 .. L + 1
  BY <1>1
<1>3. /\ \A n \in 0 .. L : Trace(m, e)[n] = Trace(m, d)[n]
      /\ Trace(m, e)[L] = Run(m, d)
      /\ Run(m, e) = Executed(Run(m, d), i)
      /\ Run(m, e) = Trace(m, e)[L + 1]
  <2>1. Len(e) \in Nat /\ d \in Seq(Instruction)
    BY <1>1, <1>2
  <2>2. /\ \A n \in 0 .. Len(d) : Trace(m, Append(d, i))[n] = Trace(m, d)[n]
        /\ Trace(m, Append(d, i))[Len(d)] = Run(m, d)
        /\ Run(m, Append(d, i)) = Executed(Run(m, d), i)
    BY <2>1, TraceOfAppend
  <2>3. Run(m, e) = Trace(m, e)[L + 1]
    <3> HIDE DEF e
    <3>1. Run(m, e) = Trace(m, e)[Len(e)]
      BY <2>1, TraceFacts
    <3> QED BY <1>2, <3>1
  <2> QED BY <2>2, <2>3
<1> HIDE DEF e
<1>4. \A n \in 0 .. L : Names(m.env, e, n) = Names(m.env, d, n)
  <2> SUFFICES ASSUME NEW n \in 0 .. L PROVE Names(m.env, e, n) = Names(m.env, d, n)
    OBVIOUS
  <2>1. \A p \in 1 .. n : e[p] = d[p]
    BY <1>1, <1>2
  <2>2. {e[q].id : q \in {r \in 1 .. n : e[r].op # "store"}}
          = {d[q].id : q \in {r \in 1 .. n : d[r].op # "store"}}
    BY <2>1
  <2> QED BY <2>2 DEF Names
<1>5. Names(m.env, e, L + 1) = Names(m.env, d, L) \cup (IF i.op = "store" THEN {} ELSE {i.id})
  <2>1. 1 .. (L + 1) = (1 .. L) \cup {L + 1}
    BY <1>1
  <2>2. Names(m.env, e, L + 1) = Names(m.env, e, L) \cup (IF i.op = "store" THEN {} ELSE {i.id})
    BY <1>2, <2>1 DEF Names
  <2>3. L \in 0 .. L
    BY <1>1
  <2> QED BY <1>4, <2>2, <2>3
<1>6. SSA(m.env, e)
  <2>1. ASSUME NEW p \in 1 .. L + 1
        PROVE  /\ e[p].id \notin DOMAIN m.env
               /\ \A q \in 1 .. L + 1 : e[q].id = e[p].id => q = p
               /\ Len(e[p].args) >= Arity(e[p].op)
    <3>1. \A q \in 1 .. L + 1 : q \in 1 .. L \/ q = L + 1
      BY <1>1
    <3>2. \A q \in 1 .. L : /\ d[q].id \notin DOMAIN m.env
                            /\ \A r \in 1 .. L : d[r].id = d[q].id => r = q
                            /\ Len(d[q].args) >= Arity(d[q].op)
      BY <1>1, SSAFacts
    <3>3. CASE p \in 1 .. L
      BY <1>2, <3>1, <3>2, <3>3
    <3>4. CASE p = L + 1
      BY <1>2, <3>1, <3>4
    <3> QED BY <3>1, <3>3, <3>4
  <2>2. ASSUME NEW p \in 1 .. L + 1, NEW n \in DOMAIN e[p].args
        PROVE  Settled(m.env, e, e[p].args[n], p)
    <3>1. n \in 1 .. Len(e[p].args)
      BY <1>2, InstructionFacts
    <3>2. IsConst(e[p].args[n]) \/ e[p].args[n][2] \in Names(m.env, e, p - 1)
      <4>1. CASE p \in 1 .. L
        <5>1. IsConst(d[p].args[n]) \/ d[p].args[n][2] \in Names(m.env, d, p - 1)
          BY <1>1, <1>2, <3>1, <4>1, SSAFacts
        <5>2. p - 1 \in 0 .. L
          BY <1>1
        <5> QED BY <1>2, <1>4, <4>1, <5>1, <5>2
      <4>2. CASE p = L + 1
        <5>1. L \in 0 .. L /\ p - 1 = L
          BY <1>1, <4>2
        <5> QED BY <1>2, <1>4, <3>1, <4>2, <5>1
      <4> QED BY <1>1, <4>1, <4>2
    <3> QED BY <3>2 DEF Names, Settled
  <2>3. ASSUME NEW p \in 1 .. L + 1
        PROVE  /\ e[p].op = "add" /\ Len(e[p].args) > 2 => IsConst(e[p].args[3])
               /\ e[p].op \in MemoryOps /\ Len(e[p].args) > Place(e[p]) + 1
                    => IsConst(e[p].args[Place(e[p]) + 2])
    <3>1. Len(e[p].args) \in Nat /\ Place(e[p]) \in {1, 2}
      BY <1>2, InstructionFacts DEF Place
    <3>2. e[p].op \in MemoryOps \cup {"add"} /\ ShiftPlace(e[p]) <= Len(e[p].args)
            => IsConst(e[p].args[ShiftPlace(e[p])])
      <4>1. CASE p \in 1 .. L
        <5>1. LET n == ShiftPlace(d[p])
              IN  d[p].op \in MemoryOps \cup {"add"} /\ n <= Len(d[p].args) => IsConst(d[p].args[n])
          BY <1>1, <4>1, SSAFacts
        <5> QED BY <1>2, <4>1, <5>1
      <4>2. CASE p = L + 1
        BY <1>2, <4>2
      <4> QED BY <1>1, <4>1, <4>2
    <3>3. CASE e[p].op = "add"
      <4>1. ShiftPlace(e[p]) = 3
        BY <3>3 DEF ShiftPlace
      <4> QED BY <3>1, <3>2, <3>3, <4>1 DEF MemoryOps
    <3>4. CASE e[p].op \in MemoryOps
      <4>1. ShiftPlace(e[p]) = Place(e[p]) + 2
        BY <3>4 DEF ShiftPlace, MemoryOps
      <4> QED BY <3>1, <3>2, <3>4, <4>1 DEF MemoryOps
    <3> QED BY <3>3, <3>4
  <2> QED BY <1>2, <2>1, <2>2, <2>3 DEF SSA
<1>7. Runs(m, e)
  <2> SUFFICES ASSUME NEW n \in 0 .. L + 1
               PROVE  /\ \A x \in DOMAIN Trace(m, e)[n].env : Trace(m, e)[n].env[x] \in Int
                      /\ n < L + 1 =>
                           /\ e[n + 1].op \in MemoryOps
                                => Accessed(Trace(m, e)[n], e[n + 1]) \in DOMAIN m.mem
                           /\ e[n + 1].op = "call"
                                => Function[e[n + 1].fn].reads \in DOMAIN m.mem \cup {0}
    BY <1>2 DEF Runs
  <2>1. CASE n \in 0 .. L
    <3>1. /\ \A x \in DOMAIN Trace(m, d)[n].env : Trace(m, d)[n].env[x] \in Int
          /\ n < L =>
               /\ d[n + 1].op \in MemoryOps => Accessed(Trace(m, d)[n], d[n + 1]) \in DOMAIN m.mem
               /\ d[n + 1].op = "call" => Function[d[n + 1].fn].reads \in DOMAIN m.mem \cup {0}
      BY <1>1, <2>1 DEF Runs
    <3>2. Trace(m, e)[n] = Trace(m, d)[n]
      BY <1>3, <2>1
    <3>3. CASE n < L
      <4>1. e[n + 1] = d[n + 1]
        BY <1>1, <1>2, <3>3
      <4> QED BY <3>1, <3>2, <3>3, <4>1
    <3>4. CASE n = L
      <4>1. e[n + 1] = i /\ Trace(m, e)[n] = Run(m, d)
        BY <1>2, <1>3, <3>4
      <4> QED BY <3>1, <3>2, <4>1
    <3> QED BY <1>1, <2>1, <3>3, <3>4
  <2>2. CASE n = L + 1
    <3>1. Trace(m, e)[n] = Executed(Run(m, d), i)
      BY <1>3, <2>2
    <3> QED BY <1>1, <2>2, <3>1
  <2> QED BY <1>1, <2>1, <2>2
<1> QED BY <1>1, <1>5, <1>6, <1>7 DEF Good, e

\* What is left of the first n instructions runs as all of them do.
LEMMA KeptRuns ==
    ASSUME NEW m, NEW c, NEW ids, Good(m, c), Unneeded(c, ids), MayGo(m, c, ids)
    PROVE  \A n \in 0 .. Len(c) :
             LET d == Kept(c, ids)[n]
             IN  /\ Good(m, d)
                 /\ Follows(m, c, ids, n, Run(m, d))
                 /\ Names(m.env, d, Len(d)) = Left(m.env, c, ids, n)
                 /\ \A j \in 1 .. Len(d) : \E p \in 1 .. n : d[j] = c[p]
<1> DEFINE K == Kept(c, ids)
           t == Trace(m, c)
           P(n) == /\ Good(m, K[n])
                   /\ Follows(m, c, ids, n, Run(m, K[n]))
                   /\ Names(m.env, K[n], Len(K[n])) = Left(m.env, c, ids, n)
                   /\ \A j \in 1 .. Len(K[n]) : \E p \in 1 .. n : K[n][j] = c[p]
           T == {n \in 0 .. Len(c) : P(n)}
<1>1. IsMachine(m) /\ SSA(m.env, c) /\ Runs(m, c) /\ Len(c) \in Nat
  BY SSAFacts DEF Good
<1>2. /\ K[0] = <<>>
      /\ \A n \in 1 .. Len(c) : K[n] = IF c[n].id \in ids THEN K[n - 1] ELSE Append(K[n - 1], c[n])
  BY <1>1, KeptFacts
<1> HIDE DEF K
<1>3. 0 \in T
  <2>1. Len(<<>>) = 0 /\ <<>> \in Seq(Instruction) /\ DOMAIN <<>> = {}
    OBVIOUS
  <2>2. Run(m, <<>>) = m /\ Trace(m, <<>>)[0] = m /\ t[0] = m
    BY <1>1, <2>1, TraceFacts
  <2>3. SSA(m.env, <<>>)
    BY <2>1 DEF SSA
  <2>4. Runs(m, <<>>)
    <3>1. \A x \in DOMAIN m.env : m.env[x] \in Int
      BY <1>1, <2>2 DEF Runs
    <3> QED BY <2>1, <2>2, <3>1 DEF Runs
  <2>5. Names(m.env, <<>>, 0) = DOMAIN m.env /\ Left(m.env, c, ids, 0) = DOMAIN m.env
    BY DEF Names, Left
  <2>6. Follows(m, c, ids, 0, m)
    BY <1>1, <2>2, <2>5 DEF Follows
  <2> QED BY <1>1, <1>2, <2>1, <2>2, <2>3, <2>4, <2>5, <2>6 DEF Good
<1>4. ASSUME NEW n \in 0 .. Len(c), n \in T, n < Len(c) PROVE n + 1 \in T
  <2> DEFINE d == K[n]
             r == Run(m, K[n])
             i == c[n + 1]
  <2>1. n + 1 \in 0 .. Len(c) /\ n + 1 \in 1 .. Len(c) /\ (n + 1) - 1 = n
    BY <1>1, <1>4
  <2>2. P(n)
    BY <1>4
  <2>3. K[n + 1] = IF i.id \in ids THEN d ELSE Append(d, i)
    BY <1>2, <2>1
  <2>4. 1 .. (n + 1) = (1 .. n) \cup {n + 1}
    BY <2>1
  <2>5. CASE i.id \in ids
    <3>1. Follows(m, c, ids, n + 1, r)
      BY <1>1, <1>4, <2>2, <2>5, FollowsGone
    <3>2. Left(m.env, c, ids, n + 1) = Left(m.env, c, ids, n)
      BY <2>4, <2>5 DEF Left
    <3> QED BY <2>1, <2>2, <2>3, <2>4, <2>5, <3>1, <3>2
  <2>6. CASE i.id \notin ids
    <3>1. Follows(m, c, ids, n + 1, Executed(r, i))
      BY <1>1, <1>4, <2>2, <2>6, FollowsKept
    <3>2. Left(m.env, c, ids, n + 1) = Left(m.env, c, ids, n)
                                          \cup (IF i.op = "store" THEN {} ELSE {i.id})
      BY <2>4, <2>6 DEF Left
    <3>3. /\ i \in Instruction /\ Alike(r, i, t[n], i) /\ t[n + 1] = Executed(t[n], i)
      BY <1>4, <2>2, <2>6, FollowsFacts
    <3>4. /\ i.id \notin DOMAIN m.env
          /\ Len(i.args) >= Arity(i.op)
          /\ i.op \in MemoryOps \cup {"add"} /\ ShiftPlace(i) <= Len(i.args)
               => IsConst(i.args[ShiftPlace(i)])
      BY <1>1, <2>1, SSAFacts
    <3>5. \A p \in 1 .. Len(d) : d[p].id # i.id
      <4> SUFFICES ASSUME NEW p \in 1 .. Len(d) PROVE d[p].id # i.id
        OBVIOUS
      <4>1. PICK q \in 1 .. n : d[p] = c[q]
        BY <2>2
      <4>2. q \in 1 .. Len(c) /\ q # n + 1
        BY <1>1, <2>1
      <4> QED BY <1>1, <2>1, <4>1, <4>2, SSAFacts
    <3>6. \A j \in 1 .. Len(i.args) :
            IsConst(i.args[j]) \/ i.args[j][2] \in Names(m.env, d, Len(d))
      <4> SUFFICES ASSUME NEW j \in 1 .. Len(i.args), ~IsConst(i.args[j])
                   PROVE  i.args[j][2] \in Left(m.env, c, ids, n)
        BY <2>2
      <4>1. i.args[j][2] \in Names(m.env, c, n)
        BY <1>1, <2>1, SSAFacts
      <4>2. i.args[j][2] \notin ids
        BY <2>1, <2>6 DEF Unneeded
      <4> QED BY <4>1, <4>2 DEF Left, Names
    <3>7. /\ i.op \in MemoryOps => Accessed(r, i) \in DOMAIN m.mem
          /\ i.op = "call" => Function[i.fn].reads \in DOMAIN m.mem \cup {0}
      <4>1. /\ i.op \in MemoryOps => Accessed(t[n], i) \in DOMAIN m.mem
            /\ i.op = "call" => Function[i.fn].reads \in DOMAIN m.mem \cup {0}
        BY <1>1, <1>4 DEF Runs
      <4> HIDE DEF i, r, t
      <4>2. i.op \in MemoryOps => Accessed(r, i) = Accessed(t[n], i)
        BY <3>3, SameAccess
      <4> QED BY <4>1, <4>2
    <3>8. \A x \in DOMAIN Executed(r, i).env : Executed(r, i).env[x] \in Int
      <4>1. \A x \in DOMAIN t[n + 1].env : t[n + 1].env[x] \in Int
        BY <1>1, <2>1 DEF Runs
      <4>2. DOMAIN t[n + 1].env = Names(m.env, c, n + 1)
        BY <1>1, <2>1, RunFacts
      <4>3. DOMAIN Executed(r, i).env = Left(m.env, c, ids, n + 1)
            /\ \A x \in Left(m.env, c, ids, n + 1) : Executed(r, i).env[x] = t[n + 1].env[x]
        BY <3>1 DEF Follows
      <4>4. Left(m.env, c, ids, n + 1) \subseteq Names(m.env, c, n + 1)
        BY DEF Left, Names
      <4> QED BY <4>1, <4>2, <4>3, <4>4
    <3>9. /\ Good(m, Append(d, i))
          /\ Names(m.env, Append(d, i), Len(d) + 1)
               = Names(m.env, d, Len(d)) \cup (IF i.op = "store" THEN {} ELSE {i.id})
      <4>1. Good(m, d) /\ r = Run(m, d)
        BY <2>2
      <4> HIDE DEF d, i, r
      <4>2. MayFollow(m, d, r, i)
        BY <3>4, <3>5, <3>6, <3>7, <3>8 DEF MayFollow
      <4>3. i \in Instruction /\ MayFollow(m, d, Run(m, d), i)
        BY <3>3, <4>1, <4>2
      <4>4. Followed(m, d, i)
        BY <4>1, <4>3, GoodAppend
      <4> QED BY <4>4 DEF Followed
    <3>10. /\ d \in Seq(Instruction) /\ Len(Append(d, i)) = Len(d) + 1 /\ Len(d) \in Nat
           /\ \A j \in 1 .. Len(d) : Append(d, i)[j] = d[j]
           /\ Append(d, i)[Len(d) + 1] = i
      <4>1. d \in Seq(Instruction)
        BY <2>2 DEF Good, SSA
      <4> HIDE DEF d
      <4> QED BY <3>3, <4>1
    <3>11. Run(m, Append(d, i)) = Executed(r, i)
      <4>1. r = Run(m, d)
        OBVIOUS
      <4> HIDE DEF d, i, r
      <4> QED BY <3>3, <3>10, <4>1, TraceOfAppend
    <3>12. \A j \in 1 .. Len(Append(d, i)) : \E p \in 1 .. n + 1 : Append(d, i)[j] = c[p]
      <4> SUFFICES ASSUME NEW j \in 1 .. Len(d) + 1 PROVE \E p \in 1 .. n + 1 : Append(d, i)[j] = c[p]
        BY <3>10
      <4>1. CASE j \in 1 .. Len(d)
        <5>1. PICK p \in 1 .. n : d[j] = c[p]
          BY <2>2, <4>1
        <5> QED BY <2>4, <3>10, <4>1, <5>1
      <4>2. CASE j = Len(d) + 1
        BY <2>4, <3>10, <4>2
      <4> QED BY <3>10, <4>1, <4>2
    <3>13. K[n + 1] = Append(d, i)
      BY <2>3, <2>6
    <3> HIDE DEF d, i, r
    <3>14. P(n + 1)
      BY <2>2, <3>1, <3>2, <3>9, <3>10, <3>11, <3>12, <3>13 DEF d
    <3> QED BY <2>1, <3>14
  <2> QED BY <2>5, <2>6
<1> HIDE DEF T
<1>5. \A n \in 0 .. Len(c) : n \in T
  BY <1>1, <1>3, <1>4, UpTo
<1> QED BY <1>5 DEF T, K

\* What goes leaves no trace outside.
LEMMA DeletedFacts ==
    ASSUME NEW m, NEW c, NEW ids, Good(m, c), Unneeded(c, ids), MayGo(m, c, ids)
    PROVE  /\ Good(m, Deleted(c, ids))
           /\ Outcome(m, Deleted(c, ids)) = Outcome(m, c)
<1> DEFINE d == Deleted(c, ids)
           r == Run(m, d)
           t == Trace(m, c)[Len(c)]
<1>1. IsMachine(m) /\ SSA(m.env, c) /\ Len(c) \in Nat /\ Len(c) \in 0 .. Len(c)
  BY SSAFacts DEF Good
<1>2. d = Kept(c, ids)[Len(c)]
  BY <1>1, KeptFacts
<1>3. Good(m, d) /\ Follows(m, c, ids, Len(c), r)
  <2> DEFINE K(n) == Kept(c, ids)[n]
  <2>1. \A n \in 0 .. Len(c) : Good(m, K(n)) /\ Follows(m, c, ids, n, Run(m, K(n)))
    BY KeptRuns
  <2> HIDE DEF d
  <2> QED BY <1>1, <1>2, <2>1
<1>4. Run(m, c) = t /\ IsMachine(t) /\ DOMAIN t.mem = DOMAIN m.mem
  BY <1>1, TraceFacts, RunFacts
<1>5. \A a : ~Pending(m, c, ids, Len(c), a)
  BY <1>1 DEF Pending
<1> HIDE DEF d, r, t
<1>6. IsMachine(r) /\ DOMAIN r.mem = DOMAIN m.mem /\ r.out = t.out
      /\ \A a \in DOMAIN m.mem : r.mem[a] = t.mem[a]
  BY <1>3, <1>5 DEF Follows, t
<1>7. r.mem = t.mem
  BY <1>4, <1>6 DEF IsMachine
<1>8. Outcome(m, d) = [mem |-> r.mem, out |-> r.out] /\ Outcome(m, c) = [mem |-> t.mem, out |-> t.out]
  BY <1>4 DEF Outcome, r
<1> QED BY <1>3, <1>6, <1>7, <1>8 DEF d

-----------------------------------------------------------------------------
(* A pass that scans a block *)

\* No operand names one of the values.
Unused(c, ids) ==
    \A p \in 1 .. Len(c) : \A n \in 1 .. Len(c[p].args) :
      IsConst(c[p].args[n]) \/ c[p].args[n][2] \notin ids

\* Where the scan has come to the n-th instruction, what is to be deleted is not
\* used any more, and has been met.
Scanned(m, c, n, ids) ==
    /\ Good(m, c)
    /\ n \in 1 .. Len(c) + 1
    /\ Unused(c, ids)
    /\ \A p \in n .. Len(c) : c[p].id \notin ids

\* The instructions up to one are the same in both blocks.
SameUpTo(c, d, n) == SameShape(c, d) /\ \A p \in 1 .. n : d[p] = c[p]

\* A scan has gone on to block d: value v stands for the n-th instruction.
Replaces(m, c, n, ids, v, d) ==
    /\ Scanned(m, d, n + 1, ids \cup {c[n].id})
    /\ SameUpTo(c, d, n)
    /\ \A j \in 0 .. Len(c) : Trace(m, d)[j] = Trace(m, c)[j]
    /\ \A p \in 1 .. Len(c) : \A j \in 1 .. Len(c[p].args) :
         c[p].args[j] # V(c[n].id) => d[p].args[j] = c[p].args[j]

\* Where the passes replace a value by one of equal value that comes earlier, and
\* note the instruction that makes it.
LEMMA Merged ==
    ASSUME NEW m, NEW c, NEW n, NEW ids, Scanned(m, c, n, ids), n <= Len(c), c[n].op # "store",
           NEW v \in OperandType,
           IsConst(v) \/ (v[2] \in Names(m.env, c, n - 1) /\ v[2] \notin ids),
           Val(Trace(m, c)[n], v) = Val(Trace(m, c)[n], V(c[n].id))
    PROVE  Replaces(m, c, n, ids, v, ReplaceAllUse(c, c[n].id, v))
<1> DEFINE d == ReplaceAllUse(c, c[n].id, v)
<1>1. /\ Good(m, c) /\ IsMachine(m) /\ SSA(m.env, c) /\ Len(c) \in Nat /\ n \in 1 .. Len(c)
      /\ c \in Seq(Instruction)
  BY SSAFacts DEF Scanned, Good, SSA
<1>2. /\ Good(m, d) /\ SameShape(c, d)
      /\ \A j \in 0 .. Len(c) : Trace(m, d)[j] = Trace(m, c)[j]
      /\ \A p \in 1 .. n : \A j \in 1 .. Len(c[p].args) : d[p].args[j] = c[p].args[j]
      /\ \A p \in 1 .. Len(c) : \A j \in 1 .. Len(c[p].args) :
           /\ d[p].args[j] # V(c[n].id)
           /\ d[p].args[j] \in {v, c[p].args[j]}
  <2>1. Remade(m, c, n, v, d)
    BY <1>1, Replaced
  <2> QED BY <2>1 DEF Remade
<1>3. \A p \in 1 .. Len(c) : \A j \in 1 .. Len(c[p].args) :
        c[p].args[j] # V(c[n].id) => d[p].args[j] = c[p].args[j]
  <2>1. LET e == ReplaceAllUse(c, c[n].id, v)
        IN  /\ e \in Seq(Instruction) /\ Len(e) = Len(c)
            /\ \A p \in 1 .. Len(c) :
                 /\ e[p].op = c[p].op /\ e[p].id = c[p].id /\ e[p].fn = c[p].fn
                 /\ Len(e[p].args) = Len(c[p].args)
                 /\ \A j \in 1 .. Len(c[p].args) :
                      e[p].args[j] = IF c[p].args[j] = V(c[n].id) THEN v ELSE c[p].args[j]
    BY <1>1, ReplacedFacts
  <2> QED BY <2>1
<1> HIDE DEF d
<1>4. SSA(m.env, d) /\ d \in Seq(Instruction) /\ Len(d) = Len(c)
  BY <1>1, <1>2, SSAFacts DEF Good, SSA, SameShape
<1>5. \A p \in 1 .. n : d[p] = c[p]
  <2> SUFFICES ASSUME NEW p \in 1 .. n PROVE d[p] = c[p]
    OBVIOUS
  <2>1. p \in 1 .. Len(c) /\ c[p] \in Instruction /\ d[p] \in Instruction
    BY <1>1, <1>4
  <2>2. d[p].op = c[p].op /\ d[p].id = c[p].id /\ d[p].fn = c[p].fn /\ Len(d[p].args) = Len(c[p].args)
    BY <1>2, <2>1 DEF SameShape
  <2>3. c[p].args \in Seq(OperandType) /\ d[p].args \in Seq(OperandType)
    BY <2>1 DEF Instruction
  <2>4. \A j \in 1 .. Len(c[p].args) : d[p].args[j] = c[p].args[j]
    BY <1>2
  <2>5. d[p].args = c[p].args
    <3> DEFINE a == c[p].args
               b == d[p].args
    <3> HIDE DEF a, b
    <3>1. /\ a \in Seq(OperandType) /\ b \in Seq(OperandType) /\ Len(b) = Len(a)
          /\ \A j \in 1 .. Len(a) : b[j] = a[j]
      BY <2>2, <2>3, <2>4 DEF a, b
    <3>2. b = a
      BY <3>1
    <3> QED BY <3>2 DEF a, b
  <2> QED BY <2>1, <2>2, <2>5 DEF Instruction
<1>6. \A p \in 1 .. Len(c) : c[p].id = c[n].id => p = n
  BY <1>1, SSAFacts
<1>7. Unused(d, ids \cup {c[n].id})
  <2> SUFFICES ASSUME NEW p \in 1 .. Len(c), NEW j \in 1 .. Len(c[p].args), ~IsConst(d[p].args[j])
               PROVE  d[p].args[j][2] \notin ids \cup {c[n].id}
    BY <1>2, <1>4 DEF Unused, SameShape
  <2>1. d[p] \in Instruction /\ j \in DOMAIN d[p].args
    BY <1>2, <1>4, InstructionFacts DEF SameShape
  <2>2. d[p].args[j] = V(d[p].args[j][2])
    BY <2>1, InstructionFacts
  <2>3. d[p].args[j][2] # c[n].id
    BY <1>2, <2>2
  <2>4. CASE d[p].args[j] = v
    BY <2>3, <2>4
  <2>5. CASE d[p].args[j] = c[p].args[j]
    BY <2>3, <2>5 DEF Scanned, Unused
  <2> QED BY <1>2, <2>4, <2>5
<1>8. \A p \in n + 1 .. Len(d) : d[p].id \notin ids \cup {c[n].id}
  <2> SUFFICES ASSUME NEW p \in n + 1 .. Len(c) PROVE d[p].id \notin ids \cup {c[n].id}
    BY <1>4
  <2>1. p \in n .. Len(c) /\ p \in 1 .. Len(c) /\ p # n
    BY <1>1
  <2> QED BY <1>2, <1>6, <2>1 DEF Scanned, SameShape
<1>9. Scanned(m, d, n + 1, ids \cup {c[n].id})
  BY <1>1, <1>2, <1>4, <1>7, <1>8 DEF Scanned
<1> QED BY <1>2, <1>3, <1>5, <1>9 DEF d, SameUpTo, Replaces

\* Where they leave an instruction alone.
LEMMA Passed ==
    ASSUME NEW m, NEW c, NEW n, NEW ids, Scanned(m, c, n, ids), n <= Len(c)
    PROVE  Scanned(m, c, n + 1, ids)
<1>1. Len(c) \in Nat /\ n \in 1 .. Len(c) /\ n + 1 \in 1 .. Len(c) + 1
      /\ \A p \in n + 1 .. Len(c) : p \in n .. Len(c)
  BY SSAFacts DEF Scanned, Good
<1> QED BY <1>1 DEF Scanned

\* The end of the scan.
LEMMA ScanEnds ==
    ASSUME NEW m, NEW c, NEW n, NEW ids, Scanned(m, c, n, ids), MayGo(m, c, ids)
    PROVE  /\ Good(m, Deleted(c, ids))
           /\ Outcome(m, Deleted(c, ids)) = Outcome(m, c)
<1>1. Unneeded(c, ids)
  BY DEF Scanned, Unused, Unneeded
<1> QED BY <1>1, DeletedFacts DEF Scanned

-----------------------------------------------------------------------------
(* BBCommonSubExper *)

ExprAt(i) == i.op \in Binary /\ Len(i.args) = 2
ExprKeyOf(i) == IF i.op = "gep" \/ IsConst(i.args[2])
                THEN <<i.op, i.args[1], CSE!ByValue(i.args[2])>>
                ELSE <<i.op, CSE!ByValue(i.args[1]), i.args[2]>>
LoadKeyOf(i) == [ptr |-> LVal(i), off |-> Offset(i), shift |-> Shift(i)]
CallKeyOf(i) == <<i.fn, [n \in DOMAIN i.args |-> CSE!ByValue(i.args[n])]>>

\* What the pass calls by the instruction at hand.
LEMMA CSENames ==
    /\ CSE!inst = code[k]
    /\ CSE!IsExpr <=> ExprAt(code[k])
    /\ CSE!ExprKey = ExprKeyOf(code[k])
    /\ CSE!LoadKey = LoadKeyOf(code[k])
    /\ CSE!CallKey = CallKeyOf(code[k])
    /\ CSE!LVal(code[k]) = LVal(code[k])
    /\ \A id, v : CSE!ReplaceAllUse(code, id, v) = ReplaceAllUse(code, id, v)
    /\ CSE!V(code[k].id) = V(code[k].id)
    /\ \A m : CSE!Assumed(m) =>
         (k <= Len(code) =>
           /\ code[k].op = "store" => CSE!Apart(m, Accessed(m, code[k]))
           /\ code[k].op = "call" =>
                /\ Function[code[k].fn].writes # 0 => CSE!Apart(m, Function[code[k].fn].writes)
                /\ CSE!Eliminatable(code[k].fn)
                     => Function[code[k].fn].writes = 0 /\ ~Function[code[k].fn].io)
    /\ \A m, word : CSE!Apart(m, word) =>
         \A q \in 1 .. k - 1 :
           /\ code[q].op = "call" /\ CSE!Eliminatable(code[q].fn)
                => Function[code[q].fn].reads # word
           /\ code[q].op = "load" =>
                \/ Accessed(m, code[q]) # word
                \/ code[k].op = "store" /\ LVal(code[q]) = LVal(code[k])
<1>1. CSE!NoOperand = NoOperand
  BY Zenon DEF CSE!NoOperand, NoOperand
<1>2. \A i : /\ CSE!Place(i) = Place(i) /\ CSE!LVal(i) = LVal(i) /\ CSE!Offset(i) = Offset(i)
             /\ CSE!Shift(i) = Shift(i)
  BY <1>1 DEF CSE!Place, Place, CSE!LVal, LVal, CSE!Offset, Offset, CSE!Shift, Shift,
              CSE!Operand, Operand, CSE!IntOf, IntOf
<1>3. \A m, v : CSE!Val(m, v) = Val(m, v)
  BY DEF CSE!Val, Val, CSE!IntOf, IntOf, CSE!IsConst, IsConst
<1>4. \A m, p, o, s : CSE!Address(m, p, o, s) = Address(m, p, o, s)
  BY <1>1, <1>3 DEF CSE!Address, Address
<1>5. \A m, i : CSE!Accessed(m, i) = Accessed(m, i)
  BY <1>2, <1>4 DEF CSE!Accessed, Accessed
<1>6. /\ CSE!inst = code[k]
      /\ CSE!IsExpr <=> ExprAt(code[k])
      /\ CSE!ExprKey = ExprKeyOf(code[k])
      /\ CSE!CallKey = CallKeyOf(code[k])
      /\ CSE!V(code[k].id) = V(code[k].id)
  BY DEF CSE!inst, CSE!IsExpr, ExprAt, Binary, CSE!ExprKey, ExprKeyOf, CSE!CallKey, CallKeyOf,
         CSE!IsConst, IsConst, CSE!V, V
<1>7. CSE!LoadKey = LoadKeyOf(code[k])
  BY <1>2, <1>6 DEF CSE!LoadKey, LoadKeyOf
<1>8. \A id, v : CSE!ReplaceAllUse(code, id, v) = ReplaceAllUse(code, id, v)
  BY DEF CSE!ReplaceAllUse, ReplaceAllUse, CSE!V, V
<1>9. \A m : CSE!Assumed(m) =>
        (k <= Len(code) =>
          /\ code[k].op = "store" => CSE!Apart(m, Accessed(m, code[k]))
          /\ code[k].op = "call" =>
               /\ Function[code[k].fn].writes # 0 => CSE!Apart(m, Function[code[k].fn].writes)
               /\ CSE!Eliminatable(code[k].fn)
                    => Function[code[k].fn].writes = 0 /\ ~Function[code[k].fn].io)
  BY <1>5, <1>6 DEF CSE!Assumed
<1>10. \A m, word : CSE!Apart(m, word) =>
         \A q \in 1 .. k - 1 :
           /\ code[q].op = "call" /\ CSE!Eliminatable(code[q].fn)
                => Function[code[q].fn].reads # word
           /\ code[q].op = "load" =>
                \/ Accessed(m, code[q]) # word
                \/ code[k].op = "store" /\ LVal(code[q]) = LVal(code[k])
  BY <1>2, <1>5, <1>6 DEF CSE!Apart
<1> QED BY <1>2, <1>6, <1>7, <1>8, <1>9, <1>10

\* An operand of an instruction has the same value later on.
LEMMA LaterAlike ==
    ASSUME NEW m, NEW c, Good(m, c), NEW e \in 1 .. Len(c), NEW b \in e - 1 .. Len(c)
    PROVE  /\ Alike(Trace(m, c)[e - 1], c[e], Trace(m, c)[b], c[e])
           /\ c[e].op \in MemoryOps => Accessed(Trace(m, c)[b], c[e]) = Acc(m, c, e)
<1> DEFINE i == c[e]
           t == Trace(m, c)[e - 1]
           u == Trace(m, c)[b]
<1>1. IsMachine(m) /\ SSA(m.env, c) /\ Len(c) \in Nat /\ e - 1 \in 0 .. Len(c)
  BY SSAFacts DEF Good
<1>2. /\ i \in Instruction
      /\ Len(i.args) \in Nat /\ Len(i.args) >= Arity(i.op)
      /\ \A n \in 1 .. Len(i.args) : IsConst(i.args[n]) \/ i.args[n][2] \in Names(m.env, c, e - 1)
  BY <1>1, SSAFacts
<1>3. \A n \in 1 .. Len(i.args) : Val(t, i.args[n]) = Val(u, i.args[n])
  BY <1>1, <1>2, Stable
<1> HIDE DEF i, t, u
<1>4. Alike(t, i, u, i)
  BY <1>2, <1>3 DEF Alike
<1>5. i.op \in MemoryOps => Accessed(t, i) = Accessed(u, i)
  BY <1>4, SameAccess
<1> QED BY <1>4, <1>5 DEF i, t, u, Acc

\* What an instruction gives its name.
LEMMA ValueMade ==
    ASSUME NEW m, NEW c, Good(m, c), NEW p \in 1 .. Len(c), c[p].op # "store"
    PROVE  /\ Trace(m, c)[p].env[c[p].id] = ValueOf(Trace(m, c)[p - 1], c[p])
           /\ Val(Trace(m, c)[p], V(c[p].id)) = ValueOf(Trace(m, c)[p - 1], c[p])
           /\ ValueOf(Trace(m, c)[p - 1], c[p]) \in Int
<1> DEFINE t == Trace(m, c)
<1>1. IsMachine(m) /\ SSA(m.env, c) /\ Len(c) \in Nat /\ p \in 0 .. Len(c) /\ p - 1 \in 0 .. Len(c)
  BY SSAFacts DEF Good
<1>2. t[p] = Executed(t[p - 1], c[p]) /\ IsMachine(t[p - 1]) /\ c[p] \in Instruction
  BY <1>1, TraceFacts, RunFacts, SSAFacts
<1>3. \A x \in DOMAIN t[p].env : t[p].env[x] \in Int
  BY <1>1 DEF Good, Runs
<1> HIDE DEF t
<1>4. t[p].env[c[p].id] = ValueOf(t[p - 1], c[p]) /\ c[p].id \in DOMAIN t[p].env
  BY <1>2, ExecutedFacts
<1>5. ~IsConst(V(c[p].id)) /\ V(c[p].id)[2] = c[p].id
  BY DEF IsConst, V
<1>6. Val(t[p], V(c[p].id)) = t[p].env[c[p].id]
  BY <1>5 DEF Val
<1>7. t[p].env[c[p].id] \in Int
  BY <1>3, <1>4
<1> QED BY <1>4, <1>6, <1>7 DEF t

\* The value of instruction e is known before the n-th and is the same.
Serves(m, c, n, e) ==
    /\ c[e].id \in Names(m.env, c, n - 1)
    /\ V(c[e].id) \in OperandType
    /\ ~IsConst(V(c[e].id)) /\ V(c[e].id)[2] = c[e].id
    /\ Val(Trace(m, c)[n], V(c[e].id)) = Val(Trace(m, c)[n], V(c[n].id))

\* Instructions that make the same value can stand for each other.
LEMMA SameValue ==
    ASSUME NEW m, NEW c, Good(m, c), NEW n \in 1 .. Len(c), NEW e \in 1 .. n - 1,
           c[e].op # "store", c[n].op # "store",
           ValueOf(Trace(m, c)[e - 1], c[e]) = ValueOf(Trace(m, c)[n - 1], c[n])
    PROVE  Serves(m, c, n, e)
<1> DEFINE t == Trace(m, c)
<1>1. IsMachine(m) /\ SSA(m.env, c) /\ Len(c) \in Nat /\ e \in 1 .. Len(c)
      /\ e \in 0 .. Len(c) /\ n \in e .. Len(c) /\ e \in 1 .. e
  BY SSAFacts DEF Good
<1>2. \A p \in 1 .. Len(c) : c[p].op # "store" =>
        t[p].env[c[p].id] = ValueOf(t[p - 1], c[p])
  BY ValueMade
<1>3. \A x : ~IsConst(V(x)) /\ V(x)[2] = x
  BY DEF IsConst, V
<1>4. \A w, x : Val(w, V(x)) = w.env[x]
  BY <1>3 DEF Val
<1>5. c[e].id \in Names(m.env, c, e) /\ c[e].id \in Names(m.env, c, n - 1)
  <2>1. e \in 1 .. n - 1
    OBVIOUS
  <2> QED BY <1>1, <2>1 DEF Names
<1>6. Val(t[n], V(c[e].id)) = Val(t[e], V(c[e].id))
  BY <1>1, <1>3, <1>5, Stable
<1>7. Val(t[e], V(c[e].id)) = Val(t[n], V(c[n].id))
  BY <1>1, <1>2, <1>4
<1>8. V(c[e].id) \in OperandType
  <2>1. c[e].id \in STRING
    BY <1>1, SSAFacts DEF Instruction
  <2> QED BY <2>1 DEF V, OperandType
<1> QED BY <1>3, <1>5, <1>6, <1>7, <1>8 DEF Serves

\* A constant has its number for its value, whatever object it is.
LEMMA ByValueFacts ==
    \A m, v : Val(m, CSE!ByValue(v)) = Val(m, v)
<1> SUFFICES ASSUME NEW m, NEW v PROVE Val(m, CSE!ByValue(v)) = Val(m, v)
  OBVIOUS
<1>1. \A o, n : IsConst(C(o, n)) /\ IntOf(C(o, n)) = n
  BY DEF C, IsConst, IntOf
<1>2. CASE IsConst(v)
  <2>1. CSE!ByValue(v) = C("", IntOf(v))
    BY <1>2, Zenon DEF CSE!ByValue, CSE!IsConst, IsConst, CSE!C, C, CSE!IntOf, IntOf
  <2> QED BY <1>1, <1>2, <2>1, Zenon DEF Val
<1>3. CASE ~IsConst(v)
  <2>1. CSE!ByValue(v) = v
    BY <1>3, Zenon DEF CSE!ByValue, CSE!IsConst, IsConst
  <2> QED BY <2>1
<1> QED BY <1>2, <1>3

\* Expressions with one key have one value.
LEMMA SameExpr ==
    ASSUME NEW m, NEW i \in Instruction, NEW j \in Instruction, ExprAt(i), ExprAt(j),
           ExprKeyOf(i) = ExprKeyOf(j)
    PROVE  Result(m, i) = Result(m, j)
<1>1. \A l \in Instruction : ExprAt(l) =>
        /\ ExprKeyOf(l)[1] = l.op
        /\ Val(m, ExprKeyOf(l)[2]) = Val(m, l.args[1])
        /\ Val(m, ExprKeyOf(l)[3]) = Val(m, l.args[2])
        /\ DOMAIN l.args = 1 .. 2
  <2> SUFFICES ASSUME NEW l \in Instruction, ExprAt(l)
               PROVE  /\ ExprKeyOf(l)[1] = l.op
                      /\ Val(m, ExprKeyOf(l)[2]) = Val(m, l.args[1])
                      /\ Val(m, ExprKeyOf(l)[3]) = Val(m, l.args[2])
                      /\ DOMAIN l.args = 1 .. 2
    OBVIOUS
  <2>1. DOMAIN l.args = 1 .. 2
    BY InstructionFacts DEF ExprAt
  <2>2. \A x, y, z : <<x, y, z>>[1] = x /\ <<x, y, z>>[2] = y /\ <<x, y, z>>[3] = z
    OBVIOUS
  <2>3. CASE l.op = "gep" \/ IsConst(l.args[2])
    BY <2>1, <2>2, <2>3, ByValueFacts DEF ExprKeyOf
  <2>4. CASE ~(l.op = "gep" \/ IsConst(l.args[2]))
    BY <2>1, <2>2, <2>4, ByValueFacts DEF ExprKeyOf
  <2> QED BY <2>3, <2>4
<1>2. /\ i.op = j.op
      /\ Val(m, i.args[1]) = Val(m, j.args[1])
      /\ Val(m, i.args[2]) = Val(m, j.args[2])
      /\ Operand(i, 3) = Operand(j, 3)
      /\ i.op \in Binary
  BY <1>1 DEF ExprAt, Operand
<1> QED BY <1>2 DEF Result, Binary

\* Calls with one key have one value where the function finds the same.
LEMMA SameCall ==
    ASSUME NEW m, NEW i \in Instruction, NEW j \in Instruction, CallKeyOf(i) = CallKeyOf(j)
    PROVE  i.fn = j.fn /\ CallArgs(m, i) = CallArgs(m, j)
<1> DEFINE A(l) == [n \in DOMAIN l.args |-> CSE!ByValue(l.args[n])]
<1>1. i.fn = j.fn /\ A(i) = A(j)
  BY DEF CallKeyOf
<1>2. DOMAIN i.args = DOMAIN j.args
  <2>1. DOMAIN A(i) = DOMAIN i.args /\ DOMAIN A(j) = DOMAIN j.args
    OBVIOUS
  <2> QED BY <1>1, <2>1
<1>3. ASSUME NEW n \in DOMAIN i.args PROVE Val(m, i.args[n]) = Val(m, j.args[n])
  <2>1. A(i)[n] = CSE!ByValue(i.args[n]) /\ A(j)[n] = CSE!ByValue(j.args[n])
    BY <1>2
  <2> HIDE DEF A
  <2>2. CSE!ByValue(i.args[n]) = CSE!ByValue(j.args[n])
    BY <1>1, <2>1
  <2> QED BY <2>2, ByValueFacts
<1> QED BY <1>1, <1>2, <1>3 DEF CallArgs

\* One step of a scan, which may have put another block in the place of the one
\* it found.
Stepped(m, c, n, ids, d, ids2) ==
    /\ Scanned(m, c, n, ids) /\ n <= Len(c)
    /\ Scanned(m, d, n + 1, ids2)
    /\ SameUpTo(c, d, n)
    /\ \A j \in 0 .. Len(c) : Trace(m, d)[j] = Trace(m, c)[j]
    /\ ids2 \in {ids, ids \cup {c[n].id}}

\* What a scan has met stays as it is.
LEMMA SteppedFacts ==
    ASSUME NEW m, NEW c, NEW n, NEW ids, NEW d, NEW ids2, Stepped(m, c, n, ids, d, ids2)
    PROVE  /\ Good(m, c) /\ Good(m, d) /\ Len(c) \in Nat /\ Len(d) = Len(c) /\ n \in 1 .. Len(c)
           /\ (n + 1) - 1 = n /\ n - 1 \in 0 .. Len(c) /\ n \in 0 .. Len(c)
           /\ \A e \in 1 .. n :
                /\ e \in 1 .. (n + 1) - 1 /\ e \in 1 .. Len(c) /\ e - 1 \in 0 .. Len(c)
                /\ d[e] = c[e]
                /\ Acc(m, d, e) = Acc(m, c, e)
                /\ c[e].id \in ids2 => c[e].id \in ids \/ e = n
           /\ Trace(m, c)[n] = Executed(Trace(m, c)[n - 1], c[n])
           /\ IsMachine(Trace(m, c)[n - 1]) /\ c[n] \in Instruction
           /\ DOMAIN Trace(m, c)[n - 1].mem = DOMAIN m.mem
           /\ Trace(m, c)[n].mem = MemoryAfter(Trace(m, c)[n - 1], c[n])
           /\ Trace(m, d)[n] = Trace(m, c)[n] /\ Trace(m, d)[n - 1] = Trace(m, c)[n - 1]
<1>1. /\ Good(m, c) /\ Good(m, d) /\ IsMachine(m) /\ SSA(m.env, c) /\ Len(c) \in Nat
      /\ Len(d) = Len(c) /\ n \in 1 .. Len(c)
      /\ (n + 1) - 1 = n /\ n - 1 \in 0 .. Len(c) /\ n \in 0 .. Len(c)
  BY SSAFacts DEF Stepped, Scanned, Good, SameUpTo, SameShape
<1>2. \A e \in 1 .. n : /\ e \in 1 .. (n + 1) - 1 /\ e \in 1 .. Len(c) /\ e - 1 \in 0 .. Len(c)
                        /\ d[e] = c[e] /\ Trace(m, d)[e - 1] = Trace(m, c)[e - 1]
  BY <1>1 DEF Stepped, SameUpTo
<1>3. \A e \in 1 .. n : c[e].id \in ids2 => c[e].id \in ids \/ e = n
  <2>1. \A e \in 1 .. Len(c) : c[e].id = c[n].id => e = n
    BY <1>1, SSAFacts
  <2> QED BY <1>2, <2>1 DEF Stepped
<1>4. Trace(m, c)[n] = Executed(Trace(m, c)[n - 1], c[n])
  BY <1>1, TraceFacts
<1>5. IsMachine(Trace(m, c)[n - 1]) /\ c[n] \in Instruction
      /\ DOMAIN Trace(m, c)[n - 1].mem = DOMAIN m.mem
  BY <1>1, RunFacts, SSAFacts
<1>6. Trace(m, c)[n].mem = MemoryAfter(Trace(m, c)[n - 1], c[n])
  <2> DEFINE t == Trace(m, c)
  <2> HIDE DEF t
  <2>1. Executed(t[n - 1], c[n]).mem = MemoryAfter(t[n - 1], c[n])
    BY <1>5, ExecutedFacts DEF t
  <2> QED BY <1>4, <2>1 DEF t
<1>7. Trace(m, d)[n] = Trace(m, c)[n] /\ Trace(m, d)[n - 1] = Trace(m, c)[n - 1]
  BY <1>1 DEF Stepped
<1> QED BY <1>1, <1>2, <1>3, <1>4, <1>5, <1>6, <1>7 DEF Acc

\* The expressions, loads and calls the pass remembers are in the block, and a
\* load or call would give the same value now.
ExprsKnown(m, c, n, ids, t) ==
    \A key \in DOMAIN t : \E e \in 1 .. n - 1 :
      /\ t[key] = V(c[e].id) /\ c[e].id \notin ids
      /\ ExprAt(c[e]) /\ key = ExprKeyOf(c[e])
LoadsKnown(m, c, n, ids, t) ==
    \A key \in DOMAIN t : \E e \in 1 .. n - 1 :
      /\ t[key] = V(c[e].id) /\ c[e].id \notin ids
      /\ c[e].op = "load" /\ key = LoadKeyOf(c[e])
      /\ Trace(m, c)[n - 1].mem[Acc(m, c, e)] = Trace(m, c)[e - 1].mem[Acc(m, c, e)]
CallEntry(m, c, n, ids, e, v, key) ==
    /\ v = V(c[e].id) /\ c[e].id \notin ids
    /\ c[e].op = "call" /\ CSE!Eliminatable(c[e].fn) /\ key = CallKeyOf(c[e])
    /\ Function[c[e].fn].writes = 0 /\ ~Function[c[e].fn].io
    /\ LET w == Function[c[e].fn].reads
       IN  w # 0 => Trace(m, c)[n - 1].mem[w] = Trace(m, c)[e - 1].mem[w]
CallsKnown(m, c, n, ids, t) ==
    \A key \in DOMAIN t : \E e \in 1 .. n - 1 : CallEntry(m, c, n, ids, e, t[key], key)

\* What is to be deleted has no effect but its value.
Harmless(c, ids) ==
    \A p \in 1 .. Len(c) :
      c[p].id \in ids =>
        /\ c[p].op # "store"
        /\ c[p].op = "call" => Function[c[p].fn].writes = 0 /\ ~Function[c[p].fn].io

\* What is to be deleted stays harmless.
LEMMA HarmlessKept ==
    ASSUME NEW m, NEW c, NEW n, NEW ids, NEW d, NEW ids2, Stepped(m, c, n, ids, d, ids2),
           Harmless(c, ids),
           c[n].id \in ids2 =>
             /\ c[n].op # "store"
             /\ c[n].op = "call" => Function[c[n].fn].writes = 0 /\ ~Function[c[n].fn].io
    PROVE  Harmless(d, ids2)
<1> SUFFICES ASSUME NEW p \in 1 .. Len(d), d[p].id \in ids2
             PROVE  /\ d[p].op # "store"
                    /\ d[p].op = "call" => Function[d[p].fn].writes = 0 /\ ~Function[d[p].fn].io
  BY DEF Harmless
<1>1. Len(d) = Len(c) /\ d[p].id = c[p].id /\ d[p].op = c[p].op /\ d[p].fn = c[p].fn
  BY SteppedFacts DEF Stepped, SameUpTo, SameShape
<1>2. c[p].id \in ids \/ c[p].id = c[n].id
  BY <1>1 DEF Stepped
<1>3. c[p].id = c[n].id => p = n
  <2>1. SSA(m.env, c) /\ n \in 1 .. Len(c)
    BY SteppedFacts DEF Good
  <2> QED BY <1>1, <2>1, SSAFacts
<1> QED BY <1>1, <1>2, <1>3 DEF Harmless

\* The tables after a step that drops entries at most.
LEMMA TablesKept ==
    ASSUME NEW m, NEW c, NEW n, NEW ids, NEW d, NEW ids2, Stepped(m, c, n, ids, d, ids2),
           NEW t, NEW u, DOMAIN u \subseteq DOMAIN t, \A key \in DOMAIN u : u[key] = t[key]
    PROVE  /\ ExprsKnown(m, c, n, ids, t) => ExprsKnown(m, d, n + 1, ids2, u)
           /\ /\ LoadsKnown(m, c, n, ids, t)
              /\ \A e \in 1 .. n - 1 :
                   c[e].op = "load" /\ LoadKeyOf(c[e]) \in DOMAIN u =>
                     Trace(m, c)[n].mem[Acc(m, c, e)] = Trace(m, c)[n - 1].mem[Acc(m, c, e)]
              => LoadsKnown(m, d, n + 1, ids2, u)
           /\ /\ CallsKnown(m, c, n, ids, t)
              /\ \A e \in 1 .. n - 1 :
                   c[e].op = "call" /\ CSE!Eliminatable(c[e].fn) =>
                     LET w == Function[c[e].fn].reads
                     IN  w # 0 => Trace(m, c)[n].mem[w] = Trace(m, c)[n - 1].mem[w]
              => CallsKnown(m, d, n + 1, ids2, u)
<1>1. /\ Len(c) \in Nat /\ n \in 1 .. Len(c) /\ (n + 1) - 1 = n
      /\ \A e \in 1 .. n : /\ e \in 1 .. (n + 1) - 1 /\ e - 1 \in 0 .. Len(c)
                           /\ d[e] = c[e] /\ Acc(m, d, e) = Acc(m, c, e)
                           /\ c[e].id \in ids2 => c[e].id \in ids \/ e = n
      /\ Trace(m, d)[n] = Trace(m, c)[n]
  <2>1. /\ Len(c) \in Nat /\ n \in 1 .. Len(c) /\ (n + 1) - 1 = n
        /\ Trace(m, d)[n] = Trace(m, c)[n]
    BY SteppedFacts
  <2>2. ASSUME NEW e \in 1 .. n
        PROVE  /\ e \in 1 .. (n + 1) - 1 /\ e - 1 \in 0 .. Len(c)
               /\ d[e] = c[e] /\ Acc(m, d, e) = Acc(m, c, e)
               /\ c[e].id \in ids2 => c[e].id \in ids \/ e = n
    BY SteppedFacts
  <2> QED BY <2>1, <2>2
<1>2. \A e \in 1 .. n - 1 : e \in 1 .. n /\ e # n /\ Trace(m, d)[e - 1] = Trace(m, c)[e - 1]
  BY <1>1 DEF Stepped
<1>3. ExprsKnown(m, c, n, ids, t) => ExprsKnown(m, d, n + 1, ids2, u)
  BY <1>1, <1>2 DEF ExprsKnown
<1>4. ASSUME LoadsKnown(m, c, n, ids, t),
             \A e \in 1 .. n - 1 :
               c[e].op = "load" /\ LoadKeyOf(c[e]) \in DOMAIN u =>
                 Trace(m, c)[n].mem[Acc(m, c, e)] = Trace(m, c)[n - 1].mem[Acc(m, c, e)]
      PROVE  LoadsKnown(m, d, n + 1, ids2, u)
  BY <1>1, <1>2, <1>4 DEF LoadsKnown
<1>5. ASSUME CallsKnown(m, c, n, ids, t),
             \A e \in 1 .. n - 1 :
               c[e].op = "call" /\ CSE!Eliminatable(c[e].fn) =>
                 LET w == Function[c[e].fn].reads
                 IN  w # 0 => Trace(m, c)[n].mem[w] = Trace(m, c)[n - 1].mem[w]
      PROVE  CallsKnown(m, d, n + 1, ids2, u)
  <2>1. ASSUME NEW e \in 1 .. n - 1, NEW v, NEW key, CallEntry(m, c, n, ids, e, v, key)
        PROVE  e \in 1 .. (n + 1) - 1 /\ CallEntry(m, d, n + 1, ids2, e, v, key)
    <3> DEFINE w == Function[c[e].fn].reads
    <3>1. /\ e \in 1 .. n /\ d[e] = c[e] /\ c[e].id \notin ids2
          /\ Trace(m, d)[e - 1] = Trace(m, c)[e - 1]
      BY <1>1, <1>2, <2>1 DEF CallEntry
    <3>2. w # 0 => Trace(m, d)[(n + 1) - 1].mem[w] = Trace(m, c)[n - 1].mem[w]
      <4>1. w # 0 => Trace(m, c)[n].mem[w] = Trace(m, c)[n - 1].mem[w]
        BY <1>5, <2>1 DEF CallEntry
      <4>2. Trace(m, d)[(n + 1) - 1] = Trace(m, c)[n]
        BY <1>1
      <4> HIDE DEF w
      <4> QED BY <4>1, <4>2
    <3>3. w # 0 => Trace(m, d)[(n + 1) - 1].mem[w] = Trace(m, d)[e - 1].mem[w]
      BY <2>1, <3>1, <3>2 DEF CallEntry
    <3>4. e \in 1 .. (n + 1) - 1
      BY <1>1, <3>1
    <3> QED BY <2>1, <3>1, <3>3, <3>4 DEF CallEntry
  <2> QED BY <1>5, <2>1 DEF CallsKnown
<1> QED BY <1>3, <1>4, <1>5

\* What BBCommonSubExper knows at the n-th instruction.
CSEKnown(m, c, n, ids, x, l, a) ==
    /\ Scanned(m, c, n, ids)
    /\ ExprsKnown(m, c, n, ids, x)
    /\ LoadsKnown(m, c, n, ids, l)
    /\ CallsKnown(m, c, n, ids, a)
    /\ Harmless(c, ids)

\* It still does after a step that remembers no more.
LEMMA CSEKept ==
    ASSUME NEW m, NEW c, NEW n, NEW ids, NEW d, NEW ids2, Stepped(m, c, n, ids, d, ids2),
           NEW x, NEW l, NEW a, CSEKnown(m, c, n, ids, x, l, a),
           NEW u, DOMAIN u \subseteq DOMAIN l, \A key \in DOMAIN u : u[key] = l[key],
           \A e \in 1 .. n - 1 :
             c[e].op = "load" /\ LoadKeyOf(c[e]) \in DOMAIN u =>
               Trace(m, c)[n].mem[Acc(m, c, e)] = Trace(m, c)[n - 1].mem[Acc(m, c, e)],
           \A e \in 1 .. n - 1 :
             c[e].op = "call" /\ CSE!Eliminatable(c[e].fn) =>
               LET w == Function[c[e].fn].reads
               IN  w # 0 => Trace(m, c)[n].mem[w] = Trace(m, c)[n - 1].mem[w],
           c[n].id \in ids2 =>
             /\ c[n].op # "store"
             /\ c[n].op = "call" => Function[c[n].fn].writes = 0 /\ ~Function[c[n].fn].io
    PROVE  CSEKnown(m, d, n + 1, ids2, x, u, a)
<1>1. Scanned(m, d, n + 1, ids2)
  BY DEF Stepped
<1>2. ExprsKnown(m, d, n + 1, ids2, x)
  BY TablesKept DEF CSEKnown
<1>3. LoadsKnown(m, d, n + 1, ids2, u)
  BY TablesKept DEF CSEKnown
<1>4. CallsKnown(m, d, n + 1, ids2, a)
  BY TablesKept DEF CSEKnown
<1>5. Harmless(d, ids2)
  BY HarmlessKept DEF CSEKnown
<1> QED BY <1>1, <1>2, <1>3, <1>4, <1>5 DEF CSEKnown

\* A step that writes no memory.
LEMMA CSEQuiet ==
    ASSUME NEW m, NEW c, NEW n, NEW ids, NEW d, NEW ids2, Stepped(m, c, n, ids, d, ids2),
           NEW x, NEW l, NEW a, CSEKnown(m, c, n, ids, x, l, a),
           c[n].op # "store",
           c[n].op = "call" => Function[c[n].fn].writes = 0 /\ (~Function[c[n].fn].io \/ ids2 = ids)
    PROVE  /\ CSEKnown(m, d, n + 1, ids2, x, l, a)
           /\ Trace(m, c)[n].mem = Trace(m, c)[n - 1].mem
<1>1. Trace(m, c)[n].mem = Trace(m, c)[n - 1].mem
  <2>1. Trace(m, c)[n].mem = MemoryAfter(Trace(m, c)[n - 1], c[n])
    BY SteppedFacts
  <2> QED BY <2>1 DEF MemoryAfter
<1>2. c[n].id \in ids2 =>
        (c[n].op = "call" => Function[c[n].fn].writes = 0 /\ ~Function[c[n].fn].io)
  <2>1. c[n].id \notin ids
    BY SteppedFacts DEF Stepped, Scanned
  <2> QED BY <2>1
<1> QED BY <1>1, <1>2, CSEKept

\* The first occurrence takes the place of another.
LEMMA CSEMerge ==
    ASSUME NEW m, NEW c, NEW n, NEW ids, NEW x, NEW l, NEW a, CSEKnown(m, c, n, ids, x, l, a),
           n <= Len(c), NEW e \in 1 .. n - 1, c[e].id \notin ids, c[e].op # "store", c[n].op # "store",
           c[n].op = "call" => Function[c[n].fn].writes = 0 /\ ~Function[c[n].fn].io,
           ValueOf(Trace(m, c)[e - 1], c[e]) = ValueOf(Trace(m, c)[n - 1], c[n])
    PROVE  LET d == ReplaceAllUse(c, c[n].id, V(c[e].id))
               ids2 == ids \cup {c[n].id}
           IN  /\ Stepped(m, c, n, ids, d, ids2)
               /\ CSEKnown(m, d, n + 1, ids2, x, l, a)
<1> DEFINE v == V(c[e].id)
           d == ReplaceAllUse(c, c[n].id, v)
           ids2 == ids \cup {c[n].id}
<1>1. Scanned(m, c, n, ids) /\ Good(m, c) /\ n \in 1 .. Len(c)
  BY SSAFacts DEF CSEKnown, Scanned, Good
<1>2. /\ c[e].id \in Names(m.env, c, n - 1) /\ v \in OperandType /\ v[2] = c[e].id
      /\ Val(Trace(m, c)[n], v) = Val(Trace(m, c)[n], V(c[n].id))
  <2>1. Serves(m, c, n, e)
    BY <1>1, SameValue
  <2> QED BY <2>1 DEF Serves
<1> HIDE DEF v
<1>3. /\ Scanned(m, d, n + 1, ids2) /\ SameUpTo(c, d, n)
      /\ \A j \in 0 .. Len(c) : Trace(m, d)[j] = Trace(m, c)[j]
  <2>1. v[2] \in Names(m.env, c, n - 1) /\ v[2] \notin ids
    BY <1>2
  <2>2. Replaces(m, c, n, ids, v, ReplaceAllUse(c, c[n].id, v))
    BY <1>1, <1>2, <2>1, Merged
  <2> QED BY <2>2 DEF Replaces
<1>4. Stepped(m, c, n, ids, d, ids2)
  BY <1>1, <1>3 DEF Stepped
<1> HIDE DEF d, ids2
<1>5. CSEKnown(m, d, n + 1, ids2, x, l, a)
  BY <1>4, CSEQuiet
<1> QED BY <1>4, <1>5 DEF d, ids2, v

\* The table entries an instruction that has not been met makes.
LEMMA TablesAdded ==
    ASSUME NEW m, NEW c, NEW n, NEW ids, Stepped(m, c, n, ids, c, ids),
           Trace(m, c)[n].mem = Trace(m, c)[n - 1].mem,
           NEW t, NEW key
    PROVE  LET u == CSE!With(t, key, V(c[n].id))
           IN  /\ ExprsKnown(m, c, n + 1, ids, t) /\ ExprAt(c[n]) /\ key = ExprKeyOf(c[n])
                    => ExprsKnown(m, c, n + 1, ids, u)
               /\ LoadsKnown(m, c, n + 1, ids, t) /\ c[n].op = "load" /\ key = LoadKeyOf(c[n])
                    => LoadsKnown(m, c, n + 1, ids, u)
               /\ (/\ CallsKnown(m, c, n + 1, ids, t) /\ c[n].op = "call" /\ key = CallKeyOf(c[n])
                   /\ CSE!Eliminatable(c[n].fn)
                   /\ Function[c[n].fn].writes = 0 /\ ~Function[c[n].fn].io)
                    => CallsKnown(m, c, n + 1, ids, u)
<1> DEFINE u == CSE!With(t, key, V(c[n].id))
<1>1. /\ DOMAIN u = DOMAIN t \cup {key} /\ u[key] = V(c[n].id)
      /\ \A y \in DOMAIN t : y # key => u[y] = t[y]
  BY DEF CSE!With
<1> HIDE DEF u
<1>2. n \in 1 .. (n + 1) - 1 /\ (n + 1) - 1 = n /\ c[n].id \notin ids
  BY SteppedFacts DEF Stepped, Scanned
<1>3. ExprsKnown(m, c, n + 1, ids, t) /\ ExprAt(c[n]) /\ key = ExprKeyOf(c[n])
        => ExprsKnown(m, c, n + 1, ids, u)
  BY <1>1, <1>2 DEF ExprsKnown
<1>4. LoadsKnown(m, c, n + 1, ids, t) /\ c[n].op = "load" /\ key = LoadKeyOf(c[n])
        => LoadsKnown(m, c, n + 1, ids, u)
  BY <1>1, <1>2 DEF LoadsKnown
<1>5. (/\ CallsKnown(m, c, n + 1, ids, t) /\ c[n].op = "call" /\ key = CallKeyOf(c[n])
       /\ CSE!Eliminatable(c[n].fn)
       /\ Function[c[n].fn].writes = 0 /\ ~Function[c[n].fn].io)
        => CallsKnown(m, c, n + 1, ids, u)
  <2> SUFFICES ASSUME CallsKnown(m, c, n + 1, ids, t), c[n].op = "call", key = CallKeyOf(c[n]),
                      CSE!Eliminatable(c[n].fn),
                      Function[c[n].fn].writes = 0 /\ ~Function[c[n].fn].io,
                      NEW y \in DOMAIN u
               PROVE  \E e \in 1 .. (n + 1) - 1 : CallEntry(m, c, n + 1, ids, e, u[y], y)
    BY DEF CallsKnown
  <2>1. CASE y = key
    <3>1. Trace(m, c)[(n + 1) - 1].mem = Trace(m, c)[n - 1].mem
      BY <1>2
    <3>2. CallEntry(m, c, n + 1, ids, n, V(c[n].id), key)
      BY <1>2, <3>1 DEF CallEntry
    <3> QED BY <1>1, <1>2, <2>1, <3>2
  <2>2. CASE y # key
    BY <1>1, <2>2 DEF CallsKnown
  <2> QED BY <2>1, <2>2
<1> QED BY <1>3, <1>4, <1>5 DEF u

\* A step that leaves the block alone.
LEMMA Stays ==
    ASSUME NEW m, NEW c, NEW n, NEW ids, Scanned(m, c, n, ids), n <= Len(c)
    PROVE  Stepped(m, c, n, ids, c, ids)
<1>1. Scanned(m, c, n + 1, ids)
  BY Passed
<1> QED BY <1>1 DEF Stepped, SameUpTo, SameShape

CSEInv == CSEKnown(start, code, k, wait_delete, exprs, load_val, call_val)

\* An expression.
LEMMA CSEExpr ==
    ASSUME CSEInv, k <= Len(code), CSE!ExprStep
    PROVE  /\ Stepped(start, code, k, wait_delete, code', wait_delete')
           /\ CSEKnown(start, code', k + 1, wait_delete', exprs', load_val', call_val')
<1> USE DEF CSEInv
<1> DEFINE i == code[k]
           t == Trace(start, code)
<1>1. /\ ExprAt(i) /\ i.op # "store" /\ i.op # "call" /\ i.op # "load"
      /\ CSE!ExprKey = ExprKeyOf(i)
  BY CSENames DEF CSE!ExprStep, ExprAt, Binary
<1>2. Stepped(start, code, k, wait_delete, code, wait_delete)
  BY Stays DEF CSEKnown
<1>3. /\ Good(start, code) /\ Len(code) \in Nat /\ k \in 1 .. Len(code) /\ i \in Instruction
      /\ \A e \in 1 .. k : e \in 1 .. Len(code)
  BY <1>2, SteppedFacts
<1>4. CASE CSE!ExprKey \in DOMAIN exprs /\ CSE!Merge(exprs[CSE!ExprKey])
  <2>1. PICK e \in 1 .. k - 1 : /\ exprs[CSE!ExprKey] = V(code[e].id) /\ code[e].id \notin wait_delete
                                /\ ExprAt(code[e]) /\ CSE!ExprKey = ExprKeyOf(code[e])
    BY <1>4 DEF CSEKnown, ExprsKnown
  <2>2. e \in 1 .. Len(code) /\ k - 1 \in e - 1 .. Len(code) /\ e - 1 \in 0 .. Len(code)
        /\ code[e] \in Instruction
    <3>1. SSA(start.env, code)
      BY <1>3 DEF Good
    <3> QED BY <1>3, <3>1, SSAFacts
  <2>3. code[e].op \in Others /\ code[e].op \notin {"store", "load", "call"}
    BY <2>1 DEF ExprAt, Binary, Others
  <2>4. Result(t[k - 1], code[e]) = Result(t[k - 1], i)
    BY <1>1, <1>3, <2>1, <2>2, SameExpr
  <2>5. Result(t[e - 1], code[e]) = Result(t[k - 1], code[e])
    <3>1. Alike(t[e - 1], code[e], t[k - 1], code[e])
      BY <1>3, <2>2, LaterAlike
    <3> QED BY <2>3, <3>1, SameResult
  <2>6. ValueOf(t[e - 1], code[e]) = ValueOf(t[k - 1], i)
    BY <1>1, <2>3, <2>4, <2>5 DEF ValueOf
  <2>7. LET d == ReplaceAllUse(code, code[k].id, V(code[e].id))
            ids2 == wait_delete \cup {code[k].id}
        IN  /\ Stepped(start, code, k, wait_delete, d, ids2)
            /\ CSEKnown(start, d, k + 1, ids2, exprs, load_val, call_val)
    BY <1>1, <2>1, <2>3, <2>6, CSEMerge
  <2>8. /\ code' = ReplaceAllUse(code, code[k].id, V(code[e].id))
        /\ wait_delete' = wait_delete \cup {code[k].id}
        /\ exprs' = exprs /\ load_val' = load_val /\ call_val' = call_val
    BY <1>4, <2>1, CSENames DEF CSE!Merge, CSE!tables
  <2> QED BY <2>7, <2>8
<1>5. CASE /\ CSE!ExprKey \notin DOMAIN exprs
           /\ exprs' = CSE!With(exprs, CSE!ExprKey, CSE!V(CSE!inst.id))
           /\ CSE!Enter
           /\ UNCHANGED <<load_val, call_val>>
  <2>1. code' = code /\ wait_delete' = wait_delete /\ load_val' = load_val /\ call_val' = call_val
        /\ exprs' = CSE!With(exprs, ExprKeyOf(i), V(i.id))
    BY <1>1, <1>5, CSENames DEF CSE!Enter
  <2>2. /\ CSEKnown(start, code, k + 1, wait_delete, exprs, load_val, call_val)
        /\ t[k].mem = t[k - 1].mem
    BY <1>1, <1>2, CSEQuiet
  <2>3. ExprsKnown(start, code, k + 1, wait_delete, CSE!With(exprs, ExprKeyOf(i), V(i.id)))
    BY <1>1, <1>2, <2>2, TablesAdded DEF CSEKnown
  <2>4. CSEKnown(start, code, k + 1, wait_delete, CSE!With(exprs, ExprKeyOf(i), V(i.id)),
                 load_val, call_val)
    BY <2>2, <2>3 DEF CSEKnown
  <2> HIDE DEF i
  <2> QED BY <1>2, <2>1, <2>4
<1> QED BY <1>4, <1>5 DEF CSE!ExprStep

\* What memory holds elsewhere.
LEMMA Elsewhere ==
    ASSUME NEW m, NEW c, NEW n, NEW ids, NEW d, NEW ids2, Stepped(m, c, n, ids, d, ids2),
           NEW a, a \in DOMAIN m.mem
    PROVE  Trace(m, c)[n].mem[a] =
             IF c[n].op = "store" /\ a = Acc(m, c, n) THEN Val(Trace(m, c)[n - 1], RVal(c[n]))
             ELSE IF c[n].op = "call" /\ a = Function[c[n].fn].writes /\ a # 0
             THEN Trace(m, c)[n - 1].mem[a] + 1
             ELSE Trace(m, c)[n - 1].mem[a]
<1> DEFINE i == c[n]
           t == Trace(m, c)
           w == Function[i.fn].writes
           b == Accessed(t[n - 1], i)
           v == Val(t[n - 1], RVal(i))
<1>1. t[n].mem = MemoryAfter(t[n - 1], i) /\ DOMAIN t[n - 1].mem = DOMAIN m.mem
  BY SteppedFacts
<1>2. Acc(m, c, n) = b
  BY DEF Acc
<1>3. CASE i.op = "store"
  <2>1. t[n].mem = [t[n - 1].mem EXCEPT ![b] = v]
    BY <1>1, <1>3 DEF MemoryAfter
  <2> HIDE DEF b, v, t
  <2>2. t[n].mem[a] = IF a = b THEN v ELSE t[n - 1].mem[a]
    BY <1>1, <2>1
  <2> QED BY <1>2, <1>3, <2>2 DEF t, b, v
<1>4. CASE i.op = "call" /\ w # 0
  <2>1. t[n].mem = [t[n - 1].mem EXCEPT ![w] = @ + 1]
    BY <1>1, <1>4 DEF MemoryAfter
  <2> HIDE DEF w, t
  <2>2. t[n].mem[a] = IF a = w THEN t[n - 1].mem[a] + 1 ELSE t[n - 1].mem[a]
    BY <1>1, <2>1
  <2> QED BY <1>4, <2>2 DEF t, w
<1>5. CASE i.op # "store" /\ ~(i.op = "call" /\ w # 0)
  <2>1. t[n].mem = t[n - 1].mem
    BY <1>1, <1>5 DEF MemoryAfter
  <2> QED BY <1>5, <2>1
<1> QED BY <1>3, <1>4, <1>5

\* What a block accesses is memory.
LEMMA InMemory ==
    ASSUME NEW m, NEW c, Good(m, c), NEW e \in 1 .. Len(c)
    PROVE  /\ c[e].op \in MemoryOps => Acc(m, c, e) \in DOMAIN m.mem
           /\ c[e].op = "call" /\ Function[c[e].fn].reads # 0
                => Function[c[e].fn].reads \in DOMAIN m.mem
<1>1. Len(c) \in Nat /\ e - 1 \in 0 .. Len(c) /\ e - 1 < Len(c) /\ (e - 1) + 1 = e
  BY SSAFacts DEF Good
<1>2. LET here == Trace(m, c)[e - 1]
          next == c[(e - 1) + 1]
      IN  /\ next.op \in MemoryOps => Accessed(here, next) \in DOMAIN m.mem
          /\ next.op = "call" => Function[next.fn].reads \in DOMAIN m.mem \cup {0}
  BY <1>1 DEF Good, Runs
<1> QED BY <1>1, <1>2 DEF Acc

\* A load.
LEMMA CSELoad ==
    ASSUME CSEInv, k <= Len(code), CSE!LoadStep
    PROVE  /\ Stepped(start, code, k, wait_delete, code', wait_delete')
           /\ CSEKnown(start, code', k + 1, wait_delete', exprs', load_val', call_val')
<1> USE DEF CSEInv
<1> DEFINE i == code[k]
           t == Trace(start, code)
<1>1. i.op = "load" /\ CSE!LoadKey = LoadKeyOf(i)
  BY CSENames DEF CSE!LoadStep
<1>2. Stepped(start, code, k, wait_delete, code, wait_delete)
  BY Stays DEF CSEKnown
<1>3. /\ Good(start, code) /\ Len(code) \in Nat /\ k \in 1 .. Len(code) /\ i \in Instruction
      /\ \A e \in 1 .. k : e \in 1 .. Len(code)
  BY <1>2, SteppedFacts
<1>4. CASE CSE!LoadKey \in DOMAIN load_val /\ CSE!Merge(load_val[CSE!LoadKey])
  <2>1. PICK e \in 1 .. k - 1 :
          /\ load_val[CSE!LoadKey] = V(code[e].id) /\ code[e].id \notin wait_delete
          /\ code[e].op = "load" /\ CSE!LoadKey = LoadKeyOf(code[e])
          /\ t[k - 1].mem[Acc(start, code, e)] = t[e - 1].mem[Acc(start, code, e)]
    BY <1>4 DEF CSEKnown, LoadsKnown
  <2>2. e \in 1 .. Len(code) /\ k - 1 \in e - 1 .. Len(code)
    BY <1>3
  <2>3. Accessed(t[k - 1], code[e]) = Acc(start, code, e)
    BY <1>3, <2>1, <2>2, LaterAlike DEF MemoryOps
  <2>4. Accessed(t[k - 1], code[e]) = Accessed(t[k - 1], i)
    BY <1>1, <2>1 DEF LoadKeyOf, Accessed
  <2>5. ValueOf(t[e - 1], code[e]) = ValueOf(t[k - 1], i)
    BY <1>1, <2>1, <2>3, <2>4 DEF ValueOf, Acc
  <2>6. LET d == ReplaceAllUse(code, code[k].id, V(code[e].id))
            ids2 == wait_delete \cup {code[k].id}
        IN  /\ Stepped(start, code, k, wait_delete, d, ids2)
            /\ CSEKnown(start, d, k + 1, ids2, exprs, load_val, call_val)
    BY <1>1, <2>1, <2>5, CSEMerge
  <2>7. /\ code' = ReplaceAllUse(code, code[k].id, V(code[e].id))
        /\ wait_delete' = wait_delete \cup {code[k].id}
        /\ exprs' = exprs /\ load_val' = load_val /\ call_val' = call_val
    BY <1>4, <2>1, CSENames DEF CSE!Merge, CSE!tables
  <2> QED BY <2>6, <2>7
<1>5. CASE /\ CSE!LoadKey \notin DOMAIN load_val
           /\ load_val' = CSE!With(load_val, CSE!LoadKey, CSE!V(CSE!inst.id))
           /\ CSE!Enter
           /\ UNCHANGED <<exprs, call_val>>
  <2>1. code' = code /\ wait_delete' = wait_delete /\ exprs' = exprs /\ call_val' = call_val
        /\ load_val' = CSE!With(load_val, LoadKeyOf(i), V(i.id))
    BY <1>1, <1>5, CSENames DEF CSE!Enter
  <2>2. /\ CSEKnown(start, code, k + 1, wait_delete, exprs, load_val, call_val)
        /\ t[k].mem = t[k - 1].mem
    BY <1>1, <1>2, CSEQuiet
  <2>3. LoadsKnown(start, code, k + 1, wait_delete, CSE!With(load_val, LoadKeyOf(i), V(i.id)))
    BY <1>1, <1>2, <2>2, TablesAdded DEF CSEKnown
  <2>4. CSEKnown(start, code, k + 1, wait_delete, exprs,
                 CSE!With(load_val, LoadKeyOf(i), V(i.id)), call_val)
    BY <2>2, <2>3 DEF CSEKnown
  <2> HIDE DEF i
  <2> QED BY <1>2, <2>1, <2>4
<1> QED BY <1>4, <1>5 DEF CSE!LoadStep

\* What the pass takes for granted, said of the loads and calls it has met.
LEMMA CSEApart ==
    ASSUME NEW m, NEW n, k = n, NEW ids, Stepped(m, code, n, ids, code, ids), NEW word,
           CSE!Apart(Trace(m, code)[n - 1], word)
    PROVE  \A e \in 1 .. n - 1 :
             /\ code[e].op = "load" =>
                  Acc(m, code, e) # word \/ (code[n].op = "store" /\ LVal(code[e]) = LVal(code[n]))
             /\ code[e].op = "call" /\ CSE!Eliminatable(code[e].fn)
                  => Function[code[e].fn].reads # word
<1> SUFFICES ASSUME NEW e \in 1 .. n - 1
             PROVE  /\ code[e].op = "load" =>
                         \/ Acc(m, code, e) # word
                         \/ code[n].op = "store" /\ LVal(code[e]) = LVal(code[n])
                    /\ code[e].op = "call" /\ CSE!Eliminatable(code[e].fn)
                         => Function[code[e].fn].reads # word
  OBVIOUS
<1>1. /\ Good(m, code) /\ e \in 1 .. Len(code) /\ n - 1 \in e - 1 .. Len(code)
  <2>1. Good(m, code) /\ Len(code) \in Nat /\ n \in 1 .. Len(code)
    BY SteppedFacts
  <2> QED BY <2>1
<1>2. code[e].op = "load" => Accessed(Trace(m, code)[n - 1], code[e]) = Acc(m, code, e)
  BY <1>1, LaterAlike DEF MemoryOps
<1>3. e \in 1 .. k - 1
  OBVIOUS
<1> QED BY <1>2, <1>3, CSENames

\* A store.
LEMMA CSEStore ==
    ASSUME CSEInv, k <= Len(code), CSE!StoreStep, CSE!Assumed(Trace(start, code)[k - 1])
    PROVE  /\ Stepped(start, code, k, wait_delete, code', wait_delete')
           /\ CSEKnown(start, code', k + 1, wait_delete', exprs', load_val', call_val')
<1> USE DEF CSEInv
<1> DEFINE i == code[k]
           t == Trace(start, code)
           ended == {key \in DOMAIN load_val : key.ptr = LVal(i)}
           u == CSE!Without(load_val, ended)
<1>1. i.op = "store" /\ code' = code /\ wait_delete' = wait_delete
      /\ exprs' = exprs /\ call_val' = call_val /\ load_val' = u
  BY CSENames DEF CSE!StoreStep, CSE!Enter
<1>2. Stepped(start, code, k, wait_delete, code, wait_delete)
  BY Stays DEF CSEKnown
<1>3. /\ Good(start, code) /\ Len(code) \in Nat /\ k \in 1 .. Len(code)
      /\ \A e \in 1 .. k - 1 : e \in 1 .. Len(code)
      /\ code[k].id \notin wait_delete
  BY <1>2, SteppedFacts DEF Stepped, Scanned
<1>4. CSE!Apart(t[k - 1], Acc(start, code, k))
  BY <1>1, CSENames DEF Acc
<1>5. /\ DOMAIN u = DOMAIN load_val \ ended
      /\ \A key \in DOMAIN u : u[key] = load_val[key]
  BY DEF CSE!Without
<1>6. ASSUME NEW e \in 1 .. k - 1, code[e].op = "load", LoadKeyOf(code[e]) \in DOMAIN u
      PROVE  t[k].mem[Acc(start, code, e)] = t[k - 1].mem[Acc(start, code, e)]
  <2>1. LVal(code[e]) # LVal(i)
    <3>1. LoadKeyOf(code[e]).ptr = LVal(code[e])
      BY DEF LoadKeyOf
    <3> HIDE DEF u
    <3> QED BY <1>5, <1>6, <3>1
  <2>2. Acc(start, code, e) # Acc(start, code, k)
    BY <1>2, <1>4, <1>6, <2>1, CSEApart
  <2>3. Acc(start, code, e) \in DOMAIN start.mem
    BY <1>3, <1>6, InMemory DEF MemoryOps
  <2> QED BY <1>1, <1>2, <2>2, <2>3, Elsewhere
<1>7. ASSUME NEW e \in 1 .. k - 1, code[e].op = "call", CSE!Eliminatable(code[e].fn),
             Function[code[e].fn].reads # 0
      PROVE  t[k].mem[Function[code[e].fn].reads] = t[k - 1].mem[Function[code[e].fn].reads]
  <2>1. Function[code[e].fn].reads # Acc(start, code, k)
    BY <1>2, <1>4, <1>7, CSEApart
  <2>2. Function[code[e].fn].reads \in DOMAIN start.mem
    BY <1>3, <1>7, InMemory
  <2> QED BY <1>1, <1>2, <2>1, <2>2, Elsewhere
<1>8. DOMAIN u \subseteq DOMAIN load_val
  BY <1>5
<1> HIDE DEF u
<1>9. CSEKnown(start, code, k + 1, wait_delete, exprs, u, call_val)
  BY <1>2, <1>3, <1>5, <1>6, <1>7, <1>8, CSEKept
<1> QED BY <1>1, <1>2, <1>9

\* A call.
LEMMA CSECall ==
    ASSUME CSEInv, k <= Len(code), CSE!CallStep, CSE!Assumed(Trace(start, code)[k - 1])
    PROVE  /\ Stepped(start, code, k, wait_delete, code', wait_delete')
           /\ CSEKnown(start, code', k + 1, wait_delete', exprs', load_val', call_val')
<1> USE DEF CSEInv
<1> DEFINE i == code[k]
           t == Trace(start, code)
           f == Function[i.fn]
           may == CSE!Eliminatable(i.fn) /\ ~Function[i.fn].void
<1>1. i.op = "call" /\ CSE!CallKey = CallKeyOf(i) /\ CSE!inst = i
  BY CSENames DEF CSE!CallStep
<1>2. Stepped(start, code, k, wait_delete, code, wait_delete)
  BY Stays DEF CSEKnown
<1>3. /\ Good(start, code) /\ Len(code) \in Nat /\ k \in 1 .. Len(code) /\ i \in Instruction
      /\ \A e \in 1 .. k : e \in 1 .. Len(code)
      /\ code[k].id \notin wait_delete
  <2>1. /\ Good(start, code) /\ Len(code) \in Nat /\ k \in 1 .. Len(code) /\ i \in Instruction
        /\ \A e \in 1 .. k : e \in 1 .. Len(code)
    BY <1>2, SteppedFacts
  <2> QED BY <1>2, <2>1 DEF Stepped, Scanned
<1>4. /\ f.writes # 0 => CSE!Apart(t[k - 1], f.writes)
      /\ CSE!Eliminatable(i.fn) => f.writes = 0 /\ ~f.io
  BY <1>1, CSENames
<1>5. CASE may /\ CSE!CallKey \in DOMAIN call_val /\ CSE!Merge(call_val[CSE!CallKey])
  <2>1. PICK e \in 1 .. k - 1 :
          CallEntry(start, code, k, wait_delete, e, call_val[CSE!CallKey], CSE!CallKey)
    BY <1>5 DEF CSEKnown, CallsKnown
  <2>2. /\ call_val[CSE!CallKey] = V(code[e].id) /\ code[e].id \notin wait_delete
        /\ code[e].op = "call" /\ CallKeyOf(code[e]) = CallKeyOf(i)
        /\ ~Function[code[e].fn].io
        /\ LET w == Function[code[e].fn].reads
           IN  w # 0 => t[k - 1].mem[w] = t[e - 1].mem[w]
    BY <1>1, <2>1 DEF CallEntry
  <2>3. e \in 1 .. Len(code) /\ k - 1 \in e - 1 .. Len(code) /\ code[e] \in Instruction
    <3>1. SSA(start.env, code)
      BY <1>3 DEF Good
    <3> QED BY <1>3, <3>1, SSAFacts
  <2>4. code[e].fn = i.fn /\ CallArgs(t[k - 1], code[e]) = CallArgs(t[k - 1], i)
    BY <1>3, <2>2, <2>3, SameCall
  <2>5. CallArgs(t[e - 1], code[e]) = CallArgs(t[k - 1], code[e])
    <3>1. Alike(t[e - 1], code[e], t[k - 1], code[e])
      BY <1>3, <2>3, LaterAlike
    <3> QED BY <3>1, SameOperands
  <2>6. CallResult(t[e - 1], code[e]) = CallResult(t[k - 1], i)
    BY <2>2, <2>4, <2>5 DEF CallResult
  <2>7. ValueOf(t[e - 1], code[e]) = ValueOf(t[k - 1], i)
    BY <1>1, <2>2, <2>6 DEF ValueOf
  <2>8. LET d == ReplaceAllUse(code, code[k].id, V(code[e].id))
            ids2 == wait_delete \cup {code[k].id}
        IN  /\ Stepped(start, code, k, wait_delete, d, ids2)
            /\ CSEKnown(start, d, k + 1, ids2, exprs, load_val, call_val)
    BY <1>1, <1>4, <1>5, <2>2, <2>7, CSEMerge
  <2>9. /\ code' = ReplaceAllUse(code, code[k].id, V(code[e].id))
        /\ wait_delete' = wait_delete \cup {code[k].id}
        /\ exprs' = exprs /\ load_val' = load_val /\ call_val' = call_val
    BY <1>5, <2>2, CSENames DEF CSE!Merge, CSE!tables
  <2> QED BY <2>8, <2>9
<1>6. CASE /\ may /\ CSE!CallKey \notin DOMAIN call_val
           /\ call_val' = CSE!With(call_val, CSE!CallKey, CSE!V(CSE!inst.id))
           /\ CSE!Enter
           /\ UNCHANGED <<exprs, load_val>>
  <2>1. code' = code /\ wait_delete' = wait_delete /\ exprs' = exprs /\ load_val' = load_val
        /\ call_val' = CSE!With(call_val, CallKeyOf(i), V(i.id))
    BY <1>1, <1>6, CSENames DEF CSE!Enter
  <2>2. /\ CSEKnown(start, code, k + 1, wait_delete, exprs, load_val, call_val)
        /\ t[k].mem = t[k - 1].mem
    BY <1>1, <1>2, <1>4, <1>6, CSEQuiet
  <2>3. CallsKnown(start, code, k + 1, wait_delete, CSE!With(call_val, CallKeyOf(i), V(i.id)))
    BY <1>1, <1>2, <1>4, <1>6, <2>2, TablesAdded DEF CSEKnown
  <2>4. CSEKnown(start, code, k + 1, wait_delete, exprs, load_val,
                 CSE!With(call_val, CallKeyOf(i), V(i.id)))
    BY <2>2, <2>3 DEF CSEKnown
  <2> HIDE DEF i
  <2> QED BY <1>2, <2>1, <2>4
<1>7. CASE ~may /\ CSE!Enter /\ UNCHANGED CSE!tables
  <2>1. code' = code /\ wait_delete' = wait_delete
        /\ exprs' = exprs /\ load_val' = load_val /\ call_val' = call_val
    BY <1>7 DEF CSE!Enter, CSE!tables
  <2>2. ASSUME NEW e \in 1 .. k - 1, code[e].op = "load"
        PROVE  t[k].mem[Acc(start, code, e)] = t[k - 1].mem[Acc(start, code, e)]
    <3>1. Acc(start, code, e) \in DOMAIN start.mem
      BY <1>3, <2>2, InMemory DEF MemoryOps
    <3>2. f.writes # 0 => Acc(start, code, e) # f.writes
      BY <1>1, <1>2, <1>4, <2>2, CSEApart
    <3> QED BY <1>1, <1>2, <3>1, <3>2, Elsewhere
  <2>3. ASSUME NEW e \in 1 .. k - 1, code[e].op = "call", CSE!Eliminatable(code[e].fn),
               Function[code[e].fn].reads # 0
        PROVE  t[k].mem[Function[code[e].fn].reads] = t[k - 1].mem[Function[code[e].fn].reads]
    <3>1. Function[code[e].fn].reads \in DOMAIN start.mem
      BY <1>3, <2>3, InMemory
    <3>2. f.writes # 0 => Function[code[e].fn].reads # f.writes
      BY <1>1, <1>2, <1>4, <2>3, CSEApart
    <3> QED BY <1>1, <1>2, <2>3, <3>1, <3>2, Elsewhere
  <2>4. CSEKnown(start, code, k + 1, wait_delete, exprs, load_val, call_val)
    BY <1>2, <1>3, <2>2, <2>3, CSEKept
  <2> QED BY <1>2, <2>1, <2>4
<1> QED BY <1>1, <1>5, <1>6, <1>7 DEF CSE!CallStep

\* An instruction of another kind, and all of them.
LEMMA CSEStep ==
    ASSUME CSEInv, CSE!Step, CSE!Assumed(Trace(start, code)[k - 1])
    PROVE  /\ Stepped(start, code, k, wait_delete, code', wait_delete')
           /\ CSEKnown(start, code', k', wait_delete', exprs', load_val', call_val')
<1>1. k <= Len(code) /\ k' = k + 1
  BY DEF CSE!Step
<1>2. CASE CSE!OtherStep
  <2>1. code[k].op \notin {"load", "store", "call"}
        /\ code' = code /\ wait_delete' = wait_delete
        /\ exprs' = exprs /\ load_val' = load_val /\ call_val' = call_val
    BY <1>2, CSENames DEF CSE!OtherStep, CSE!Enter, CSE!tables
  <2>2. Stepped(start, code, k, wait_delete, code, wait_delete)
    BY <1>1, Stays DEF CSEKnown, CSEInv
  <2>3. CSEKnown(start, code, k + 1, wait_delete, exprs, load_val, call_val)
    BY <2>1, <2>2, CSEQuiet DEF CSEInv
  <2> QED BY <1>1, <2>1, <2>2, <2>3 DEF CSEInv
<1> QED BY <1>1, <1>2, CSEExpr, CSELoad, CSEStore, CSECall DEF CSE!Step, CSEInv

-----------------------------------------------------------------------------
(* BBConstPropagation *)

GlobalAt(v) == \E g \in GlobalVariable : v = V(g)
KeyKnown(c, v) == GlobalAt(v) \/ (IsOp(c, v, "gep") /\ IsConst(DefOf(c, v).args[2]))
KeyAt(c, v) == IF GlobalAt(v) THEN [array |-> v, index |-> 0]
               ELSE [array |-> DefOf(c, v).args[1], index |-> IntOf(DefOf(c, v).args[2])]
ArrayAt(c, v) == IF IsOp(c, v, "gep") THEN DefOf(c, v).args[1] ELSE v
Folded(i) == /\ i.op \in {"add", "sub", "mul", "div", "rem", "and"}
             /\ IsConst(i.args[1]) /\ IsConst(i.args[2])

\* Where a pointer leads is the same for the pass.
LEMMA PropPlaces ==
    /\ \A v : Prop!IsGlobal(v) <=> GlobalAt(v)
    /\ \A v : Prop!IsElement(v) <=> IsOp(code, v, "gep")
    /\ \A v : Prop!HasKey(v) <=> KeyKnown(code, v)
    /\ \A v : Prop!KeyOf(v) = KeyAt(code, v)
    /\ \A v : Prop!Array(v) = DefOf(code, v).args[1]
<1>1. \A x : Prop!V(x) = V(x)
  BY DEF Prop!V, V
<1>2. \A v : /\ Prop!IsConst(v) <=> IsConst(v)
             /\ Prop!IntOf(v) = IntOf(v)
  BY DEF Prop!IsConst, IsConst, Prop!IntOf, IntOf
<1>3. \A v : /\ Prop!DefOf(code, v) = DefOf(code, v)
             /\ Prop!Defined(code, v) <=> Defined(code, v)
  BY <1>1 DEF Prop!DefOf, DefOf, Prop!Defined, Defined
<1>4. \A v : Prop!IsElement(v) <=> IsOp(code, v, "gep")
  BY <1>3 DEF Prop!IsElement, Prop!IsOp, IsOp
<1>5. \A v : Prop!IsGlobal(v) <=> GlobalAt(v)
  BY <1>1 DEF Prop!IsGlobal, GlobalAt
<1>6. \A v : Prop!Array(v) = DefOf(code, v).args[1] /\ Prop!Index(v) = DefOf(code, v).args[2]
  BY <1>3 DEF Prop!Array, Prop!Index
<1>7. \A v : Prop!HasKey(v) <=> KeyKnown(code, v)
  BY <1>2, <1>4, <1>5, <1>6 DEF Prop!HasKey, KeyKnown
<1>8. \A v : Prop!KeyOf(v) = KeyAt(code, v)
  BY <1>2, <1>5, <1>6 DEF Prop!KeyOf, KeyAt
<1> QED BY <1>4, <1>5, <1>6, <1>7, <1>8

\* What the pass calls by the instruction at hand.
LEMMA PropNames ==
    /\ Prop!inst = code[k]
    /\ Prop!Constant <=> Folded(code[k])
    /\ Prop!Computed = C(code[k].id, Result([env |-> <<>>], code[k]))
    /\ \A i : Prop!LVal(i) = LVal(i) /\ Prop!RVal(i) = RVal(i)
    /\ \A v : Prop!IsConst(v) <=> IsConst(v)
    /\ \A id, v : Prop!ReplaceAllUse(code, id, v) = ReplaceAllUse(code, id, v)
    /\ Prop!Forgotten = {key \in DOMAIN const_def : key.array = ArrayAt(code, LVal(code[k]))}
    /\ \A m : Prop!Assumed(m) /\ k <= Len(code) =>
         /\ code[k].op \in MemoryOps => Offset(code[k]) = NoOperand
         /\ \A q \in 1 .. k - 1 :
              code[q].op = "store" /\ KeyKnown(code, LVal(code[q])) /\ IsConst(RVal(code[q])) =>
                /\ code[k].op = "store" /\ Accessed(m, code[q]) = Accessed(m, code[k]) =>
                     IF IsConst(RVal(code[k]))
                     THEN /\ KeyKnown(code, LVal(code[k]))
                          /\ KeyAt(code, LVal(code[k])) = KeyAt(code, LVal(code[q]))
                     ELSE KeyAt(code, LVal(code[q])).array = ArrayAt(code, LVal(code[k]))
                /\ code[k].op = "call" => Accessed(m, code[q]) # Function[code[k].fn].writes
<1>1. Prop!NoOperand = NoOperand
  BY Zenon DEF Prop!NoOperand, NoOperand
<1>2. \A v : (Prop!IsConst(v) <=> IsConst(v)) /\ Prop!IntOf(v) = IntOf(v)
  BY DEF Prop!IsConst, IsConst, Prop!IntOf, IntOf
<1>3. \A i : /\ Prop!Place(i) = Place(i) /\ Prop!LVal(i) = LVal(i) /\ Prop!Offset(i) = Offset(i)
             /\ Prop!Shift(i) = Shift(i) /\ Prop!RVal(i) = RVal(i)
             /\ Prop!Operand(i, 3) = Operand(i, 3)
  BY <1>1, <1>2 DEF Prop!Place, Place, Prop!LVal, LVal, Prop!Offset, Offset, Prop!Shift, Shift,
              Prop!Operand, Operand, Prop!RVal, RVal
<1>4. \A m, v : Prop!Val(m, v) = Val(m, v)
  BY <1>2 DEF Prop!Val, Val
<1>5. \A m, p, o, s : Prop!Address(m, p, o, s) = Address(m, p, o, s)
  BY <1>1, <1>4 DEF Prop!Address, Address
<1>6. \A m, i : Prop!Accessed(m, i) = Accessed(m, i)
  BY <1>3, <1>5 DEF Prop!Accessed, Accessed
<1>7. \A x, y : Prop!Quotient(x, y) = Quotient(x, y)
  BY DEF Prop!Quotient, Quotient
<1>8. \A m, i : Prop!Result(m, i) = Result(m, i)
  <2> SUFFICES ASSUME NEW m, NEW i PROVE Prop!Result(m, i) = Result(m, i)
    OBVIOUS
  <2>1. /\ Prop!Val(m, i.args[1]) = Val(m, i.args[1])
        /\ Prop!Val(m, i.args[2]) = Val(m, i.args[2])
        /\ Prop!Val(m, i.args[3]) = Val(m, i.args[3])
    BY <1>4
  <2>2. Prop!IntOf(Prop!Operand(i, 3)) = IntOf(Operand(i, 3))
    BY <1>2, <1>3
  <2>3. Prop!Quotient(Val(m, i.args[1]), Val(m, i.args[2]))
          = Quotient(Val(m, i.args[1]), Val(m, i.args[2]))
    BY <1>7
  <2> QED BY <2>1, <2>2, <2>3, Zenon DEF Prop!Result, Result
<1>9. Prop!inst = code[k] /\ (Prop!Constant <=> Folded(code[k]))
  BY <1>2 DEF Prop!inst, Prop!Constant, Folded, Prop!Folds
<1>10. Prop!Computed = C(code[k].id, Result([env |-> <<>>], code[k]))
  BY <1>8, <1>9 DEF Prop!Computed, Prop!C, C
<1>11. \A id, v : Prop!ReplaceAllUse(code, id, v) = ReplaceAllUse(code, id, v)
  BY DEF Prop!ReplaceAllUse, ReplaceAllUse, Prop!V, V
<1>12. Prop!Forgotten = {key \in DOMAIN const_def : key.array = ArrayAt(code, LVal(code[k]))}
  BY <1>3, <1>9, PropPlaces DEF Prop!Forgotten, ArrayAt
<1>13. ASSUME NEW m, Prop!Assumed(m), k <= Len(code)
       PROVE  /\ code[k].op \in MemoryOps => Offset(code[k]) = NoOperand
              /\ \A q \in 1 .. k - 1 :
                   code[q].op = "store" /\ KeyKnown(code, LVal(code[q])) /\ IsConst(RVal(code[q])) =>
                     /\ code[k].op = "store" /\ Accessed(m, code[q]) = Accessed(m, code[k]) =>
                          IF IsConst(RVal(code[k]))
                          THEN /\ KeyKnown(code, LVal(code[k]))
                               /\ KeyAt(code, LVal(code[k])) = KeyAt(code, LVal(code[q]))
                          ELSE KeyAt(code, LVal(code[q])).array = ArrayAt(code, LVal(code[k]))
                     /\ code[k].op = "call" => Accessed(m, code[q]) # Function[code[k].fn].writes
  <2>1. code[k].op \in MemoryOps => Offset(code[k]) = NoOperand
    BY <1>1, <1>3, <1>9, <1>13 DEF Prop!Assumed, MemoryOps
  <2>2. ASSUME NEW q \in 1 .. k - 1, code[q].op = "store", KeyKnown(code, LVal(code[q])),
               IsConst(RVal(code[q]))
        PROVE  q \in Prop!Known
    BY <1>2, <1>3, <2>2, PropPlaces DEF Prop!Known
  <2>3. ASSUME NEW q \in Prop!Known
        PROVE  /\ code[k].op = "store" /\ Accessed(m, code[q]) = Accessed(m, code[k]) => Prop!Ends(q)
               /\ code[k].op = "call" => Accessed(m, code[q]) # Function[code[k].fn].writes
    BY <1>6, <1>9, <1>13 DEF Prop!Assumed
  <2>4. ASSUME NEW q, Prop!Ends(q)
        PROVE  IF IsConst(RVal(code[k]))
               THEN /\ KeyKnown(code, LVal(code[k]))
                    /\ KeyAt(code, LVal(code[k])) = KeyAt(code, LVal(code[q]))
               ELSE KeyAt(code, LVal(code[q])).array = ArrayAt(code, LVal(code[k]))
    BY <1>2, <1>3, <1>9, <2>4, PropPlaces DEF Prop!Ends, ArrayAt
  <2> QED BY <2>1, <2>2, <2>3, <2>4
<1> QED BY <1>2, <1>3, <1>9, <1>10, <1>11, <1>12, <1>13

\* The instruction that defines a name.
LEMMA DefFacts ==
    ASSUME NEW env, NEW c, SSA(env, c), NEW g \in 1 .. Len(c)
    PROVE  Defined(c, V(c[g].id)) /\ DefOf(c, V(c[g].id)) = c[g]
<1>1. DOMAIN c = 1 .. Len(c) /\ \A q \in 1 .. Len(c) : c[q].id = c[g].id => q = g
  BY SSAFacts
<1>2. \A n \in DOMAIN c : V(c[g].id) = V(c[n].id) <=> n = g
  <2>1. \A x : V(x)[2] = x
    BY DEF V
  <2> QED BY <1>1, <2>1
<1>3. (CHOOSE n \in DOMAIN c : V(c[g].id) = V(c[n].id)) = g
  BY <1>1, <1>2
<1> QED BY <1>1, <1>3 DEF Defined, DefOf

\* A pointer that an instruction of the block defines is defined before it is used.
LEMMA PointerDefined ==
    ASSUME NEW m, NEW c, Good(m, c), NEW p \in 1 .. Len(c), c[p].op \in MemoryOps,
           Defined(c, LVal(c[p]))
    PROVE  \E g \in 1 .. p - 1 : LVal(c[p]) = V(c[g].id) /\ DefOf(c, LVal(c[p])) = c[g]
                                 /\ c[g].op # "store"
<1>1. SSA(m.env, c) /\ DOMAIN c = 1 .. Len(c) /\ Len(c) \in Nat
  BY SSAFacts DEF Good
<1>2. PICK g \in 1 .. Len(c) : LVal(c[p]) = V(c[g].id)
  BY <1>1 DEF Defined
<1>3. Place(c[p]) \in 1 .. Len(c[p].args)
  <2>1. Len(c[p].args) \in Nat /\ Len(c[p].args) >= Arity(c[p].op)
    BY <1>1, SSAFacts
  <2> QED BY <2>1 DEF Place, Arity, MemoryOps, Binary
<1>4. c[g].id \in Names(m.env, c, p - 1)
  <2>1. IsConst(LVal(c[p])) \/ LVal(c[p])[2] \in Names(m.env, c, p - 1)
    BY <1>1, <1>3, SSAFacts DEF LVal
  <2>2. ~IsConst(V(c[g].id)) /\ V(c[g].id)[2] = c[g].id
    BY DEF IsConst, V
  <2> QED BY <1>2, <2>1, <2>2
<1>5. g \in 1 .. p - 1 /\ c[g].op # "store"
  <2>1. c[g].id \notin DOMAIN m.env /\ \A q \in 1 .. Len(c) : c[q].id = c[g].id => q = g
    BY <1>1, SSAFacts
  <2>2. PICK q \in 1 .. p - 1 : c[q].op # "store" /\ c[q].id = c[g].id
    BY <1>4, <2>1 DEF Names
  <2> QED BY <1>1, <2>1, <2>2
<1> QED BY <1>1, <1>2, <1>5, DefFacts

\* Values are numbers.
LEMMA Numbers ==
    ASSUME NEW m, NEW c, Good(m, c), NEW p \in 1 .. Len(c), NEW n \in 1 .. Len(c[p].args)
    PROVE  /\ Val(Trace(m, c)[p - 1], c[p].args[n]) \in Int
           /\ IsConst(c[p].args[n]) => IntOf(c[p].args[n]) \in Int
<1>1. /\ IsMachine(m) /\ SSA(m.env, c) /\ Len(c) \in Nat /\ p - 1 \in 0 .. Len(c)
      /\ c[p] \in Instruction
  BY SSAFacts DEF Good
<1>2. DOMAIN Trace(m, c)[p - 1].env = Names(m.env, c, p - 1)
  BY <1>1, RunFacts
<1>3. \A x \in DOMAIN Trace(m, c)[p - 1].env : Trace(m, c)[p - 1].env[x] \in Int
  BY <1>1 DEF Good, Runs
<1>4. IsConst(c[p].args[n]) \/ c[p].args[n][2] \in Names(m.env, c, p - 1)
  BY <1>1, SSAFacts
<1>5. IsConst(c[p].args[n]) => IntOf(c[p].args[n]) \in Int
  BY <1>1, InstructionFacts
<1> QED BY <1>2, <1>3, <1>4, <1>5 DEF Val

\* The word a key stands for.
WordOf(m, key) == Val(m, key.array) + key.index * ElementSize

\* An access to a place with a key goes to its word, then and later.
LEMMA KeyPlace ==
    ASSUME NEW m, NEW c, Good(m, c), NEW p \in 1 .. Len(c), c[p].op \in MemoryOps,
           Offset(c[p]) = NoOperand, KeyKnown(c, LVal(c[p])), NEW b \in p - 1 .. Len(c)
    PROVE  WordOf(Trace(m, c)[b], KeyAt(c, LVal(c[p]))) = Acc(m, c, p)
<1> DEFINE v == LVal(c[p])
           t == Trace(m, c)
           key == KeyAt(c, v)
<1>1. /\ IsMachine(m) /\ SSA(m.env, c) /\ Len(c) \in Nat /\ p - 1 \in 0 .. Len(c)
      /\ b \in 0 .. Len(c) /\ p \in 0 .. Len(c) /\ c[p] \in Instruction
  BY SSAFacts DEF Good
<1>2. Place(c[p]) \in 1 .. Len(c[p].args)
  <2>1. Len(c[p].args) \in Nat /\ Len(c[p].args) >= Arity(c[p].op)
    BY <1>1, SSAFacts
  <2> QED BY <2>1 DEF Place, Arity, MemoryOps, Binary
<1>3. Acc(m, c, p) = Val(t[p - 1], v) + 0
  BY DEF Acc, Accessed, Address
<1>4. /\ IsConst(v) \/ v[2] \in Names(m.env, c, p - 1)
      /\ Val(t[p - 1], v) \in Int
  BY <1>1, <1>2, SSAFacts, Numbers DEF LVal
<1>5. CASE GlobalAt(v)
  <2>1. key.array = v /\ key.index = 0
    BY <1>5 DEF KeyAt
  <2>2. 0 * ElementSize = 0
    BY ElementSizeAssumption
  <2>3. Val(t[b], v) = Val(t[p - 1], v)
    BY <1>1, <1>4, Stable
  <2> QED BY <1>3, <2>1, <2>2, <2>3 DEF WordOf
<1>6. CASE ~GlobalAt(v)
  <2>1. IsOp(c, v, "gep") /\ IsConst(DefOf(c, v).args[2])
    BY <1>6 DEF KeyKnown
  <2>2. PICK g \in 1 .. p - 1 : v = V(c[g].id) /\ DefOf(c, v) = c[g] /\ c[g].op # "store"
    BY <2>1, PointerDefined DEF IsOp
  <2> DEFINE a == c[g].args[1]
             j == IntOf(c[g].args[2])
  <2>3. /\ c[g].op = "gep" /\ key = [array |-> a, index |-> j]
        /\ IsConst(c[g].args[2])
    BY <1>6, <2>1, <2>2 DEF IsOp, KeyAt
  <2>4. /\ g \in 1 .. Len(c) /\ g \in 0 .. Len(c) /\ g - 1 \in 0 .. Len(c)
        /\ p - 1 \in g .. Len(c) /\ p - 1 \in g - 1 .. Len(c) /\ b \in g - 1 .. Len(c)
    BY <1>1
  <2>5. c[g] \in Instruction /\ Len(c[g].args) \in Nat /\ Len(c[g].args) >= 2
        /\ 1 \in 1 .. Len(c[g].args) /\ 2 \in 1 .. Len(c[g].args)
    BY <1>1, <2>3, <2>4, SSAFacts DEF Arity, Binary
  <2>6. /\ IsConst(a) \/ a[2] \in Names(m.env, c, g - 1)
        /\ Val(t[g - 1], a) \in Int /\ j \in Int
    BY <1>1, <2>3, <2>4, <2>5, SSAFacts, Numbers
  <2>7. Val(t[b], a) = Val(t[g - 1], a)
    BY <1>1, <2>4, <2>6, Stable
  <2>8. Val(t[p - 1], v) = Val(t[g], v)
    <3>1. v[2] \in Names(m.env, c, g)
      <4>1. g \in 1 .. g
        BY <2>4
      <4> QED BY <2>2, <4>1 DEF Names, V
    <3> QED BY <1>1, <2>4, <3>1, Stable
  <2>9. Val(t[g], v) = Result(t[g - 1], c[g])
    <3>1. t[g] = Executed(t[g - 1], c[g])
      BY <1>1, <2>4, TraceFacts
    <3>2. IsMachine(t[g - 1])
      BY <1>1, <2>4, RunFacts
    <3> HIDE DEF t
    <3>3. t[g].env[c[g].id] = ValueOf(t[g - 1], c[g])
      BY <2>2, <2>5, <3>1, <3>2, ExecutedFacts
    <3>4. ~IsConst(v) /\ v[2] = c[g].id
      BY <2>2 DEF IsConst, V
    <3> QED BY <2>3, <3>3, <3>4 DEF Val, ValueOf
  <2>10. Result(t[g - 1], c[g]) = Val(t[g - 1], a) + j * ElementSize
    <3>1. Val(t[g - 1], c[g].args[2]) = j
      BY <2>3 DEF Val
    <3> QED BY <2>3, <3>1 DEF Result
  <2>11. j * ElementSize \in Int
    BY <2>6, ElementSizeAssumption
  <2> HIDE DEF a, j
  <2>12. Acc(m, c, p) = Val(t[g - 1], a) + j * ElementSize
    BY <1>3, <1>4, <2>6, <2>8, <2>9, <2>10, <2>11
  <2>13. key.array = a /\ key.index = j
    BY <2>3
  <2> QED BY <2>7, <2>12, <2>13 DEF WordOf
<1> QED BY <1>5, <1>6

\* What a scan has met goes to the same places in the block it goes on with.
LEMMA PlacesStay ==
    ASSUME NEW m, NEW c, NEW n, NEW ids, NEW d, NEW ids2, Stepped(m, c, n, ids, d, ids2),
           NEW p \in 1 .. n, c[p].op \in MemoryOps
    PROVE  /\ d[p] = c[p]
           /\ KeyKnown(d, LVal(c[p])) <=> KeyKnown(c, LVal(c[p]))
           /\ KeyKnown(c, LVal(c[p])) => KeyAt(d, LVal(c[p])) = KeyAt(c, LVal(c[p]))
<1> DEFINE v == LVal(c[p])
<1>1. /\ Good(m, c) /\ Good(m, d) /\ Len(c) \in Nat /\ Len(d) = Len(c) /\ n \in 1 .. Len(c)
      /\ p \in 1 .. Len(c) /\ d[p] = c[p]
  BY SteppedFacts
<1>2. DOMAIN c = 1 .. Len(c) /\ DOMAIN d = 1 .. Len(c)
  BY <1>1, SSAFacts DEF Good
<1>3. \A g \in 1 .. Len(c) : d[g].id = c[g].id
  BY DEF Stepped, SameUpTo, SameShape
<1>4. Defined(d, v) <=> Defined(c, v)
  BY <1>2, <1>3 DEF Defined
<1>5. ASSUME Defined(c, v) PROVE DefOf(d, v) = DefOf(c, v)
  <2>1. PICK g \in 1 .. p - 1 : v = V(c[g].id) /\ DefOf(c, v) = c[g]
    BY <1>1, <1>5, PointerDefined
  <2>2. g \in 1 .. n /\ g \in 1 .. Len(d)
    BY <1>1
  <2>3. d[g] = c[g]
    BY <2>2 DEF Stepped, SameUpTo
  <2>4. DefOf(d, V(d[g].id)) = d[g]
    BY <1>1, <2>2, DefFacts DEF Good
  <2> QED BY <2>1, <2>3, <2>4
<1> HIDE DEF v
<1>6. IsOp(d, v, "gep") <=> IsOp(c, v, "gep")
  BY <1>4, <1>5 DEF IsOp
<1>7. KeyKnown(d, v) <=> KeyKnown(c, v)
  BY <1>5, <1>6 DEF KeyKnown, IsOp
<1>8. KeyKnown(c, v) => KeyAt(d, v) = KeyAt(c, v)
  BY <1>5 DEF KeyKnown, KeyAt, IsOp
<1> QED BY <1>1, <1>7, <1>8 DEF v

\* What BBConstPropagation knows at the n-th instruction: a store has left the
\* constant where a load would find it.
KnownStore(c, q) ==
    /\ c[q].op = "store" /\ KeyKnown(c, LVal(c[q])) /\ IsConst(RVal(c[q]))
    /\ Offset(c[q]) = NoOperand
ConstEntry(m, c, n, q, v, key) ==
    /\ KnownStore(c, q)
    /\ key = KeyAt(c, LVal(c[q])) /\ v = RVal(c[q])
    /\ Trace(m, c)[n - 1].mem[Acc(m, c, q)] = IntOf(v)
ConstsKnown(m, c, n, t) ==
    \A key \in DOMAIN t : \E q \in 1 .. n - 1 : ConstEntry(m, c, n, q, t[key], key)
PropKnown(m, c, n, ids, t) ==
    Scanned(m, c, n, ids) /\ ConstsKnown(m, c, n, t) /\ Harmless(c, ids)

\* It still does after a step that knows no more, and leaves what is known.
LEMMA PropKept ==
    ASSUME NEW m, NEW c, NEW n, NEW ids, NEW d, NEW ids2, Stepped(m, c, n, ids, d, ids2),
           NEW t, PropKnown(m, c, n, ids, t),
           NEW u, DOMAIN u \subseteq DOMAIN t, \A key \in DOMAIN u : u[key] = t[key],
           \A q \in 1 .. n - 1 :
             KnownStore(c, q) /\ KeyAt(c, LVal(c[q])) \in DOMAIN u =>
               Trace(m, c)[n].mem[Acc(m, c, q)] = Trace(m, c)[n - 1].mem[Acc(m, c, q)],
           c[n].id \in ids2 => c[n].op # "store" /\ c[n].op # "call"
    PROVE  PropKnown(m, d, n + 1, ids2, u)
<1>1. Scanned(m, d, n + 1, ids2)
  BY DEF Stepped
<1>2. Harmless(d, ids2)
  BY HarmlessKept DEF PropKnown
<1>3. ConstsKnown(m, d, n + 1, u)
  <2> SUFFICES ASSUME NEW key \in DOMAIN u
               PROVE  \E q \in 1 .. (n + 1) - 1 : ConstEntry(m, d, n + 1, q, u[key], key)
    BY DEF ConstsKnown
  <2>1. PICK q \in 1 .. n - 1 : ConstEntry(m, c, n, q, u[key], key)
    BY DEF PropKnown, ConstsKnown
  <2>2. /\ KnownStore(c, q) /\ key = KeyAt(c, LVal(c[q])) /\ u[key] = RVal(c[q])
        /\ Trace(m, c)[n - 1].mem[Acc(m, c, q)] = IntOf(u[key])
    BY <2>1 DEF ConstEntry
  <2>3. /\ n \in 1 .. Len(c) /\ Len(c) \in Nat /\ (n + 1) - 1 = n
        /\ Acc(m, d, q) = Acc(m, c, q)
        /\ Trace(m, d)[n] = Trace(m, c)[n]
    BY SteppedFacts
  <2>4. q \in 1 .. n /\ q \in 1 .. (n + 1) - 1
    BY <2>3
  <2>5. /\ d[q] = c[q]
        /\ KeyKnown(d, LVal(c[q])) <=> KeyKnown(c, LVal(c[q]))
        /\ KeyKnown(c, LVal(c[q])) => KeyAt(d, LVal(c[q])) = KeyAt(c, LVal(c[q]))
    BY <2>2, <2>4, PlacesStay DEF KnownStore, MemoryOps
  <2>6. KnownStore(d, q) /\ key = KeyAt(d, LVal(d[q])) /\ u[key] = RVal(d[q])
    BY <2>2, <2>5 DEF KnownStore
  <2>7. Trace(m, d)[(n + 1) - 1].mem[Acc(m, d, q)] = IntOf(u[key])
    <3>1. Trace(m, c)[n].mem[Acc(m, c, q)] = Trace(m, c)[n - 1].mem[Acc(m, c, q)]
      BY <2>2
    <3> QED BY <2>2, <2>3, <3>1
  <2>8. ConstEntry(m, d, n + 1, q, u[key], key)
    BY <2>6, <2>7 DEF ConstEntry
  <2> QED BY <2>4, <2>8
<1> QED BY <1>1, <1>2, <1>3 DEF PropKnown

\* An instruction that writes no memory and no output leaves what is known.
LEMMA PropQuiet ==
    ASSUME NEW m, NEW c, NEW n, NEW ids, NEW d, NEW ids2, Stepped(m, c, n, ids, d, ids2),
           NEW t, PropKnown(m, c, n, ids, t), c[n].op \notin {"store", "call"}
    PROVE  PropKnown(m, d, n + 1, ids2, t)
<1>1. ASSUME NEW q \in 1 .. n - 1, KnownStore(c, q)
      PROVE  Trace(m, c)[n].mem[Acc(m, c, q)] = Trace(m, c)[n - 1].mem[Acc(m, c, q)]
  <2>1. Trace(m, c)[n].mem = MemoryAfter(Trace(m, c)[n - 1], c[n])
    BY SteppedFacts
  <2> QED BY <2>1 DEF MemoryAfter
<1> QED BY <1>1, PropKept

\* A value that is a constant.
LEMMA PropReplace ==
    ASSUME NEW m, NEW c, NEW n, NEW ids, NEW t, PropKnown(m, c, n, ids, t), n <= Len(c),
           c[n].op \notin {"store", "call"}, NEW v \in OperandType, IsConst(v),
           IntOf(v) = ValueOf(Trace(m, c)[n - 1], c[n])
    PROVE  LET d == ReplaceAllUse(c, c[n].id, v)
               ids2 == ids \cup {c[n].id}
           IN  /\ Stepped(m, c, n, ids, d, ids2)
               /\ PropKnown(m, d, n + 1, ids2, t)
<1> DEFINE d == ReplaceAllUse(c, c[n].id, v)
           ids2 == ids \cup {c[n].id}
<1>1. Scanned(m, c, n, ids) /\ Good(m, c) /\ n \in 1 .. Len(c)
  BY SSAFacts DEF PropKnown, Scanned, Good
<1>2. Val(Trace(m, c)[n], v) = Val(Trace(m, c)[n], V(c[n].id))
  BY <1>1, ValueMade DEF Val
<1>3. Replaces(m, c, n, ids, v, ReplaceAllUse(c, c[n].id, v))
  BY <1>1, <1>2, Merged
<1>4. Stepped(m, c, n, ids, d, ids2)
  BY <1>1, <1>3 DEF Stepped, Replaces
<1> HIDE DEF d, ids2
<1>5. PropKnown(m, d, n + 1, ids2, t)
  BY <1>4, PropQuiet
<1> QED BY <1>4, <1>5 DEF d, ids2

PropInv == PropKnown(start, code, k, wait_delete, const_def)

\* An operation on constants.
LEMMA PropFold ==
    ASSUME PropInv, k <= Len(code), Prop!FoldStep
    PROVE  /\ Stepped(start, code, k, wait_delete, code', wait_delete')
           /\ PropKnown(start, code', k + 1, wait_delete', const_def')
<1> DEFINE i == code[k]
           here == Trace(start, code)[k - 1]
           v == C(i.id, Result([env |-> <<>>], i))
<1>1. Folded(i) /\ code' = ReplaceAllUse(code, code[k].id, v)
      /\ wait_delete' = wait_delete \cup {code[k].id} /\ const_def' = const_def
  BY PropNames DEF Prop!FoldStep, Prop!Replace
<1>2. Good(start, code) /\ SSA(start.env, code) /\ k \in 1 .. Len(code) /\ i \in Instruction
  <2>1. Good(start, code) /\ SSA(start.env, code) /\ k \in 1 .. Len(code)
    BY SSAFacts DEF PropInv, PropKnown, Scanned, Good
  <2> QED BY <2>1, SSAFacts
<1>3. i.op \notin {"store", "call", "load"}
  BY <1>1 DEF Folded
<1>4. Result([env |-> <<>>], i) = Result(here, i)
  <2>1. \A m, w : Val(m, i.args[1]) = Val(w, i.args[1]) /\ Val(m, i.args[2]) = Val(w, i.args[2])
    BY <1>1 DEF Folded, Val
  <2> HIDE DEF i, here
  <2>2. Val([env |-> <<>>], i.args[1]) = Val(here, i.args[1])
        /\ Val([env |-> <<>>], i.args[2]) = Val(here, i.args[2])
    BY <2>1
  <2>3. i.op # "muladd"
    BY <1>1 DEF Folded
  <2> DEFINE e == [env |-> <<>>]
  <2> HIDE DEF e
  <2> QED BY <1>1, <2>2, <2>3 DEF Result, Folded, e
<1>5. ValueOf(here, i) = Result(here, i) /\ ValueOf(here, i) \in Int
  BY <1>2, <1>3, ValueMade DEF ValueOf
<1>6. v \in OperandType /\ IsConst(v) /\ IntOf(v) = ValueOf(here, i)
  <2> DEFINE r == Result([env |-> <<>>], i)
  <2>1. r \in Int /\ r = ValueOf(here, i)
    BY <1>4, <1>5
  <2>2. i.id \in STRING
    BY <1>2 DEF Instruction
  <2> HIDE DEF r
  <2>3. C(i.id, r) \in OperandType /\ IsConst(C(i.id, r)) /\ IntOf(C(i.id, r)) = r
    BY <2>1, <2>2 DEF C, OperandType, IsConst, IntOf
  <2> QED BY <2>1, <2>3 DEF r
<1> HIDE DEF v
<1>7. LET d == ReplaceAllUse(code, code[k].id, v)
          ids2 == wait_delete \cup {code[k].id}
      IN  /\ Stepped(start, code, k, wait_delete, d, ids2)
          /\ PropKnown(start, d, k + 1, ids2, const_def)
  BY <1>3, <1>6, PropReplace DEF PropInv
<1> QED BY <1>1, <1>7

\* A load.
LEMMA PropLoad ==
    ASSUME PropInv, k <= Len(code), Prop!LoadStep, Prop!Assumed(Trace(start, code)[k - 1])
    PROVE  /\ Stepped(start, code, k, wait_delete, code', wait_delete')
           /\ PropKnown(start, code', k + 1, wait_delete', const_def')
<1> DEFINE i == code[k]
           t == Trace(start, code)
           key == KeyAt(code, LVal(i))
<1>1. i.op = "load" /\ Offset(i) = NoOperand
  BY PropNames DEF Prop!LoadStep, MemoryOps
<1>2. Scanned(start, code, k, wait_delete) /\ Good(start, code) /\ SSA(start.env, code)
      /\ k \in 1 .. Len(code) /\ Len(code) \in Nat
  BY SSAFacts DEF PropInv, PropKnown, Scanned, Good
<1>3. CASE KeyKnown(code, LVal(i)) /\ key \in DOMAIN const_def /\ Prop!Replace(const_def[key])
  <2> DEFINE v == const_def[key]
  <2>1. PICK q \in 1 .. k - 1 : ConstEntry(start, code, k, q, v, key)
    BY <1>3 DEF PropInv, PropKnown, ConstsKnown
  <2>2. /\ KnownStore(code, q) /\ key = KeyAt(code, LVal(code[q])) /\ v = RVal(code[q])
        /\ t[k - 1].mem[Acc(start, code, q)] = IntOf(v)
    BY <2>1 DEF ConstEntry
  <2>3. q \in 1 .. Len(code) /\ k - 1 \in q - 1 .. Len(code) /\ k - 1 \in k - 1 .. Len(code)
    BY <1>2
  <2>4. WordOf(t[k - 1], key) = Acc(start, code, q)
    BY <1>2, <2>2, <2>3, KeyPlace DEF KnownStore, MemoryOps
  <2>5. WordOf(t[k - 1], key) = Acc(start, code, k)
    BY <1>1, <1>2, <1>3, <2>3, KeyPlace DEF MemoryOps
  <2>6. IntOf(v) = ValueOf(t[k - 1], i)
    BY <1>1, <2>2, <2>4, <2>5 DEF ValueOf, Acc
  <2>7. v \in OperandType /\ IsConst(v)
    <3>1. code[q] \in Instruction /\ Len(code[q].args) \in Nat /\ Len(code[q].args) >= 2
      BY <1>2, <2>2, <2>3, SSAFacts DEF KnownStore, Arity, Binary
    <3>2. code[q].args \in Seq(OperandType) /\ 1 \in 1 .. Len(code[q].args)
      BY <3>1 DEF Instruction
    <3>3. code[q].args[1] \in OperandType
      BY <3>2
    <3> QED BY <2>2, <3>3 DEF KnownStore, RVal
  <2>8. /\ code' = ReplaceAllUse(code, code[k].id, v)
        /\ wait_delete' = wait_delete \cup {code[k].id} /\ const_def' = const_def
    BY <1>3, PropNames DEF Prop!Replace
  <2> HIDE DEF v
  <2>9. LET d == ReplaceAllUse(code, code[k].id, v)
            ids2 == wait_delete \cup {code[k].id}
        IN  /\ Stepped(start, code, k, wait_delete, d, ids2)
            /\ PropKnown(start, d, k + 1, ids2, const_def)
    BY <1>1, <2>6, <2>7, PropReplace DEF PropInv
  <2> QED BY <2>8, <2>9
<1>4. CASE Prop!Leave /\ UNCHANGED const_def
  <2>1. code' = code /\ wait_delete' = wait_delete /\ const_def' = const_def
    BY <1>4 DEF Prop!Leave
  <2>2. Stepped(start, code, k, wait_delete, code, wait_delete)
    BY <1>2, Stays
  <2>3. PropKnown(start, code, k + 1, wait_delete, const_def)
    BY <1>1, <2>2, PropQuiet DEF PropInv
  <2> QED BY <2>1, <2>2, <2>3
<1>5. \/ KeyKnown(code, LVal(i)) /\ key \in DOMAIN const_def /\ Prop!Replace(const_def[key])
      \/ Prop!Leave /\ UNCHANGED const_def
  BY PropNames, PropPlaces DEF Prop!LoadStep
<1> QED BY <1>3, <1>4, <1>5

\* What the pass takes for granted, said of the stores it knows: where the store
\* or the call at hand leaves what one of them has written.
LEMMA PropApart ==
    ASSUME NEW m, NEW n, k = n, NEW ids, Stepped(m, code, n, ids, code, ids),
           Prop!Assumed(Trace(m, code)[n - 1]), NEW q \in 1 .. n - 1, KnownStore(code, q),
           \/ code[n].op = "call"
           \/ /\ code[n].op = "store"
              /\ ~ IF IsConst(RVal(code[n]))
                   THEN /\ KeyKnown(code, LVal(code[n]))
                        /\ KeyAt(code, LVal(code[n])) = KeyAt(code, LVal(code[q]))
                   ELSE KeyAt(code, LVal(code[q])).array = ArrayAt(code, LVal(code[n]))
    PROVE  Trace(m, code)[n].mem[Acc(m, code, q)] = Trace(m, code)[n - 1].mem[Acc(m, code, q)]
<1>1. /\ Good(m, code) /\ q \in 1 .. Len(code) /\ n - 1 \in q - 1 .. Len(code) /\ n \in 1 .. Len(code)
      /\ Len(code) \in Nat
  <2>1. Good(m, code) /\ Len(code) \in Nat /\ n \in 1 .. Len(code)
    BY SteppedFacts
  <2> QED BY <2>1
<1>2. code[q].op = "store" /\ KeyKnown(code, LVal(code[q])) /\ IsConst(RVal(code[q]))
  BY DEF KnownStore
<1>3. Accessed(Trace(m, code)[n - 1], code[q]) = Acc(m, code, q)
  BY <1>1, <1>2, LaterAlike DEF MemoryOps
<1>4. Acc(m, code, q) \in DOMAIN m.mem
  BY <1>1, <1>2, InMemory DEF MemoryOps
<1>5. Accessed(Trace(m, code)[n - 1], code[n]) = Acc(m, code, n)
  BY DEF Acc
<1>6. k <= Len(code) /\ q \in 1 .. k - 1
  BY <1>1
<1>7. /\ code[n].op = "store" => Acc(m, code, q) # Acc(m, code, n)
      /\ code[n].op = "call" => Acc(m, code, q) # Function[code[n].fn].writes
  BY <1>2, <1>3, <1>5, <1>6, PropNames
<1> QED BY <1>4, <1>7, Elsewhere

\* A store of a constant.
LEMMA PropStoreConst ==
    ASSUME PropInv, k <= Len(code), Prop!StoreConst, Prop!Assumed(Trace(start, code)[k - 1])
    PROVE  /\ Stepped(start, code, k, wait_delete, code', wait_delete')
           /\ PropKnown(start, code', k + 1, wait_delete', const_def')
<1> DEFINE i == code[k]
           t == Trace(start, code)
           key == KeyAt(code, LVal(i))
           u == Prop!Without(const_def, {key})
<1>1. i.op = "store" /\ IsConst(RVal(i)) /\ code' = code /\ wait_delete' = wait_delete
      /\ const_def' = IF KeyKnown(code, LVal(i)) THEN Prop!With(const_def, key, RVal(i))
                      ELSE const_def
  BY PropNames, PropPlaces DEF Prop!StoreConst, Prop!Leave
<1>2. Scanned(start, code, k, wait_delete) /\ Good(start, code) /\ SSA(start.env, code)
      /\ k \in 1 .. Len(code) /\ Len(code) \in Nat /\ code[k].id \notin wait_delete
  BY SSAFacts DEF PropInv, PropKnown, Scanned, Good
<1>3. Stepped(start, code, k, wait_delete, code, wait_delete)
  BY <1>2, Stays
<1>4. Offset(i) = NoOperand
  BY <1>1, <1>2, PropNames DEF MemoryOps
<1>5. CASE KeyKnown(code, LVal(i))
  <2>1. DOMAIN u = DOMAIN const_def \ {key} /\ \A x \in DOMAIN u : u[x] = const_def[x]
    BY DEF Prop!Without
  <2> HIDE DEF u
  <2>2. ASSUME NEW q \in 1 .. k - 1, KnownStore(code, q), KeyAt(code, LVal(code[q])) \in DOMAIN u
        PROVE  t[k].mem[Acc(start, code, q)] = t[k - 1].mem[Acc(start, code, q)]
    <3>1. KeyAt(code, LVal(code[k])) # KeyAt(code, LVal(code[q]))
      BY <2>1, <2>2
    <3> QED BY <1>1, <1>3, <2>2, <3>1, PropApart
  <2>3. DOMAIN u \subseteq DOMAIN const_def
    BY <2>1
  <2>4. PropKnown(start, code, k + 1, wait_delete, u)
    BY <1>2, <1>3, <2>1, <2>2, <2>3, PropKept DEF PropInv
  <2> DEFINE w == Prop!With(const_def, key, RVal(i))
  <2>5. DOMAIN w = DOMAIN u \cup {key} /\ w[key] = RVal(i)
        /\ \A x \in DOMAIN u : w[x] = u[x]
    BY <2>1 DEF Prop!With
  <2> HIDE DEF w
  <2>6. ConstEntry(start, code, k + 1, k, w[key], key)
    <3>1. KnownStore(code, k)
      BY <1>1, <1>4, <1>5 DEF KnownStore
    <3>2. Acc(start, code, k) \in DOMAIN start.mem
      BY <1>1, <1>2, InMemory DEF MemoryOps
    <3>3. t[k].mem[Acc(start, code, k)] = Val(t[k - 1], RVal(i))
      BY <1>1, <1>3, <3>2, Elsewhere
    <3>4. Val(t[k - 1], RVal(i)) = IntOf(RVal(i))
      BY <1>1 DEF Val
    <3>5. (k + 1) - 1 = k
      BY <1>2
    <3> QED BY <2>5, <3>1, <3>3, <3>4, <3>5 DEF ConstEntry
  <2>7. k \in 1 .. (k + 1) - 1
    BY <1>2
  <2>8. ConstsKnown(start, code, k + 1, w)
    <3> SUFFICES ASSUME NEW x \in DOMAIN w
                 PROVE  \E q \in 1 .. (k + 1) - 1 : ConstEntry(start, code, k + 1, q, w[x], x)
      BY DEF ConstsKnown
    <3>1. CASE x = key
      BY <2>6, <2>7, <3>1
    <3>2. CASE x # key
      <4>1. x \in DOMAIN u /\ w[x] = u[x]
        BY <2>5, <3>2
      <4>2. \E q \in 1 .. (k + 1) - 1 : ConstEntry(start, code, k + 1, q, u[x], x)
        BY <2>4, <4>1 DEF PropKnown, ConstsKnown
      <4> QED BY <4>1, <4>2
    <3> QED BY <3>1, <3>2
  <2>9. PropKnown(start, code, k + 1, wait_delete, w)
    BY <2>4, <2>8 DEF PropKnown
  <2> QED BY <1>1, <1>3, <1>5, <2>9 DEF w
<1>6. CASE ~KeyKnown(code, LVal(i))
  <2>1. ASSUME NEW q \in 1 .. k - 1, KnownStore(code, q)
        PROVE  t[k].mem[Acc(start, code, q)] = t[k - 1].mem[Acc(start, code, q)]
    BY <1>1, <1>3, <1>6, <2>1, PropApart
  <2>2. PropKnown(start, code, k + 1, wait_delete, const_def)
    BY <1>2, <1>3, <2>1, PropKept DEF PropInv
  <2> QED BY <1>1, <1>3, <1>6, <2>2
<1> QED BY <1>5, <1>6

\* A store of a value that is not known.
LEMMA PropStoreUnknown ==
    ASSUME PropInv, k <= Len(code), Prop!StoreUnknown, Prop!Assumed(Trace(start, code)[k - 1])
    PROVE  /\ Stepped(start, code, k, wait_delete, code', wait_delete')
           /\ PropKnown(start, code', k + 1, wait_delete', const_def')
<1> DEFINE i == code[k]
           t == Trace(start, code)
           gone == {key \in DOMAIN const_def : key.array = ArrayAt(code, LVal(i))}
           u == Prop!Without(const_def, gone)
<1>1. i.op = "store" /\ ~IsConst(RVal(i)) /\ code' = code /\ wait_delete' = wait_delete
      /\ const_def' = u
  BY PropNames DEF Prop!StoreUnknown, Prop!Leave
<1>2. Scanned(start, code, k, wait_delete) /\ Good(start, code) /\ SSA(start.env, code)
      /\ k \in 1 .. Len(code) /\ Len(code) \in Nat /\ code[k].id \notin wait_delete
  BY SSAFacts DEF PropInv, PropKnown, Scanned, Good
<1>3. Stepped(start, code, k, wait_delete, code, wait_delete)
  BY <1>2, Stays
<1>4. /\ DOMAIN u \subseteq DOMAIN const_def /\ \A x \in DOMAIN u : u[x] = const_def[x]
      /\ \A x \in DOMAIN u : x.array # ArrayAt(code, LVal(i))
  BY DEF Prop!Without
<1> HIDE DEF u
<1>5. ASSUME NEW q \in 1 .. k - 1, KnownStore(code, q), KeyAt(code, LVal(code[q])) \in DOMAIN u
      PROVE  t[k].mem[Acc(start, code, q)] = t[k - 1].mem[Acc(start, code, q)]
  <2>1. KeyAt(code, LVal(code[q])).array # ArrayAt(code, LVal(code[k]))
    BY <1>4, <1>5
  <2> QED BY <1>1, <1>3, <1>5, <2>1, PropApart
<1>6. PropKnown(start, code, k + 1, wait_delete, u)
  BY <1>2, <1>3, <1>4, <1>5, PropKept DEF PropInv
<1> QED BY <1>1, <1>3, <1>6

\* Another instruction, and all of them.
LEMMA PropStep ==
    ASSUME PropInv, Prop!Step, Prop!Assumed(Trace(start, code)[k - 1])
    PROVE  /\ Stepped(start, code, k, wait_delete, code', wait_delete')
           /\ PropKnown(start, code', k', wait_delete', const_def')
<1>1. k <= Len(code) /\ k' = k + 1
  BY DEF Prop!Step
<1>2. CASE Prop!OtherStep
  <2>1. code[k].op # "store" /\ code' = code /\ wait_delete' = wait_delete /\ const_def' = const_def
    BY <1>2, PropNames DEF Prop!OtherStep, Prop!Leave
  <2>2. Scanned(start, code, k, wait_delete) /\ Good(start, code) /\ SSA(start.env, code)
        /\ k \in 1 .. Len(code) /\ Len(code) \in Nat /\ code[k].id \notin wait_delete
    BY <1>1, SSAFacts DEF PropInv, PropKnown, Scanned, Good
  <2>3. Stepped(start, code, k, wait_delete, code, wait_delete)
    BY <1>1, <2>2, Stays
  <2>4. PropKnown(start, code, k + 1, wait_delete, const_def)
    <3>1. CASE code[k].op = "call"
      <4>1. ASSUME NEW q \in 1 .. k - 1, KnownStore(code, q)
            PROVE  Trace(start, code)[k].mem[Acc(start, code, q)]
                     = Trace(start, code)[k - 1].mem[Acc(start, code, q)]
        BY <2>3, <3>1, <4>1, PropApart
      <4> QED BY <2>2, <2>3, <4>1, PropKept DEF PropInv
    <3>2. CASE code[k].op # "call"
      BY <2>1, <2>3, <3>2, PropQuiet DEF PropInv
    <3> QED BY <3>1, <3>2
  <2> QED BY <1>1, <2>1, <2>3, <2>4
<1> QED BY <1>1, <1>2, PropFold, PropLoad, PropStoreConst, PropStoreUnknown DEF Prop!Step

-----------------------------------------------------------------------------
(* DeadCodeEliminate: deleteDeadStore *)

SamePlaces(i, j) == LVal(i) = LVal(j) /\ Offset(i) = Offset(j) /\ Shift(i) = Shift(j)

\* What deleteDeadStore calls by the instruction at hand, and takes for granted.
LEMMA DCENames ==
    /\ DCE!inst = code[k]
    /\ \A i, j : DCE!SamePlace(i, j) <=> SamePlaces(i, j)
    /\ \A i : DCE!RVal(i) = RVal(i) /\ DCE!LVal(i) = LVal(i)
    /\ \A m, i : DCE!Accessed(m, i) = Accessed(m, i)
    /\ \A m, v : DCE!Val(m, v) = Val(m, v)
    /\ \A id, v : DCE!ReplaceAllUse(code, id, v) = ReplaceAllUse(code, id, v)
    /\ \A m : DCE!Assumed(m) /\ k <= Len(code) =>
         /\ \A p \in 1 .. k - 1 :
              code[p].op = "store" =>
                /\ code[k].op = "store" /\ Accessed(m, code[p]) = Accessed(m, code[k])
                     => \/ SamePlaces(code[p], code[k])
                        \/ \A n \in k + 1 .. Len(code) :
                             code[n].op = "load" => LVal(code[n]) # LVal(code[p])
                /\ code[k].op = "load" /\ Accessed(m, code[p]) = Accessed(m, code[k])
                     => DCE!MayMeet(code[p], code[k])
                /\ code[k].op = "call" /\ ~DCE!SideEffectFunc(code[k].fn)
                     => Accessed(m, code[p]) # Function[code[k].fn].reads
         /\ code[k].op = "load" =>
              \A n \in k + 1 .. Len(code) :
                code[n].op \in MemoryOps => LVal(code[n]) # V(code[k].id)
         /\ code[k].op = "call" /\ ~DCE!SideEffectFunc(code[k].fn)
              => Function[code[k].fn].writes = 0 /\ ~Function[code[k].fn].io
<1>1. DCE!NoOperand = NoOperand
  BY Zenon DEF DCE!NoOperand, NoOperand
<1>2. \A i : /\ DCE!Place(i) = Place(i) /\ DCE!LVal(i) = LVal(i) /\ DCE!Offset(i) = Offset(i)
             /\ DCE!Shift(i) = Shift(i) /\ DCE!RVal(i) = RVal(i)
  BY <1>1 DEF DCE!Place, Place, DCE!LVal, LVal, DCE!Offset, Offset, DCE!Shift, Shift,
              DCE!Operand, Operand, DCE!IntOf, IntOf, DCE!RVal, RVal
<1>3. \A m, v : DCE!Val(m, v) = Val(m, v)
  BY DEF DCE!Val, Val, DCE!IntOf, IntOf, DCE!IsConst, IsConst
<1>4. \A m, p, o, s : DCE!Address(m, p, o, s) = Address(m, p, o, s)
  BY <1>1, <1>3 DEF DCE!Address, Address
<1>5. \A m, i : DCE!Accessed(m, i) = Accessed(m, i)
  BY <1>2, <1>4 DEF DCE!Accessed, Accessed
<1>6. DCE!inst = code[k] /\ \A x : DCE!V(x) = V(x)
  BY DEF DCE!inst, DCE!V, V
<1>7. \A i, j : DCE!SamePlace(i, j) <=> SamePlaces(i, j)
  BY <1>2 DEF DCE!SamePlace, SamePlaces
<1>8. \A id, v : DCE!ReplaceAllUse(code, id, v) = ReplaceAllUse(code, id, v)
  BY DEF DCE!ReplaceAllUse, ReplaceAllUse, DCE!V, V
<1>9. ASSUME NEW m, DCE!Assumed(m), k <= Len(code)
      PROVE  /\ \A p \in 1 .. k - 1 :
                  code[p].op = "store" =>
                    /\ code[k].op = "store" /\ Accessed(m, code[p]) = Accessed(m, code[k])
                         => \/ SamePlaces(code[p], code[k])
                            \/ \A n \in k + 1 .. Len(code) :
                                 code[n].op = "load" => LVal(code[n]) # LVal(code[p])
                    /\ code[k].op = "load" /\ Accessed(m, code[p]) = Accessed(m, code[k])
                         => DCE!MayMeet(code[p], code[k])
                    /\ code[k].op = "call" /\ ~DCE!SideEffectFunc(code[k].fn)
                         => Accessed(m, code[p]) # Function[code[k].fn].reads
             /\ code[k].op = "load" =>
                  \A n \in k + 1 .. Len(code) :
                    code[n].op \in MemoryOps => LVal(code[n]) # V(code[k].id)
             /\ code[k].op = "call" /\ ~DCE!SideEffectFunc(code[k].fn)
                  => Function[code[k].fn].writes = 0 /\ ~Function[code[k].fn].io
  <2> DEFINE stores == {p \in 1 .. k - 1 : code[p].op = "store"}
  <2>1. /\ code[k].op = "store" =>
             \A p \in stores : DCE!ReadLater(p) /\ Accessed(m, code[p]) = Accessed(m, code[k])
                                 => SamePlaces(code[p], code[k])
        /\ code[k].op = "load" =>
             /\ \A p \in stores : Accessed(m, code[p]) = Accessed(m, code[k])
                                    => DCE!MayMeet(code[p], code[k])
             /\ \A n \in k + 1 .. Len(code) :
                  code[n].op \in {"load", "store"} => LVal(code[n]) # V(code[k].id)
        /\ code[k].op = "call" /\ ~DCE!SideEffectFunc(code[k].fn) =>
             /\ DCE!NoEffect(code[k].fn)
             /\ \A p \in stores : Accessed(m, code[p]) # Function[code[k].fn].reads
    BY <1>2, <1>5, <1>6, <1>7, <1>9, Zenon DEF DCE!Assumed
  <2>2. \A p : ~DCE!ReadLater(p) => \A n \in k + 1 .. Len(code) :
                             code[n].op = "load" => LVal(code[n]) # LVal(code[p])
    BY <1>2 DEF DCE!ReadLater
  <2> QED BY <2>1, <2>2 DEF MemoryOps, DCE!NoEffect
<1> QED BY <1>2, <1>3, <1>5, <1>6, <1>7, <1>8, <1>9

\* What the pass knows of a store at the n-th instruction: nothing since could
\* tell it from a later one, and a load to come finds what it has stored.
StoreKnown(m, c, n, ids, p) ==
    /\ c[p].op = "store"
    /\ \A r \in p + 1 .. n - 1 : Quiet(m, c, ids, p, r)
    /\ (\E x \in n .. Len(c) : c[x].op = "load" /\ LVal(c[x]) = LVal(c[p]))
         => Trace(m, c)[n - 1].mem[Acc(m, c, p)] = Val(Trace(m, c)[n - 1], RVal(c[p]))

\* What is to be deleted is a load, or a store that another follows.
Overwritten(m, c, n, ids) ==
    \A p \in 1 .. Len(c) :
      c[p].id \in ids =>
        c[p].op = "load" \/ (c[p].op = "store" /\ \E q \in 1 .. n - 1 : Kills(m, c, ids, p, q))

DCEKnown(m, c, n, ids, stores) ==
    /\ Scanned(m, c, n, ids)
    /\ Overwritten(m, c, n, ids)
    /\ \A p \in stores : p \in 1 .. n - 1 /\ StoreKnown(m, c, n, ids, p)

\* A step of the scan.
Moved(m, c, n, ids, d, ids2) ==
    /\ Scanned(m, c, n, ids) /\ n <= Len(c)
    /\ Scanned(m, d, n + 1, ids2)
    /\ SameUpTo(c, d, n)
    /\ \A j \in 0 .. Len(c) : Trace(m, d)[j] = Trace(m, c)[j]
    /\ ids \subseteq ids2

\* What follows at once of a step of the scan.
LEMMA MovedFacts ==
    ASSUME NEW m, NEW c, NEW n, NEW ids, NEW d, NEW ids2, Moved(m, c, n, ids, d, ids2)
    PROVE  /\ Good(m, c) /\ Good(m, d) /\ Len(c) \in Nat /\ Len(d) = Len(c) /\ n \in 1 .. Len(c)
           /\ (n + 1) - 1 = n /\ n - 1 \in 0 .. Len(c) /\ n \in 0 .. Len(c)
           /\ \A e \in 1 .. n : /\ e \in 1 .. Len(c) /\ e - 1 \in 0 .. Len(c)
                                /\ d[e] = c[e] /\ Acc(m, d, e) = Acc(m, c, e)
           /\ Trace(m, d)[n] = Trace(m, c)[n]
<1>1. /\ Good(m, c) /\ Good(m, d) /\ SSA(m.env, c) /\ Len(c) \in Nat
      /\ Len(d) = Len(c) /\ n \in 1 .. Len(c)
      /\ (n + 1) - 1 = n /\ n - 1 \in 0 .. Len(c) /\ n \in 0 .. Len(c)
  BY SSAFacts DEF Moved, Scanned, Good, SameUpTo, SameShape
<1>2. \A e \in 1 .. n : /\ e \in 1 .. Len(c) /\ e - 1 \in 0 .. Len(c)
                        /\ d[e] = c[e] /\ Trace(m, d)[e - 1] = Trace(m, c)[e - 1]
  BY <1>1 DEF Moved, SameUpTo
<1>3. Trace(m, d)[n] = Trace(m, c)[n]
  BY <1>1 DEF Moved
<1> QED BY <1>1, <1>2, <1>3 DEF Acc

\* A step leaves alone what a store has stored, and that it was not read since.
LEMMA StoreKept ==
    ASSUME NEW m, NEW c, NEW n, NEW ids, NEW d, NEW ids2, Moved(m, c, n, ids, d, ids2),
           NEW p \in 1 .. n - 1, StoreKnown(m, c, n, ids, p), Quiet(m, c, ids2, p, n),
           ASSUME NEW x \in n + 1 .. Len(c), d[x].op = "load", LVal(d[x]) = LVal(c[p])
           PROVE  /\ \E y \in n .. Len(c) : c[y].op = "load" /\ LVal(c[y]) = LVal(c[p])
                  /\ Trace(m, c)[n].mem[Acc(m, c, p)] = Trace(m, c)[n - 1].mem[Acc(m, c, p)]
    PROVE  p \in 1 .. (n + 1) - 1 /\ StoreKnown(m, d, n + 1, ids2, p)
<1> DEFINE t == Trace(m, c)
<1>1. /\ Good(m, c) /\ Len(c) \in Nat /\ Len(d) = Len(c) /\ n \in 1 .. Len(c)
      /\ (n + 1) - 1 = n /\ n - 1 \in 0 .. Len(c)
      /\ \A e \in 1 .. n : /\ e \in 1 .. Len(c)
                           /\ d[e] = c[e] /\ Acc(m, d, e) = Acc(m, c, e)
      /\ Trace(m, d)[n] = t[n]
  BY MovedFacts
<1>2. p \in 1 .. n /\ p \in 1 .. Len(c) /\ n \in p - 1 .. Len(c) /\ n - 1 \in p - 1 .. Len(c)
  BY <1>1
<1>3. ASSUME NEW r \in p + 1 .. n PROVE Quiet(m, d, ids2, p, r)
  <2>1. r \in 1 .. n /\ (r \in p + 1 .. n - 1 \/ r = n)
    BY <1>1
  <2>2. ids \subseteq ids2
    BY DEF Moved
  <2>3. CASE r = n
    BY <1>1, <1>2, <2>1, <2>3 DEF Quiet
  <2>4. CASE r \in p + 1 .. n - 1
    <3>1. Quiet(m, c, ids, p, r)
      BY <2>4 DEF StoreKnown
    <3> QED BY <1>1, <1>2, <2>1, <2>2, <3>1 DEF Quiet
  <2> QED BY <2>1, <2>3, <2>4
<1>4. Val(t[n], RVal(c[p])) = Val(t[n - 1], RVal(c[p]))
  <2>1. Alike(t[p - 1], c[p], t[n], c[p]) /\ Alike(t[p - 1], c[p], t[n - 1], c[p])
    BY <1>1, <1>2, LaterAlike
  <2>2. Len(c[p].args) \in Nat /\ Len(c[p].args) >= 2
    <3>1. c[p] \in Instruction /\ Len(c[p].args) >= Arity("store")
      BY <2>1 DEF Alike, StoreKnown
    <3>2. Len(c[p].args) \in Nat
      BY <3>1, InstructionFacts
    <3> QED BY <3>1, <3>2 DEF Arity, Binary
  <2>3. 1 \in 1 .. Len(c[p].args)
    BY <2>2
  <2> QED BY <2>1, <2>3 DEF Alike, RVal
<1>5. ASSUME NEW x \in n + 1 .. Len(d), d[x].op = "load", LVal(d[x]) = LVal(d[p])
      PROVE  Trace(m, d)[n].mem[Acc(m, d, p)] = Val(Trace(m, d)[n], RVal(d[p]))
  <2>1. x \in n + 1 .. Len(c) /\ d[p] = c[p] /\ Acc(m, d, p) = Acc(m, c, p)
    BY <1>1, <1>2
  <2>2. /\ \E y \in n .. Len(c) : c[y].op = "load" /\ LVal(c[y]) = LVal(c[p])
        /\ Trace(m, c)[n].mem[Acc(m, c, p)] = Trace(m, c)[n - 1].mem[Acc(m, c, p)]
    BY <1>5, <2>1
  <2>3. t[n - 1].mem[Acc(m, c, p)] = Val(t[n - 1], RVal(c[p]))
    BY <2>2 DEF StoreKnown
  <2> QED BY <1>1, <1>4, <2>1, <2>2, <2>3
<1>6. d[p].op = "store"
  BY <1>1, <1>2 DEF StoreKnown
<1> QED BY <1>1, <1>2, <1>3, <1>5, <1>6 DEF StoreKnown

\* What is to be deleted stays overwritten.
LEMMA OverwrittenKept ==
    ASSUME NEW m, NEW c, NEW n, NEW ids, NEW d, NEW ids2, Moved(m, c, n, ids, d, ids2),
           Overwritten(m, c, n, ids),
           \A p \in 1 .. n : c[p].id \in ids2 =>
             \/ c[p].id \in ids
             \/ c[p].op = "load"
             \/ c[p].op = "store" /\ Kills(m, c, ids, p, n)
    PROVE  Overwritten(m, d, n + 1, ids2)
<1>1. /\ Len(c) \in Nat /\ Len(d) = Len(c) /\ n \in 1 .. Len(c) /\ (n + 1) - 1 = n
      /\ \A e \in 1 .. n : /\ e \in 1 .. Len(c)
                           /\ d[e] = c[e] /\ Acc(m, d, e) = Acc(m, c, e)
  BY MovedFacts
<1>2. ids \subseteq ids2 /\ \A p \in n + 1 .. Len(c) : d[p].id \notin ids2
  BY <1>1 DEF Moved, Scanned
<1>3. ASSUME NEW p \in 1 .. n, NEW q \in 1 .. n, Kills(m, c, ids, p, q)
      PROVE  Kills(m, d, ids2, p, q)
  <2>1. /\ q \in p + 1 .. Len(c) /\ c[q].op = "store" /\ Acc(m, c, q) = Acc(m, c, p)
        /\ \A r \in p + 1 .. q - 1 : Quiet(m, c, ids, p, r)
    BY <1>3 DEF Kills
  <2>2. q \in p + 1 .. Len(d) /\ d[q].op = "store" /\ Acc(m, d, q) = Acc(m, d, p)
    BY <1>1, <2>1
  <2>3. ASSUME NEW r \in p + 1 .. q - 1 PROVE Quiet(m, d, ids2, p, r)
    <3>1. r \in 1 .. n
      BY <1>1
    <3> QED BY <1>1, <1>2, <2>1, <3>1 DEF Quiet
  <2> QED BY <2>2, <2>3 DEF Kills
<1> SUFFICES ASSUME NEW p \in 1 .. Len(c), d[p].id \in ids2
             PROVE  d[p].op = "load" \/ (d[p].op = "store" /\ \E q \in 1 .. n : Kills(m, d, ids2, p, q))
  BY <1>1 DEF Overwritten
<1>4. p \in 1 .. n
  BY <1>1, <1>2
<1>5. d[p] = c[p] /\ c[p].id \in ids2
  BY <1>1, <1>4
<1>6. CASE c[p].id \in ids
  <2>1. c[p].op = "load" \/ (c[p].op = "store" /\ \E q \in 1 .. n - 1 : Kills(m, c, ids, p, q))
    BY <1>6 DEF Overwritten
  <2>2. CASE c[p].op = "load"
    BY <1>5, <2>2
  <2>3. ASSUME c[p].op = "store", NEW q \in 1 .. n - 1, Kills(m, c, ids, p, q)
        PROVE  d[p].op = "store" /\ \E r \in 1 .. n : Kills(m, d, ids2, p, r)
    <3>1. q \in 1 .. n
      BY <1>1
    <3>2. Kills(m, d, ids2, p, q)
      BY <1>3, <1>4, <2>3, <3>1
    <3> QED BY <1>5, <2>3, <3>1, <3>2
  <2> QED BY <2>1, <2>2, <2>3
<1>7. CASE c[p].op = "load"
  BY <1>5, <1>7
<1>8. CASE c[p].op = "store" /\ Kills(m, c, ids, p, n)
  <2>1. n \in 1 .. n
    BY <1>1
  <2>2. Kills(m, d, ids2, p, n)
    BY <1>3, <1>4, <1>8, <2>1
  <2> QED BY <1>5, <1>8, <2>1, <2>2
<1> QED BY <1>4, <1>5, <1>6, <1>7, <1>8

\* A step that leaves the block as it is.
LEMMA Unmoved ==
    ASSUME NEW m, NEW c, NEW n, NEW ids, Scanned(m, c, n, ids), n <= Len(c)
    PROVE  Moved(m, c, n, ids, c, ids) /\ Stepped(m, c, n, ids, c, ids)
<1>1. Stepped(m, c, n, ids, c, ids)
  BY Stays
<1> QED BY <1>1 DEF Stepped, Moved

DCEInv == DCEKnown(start, code, k, wait_delete, pre_stores)

\* What a store that the pass remembers has written, at the instruction at hand.
LEMMA DCEAt ==
    ASSUME DCEInv, k <= Len(code)
    PROVE  /\ Moved(start, code, k, wait_delete, code, wait_delete)
           /\ Stepped(start, code, k, wait_delete, code, wait_delete)
           /\ Good(start, code) /\ Len(code) \in Nat /\ k \in 1 .. Len(code)
           /\ \A p \in pre_stores :
                /\ p \in 1 .. k - 1 /\ p \in 1 .. Len(code) /\ code[p].op = "store"
                /\ StoreKnown(start, code, k, wait_delete, p)
                /\ Accessed(Trace(start, code)[k - 1], code[p]) = Acc(start, code, p)
                /\ Acc(start, code, p) \in DOMAIN start.mem
           /\ Accessed(Trace(start, code)[k - 1], code[k]) = Acc(start, code, k)
<1>1. /\ Moved(start, code, k, wait_delete, code, wait_delete)
      /\ Stepped(start, code, k, wait_delete, code, wait_delete)
  BY Unmoved DEF DCEInv, DCEKnown
<1>2. Good(start, code) /\ Len(code) \in Nat /\ k \in 1 .. Len(code)
  BY <1>1, MovedFacts
<1>3. ASSUME NEW p \in pre_stores
      PROVE  /\ p \in 1 .. k - 1 /\ p \in 1 .. Len(code) /\ code[p].op = "store"
             /\ StoreKnown(start, code, k, wait_delete, p)
             /\ Accessed(Trace(start, code)[k - 1], code[p]) = Acc(start, code, p)
             /\ Acc(start, code, p) \in DOMAIN start.mem
  <2>1. p \in 1 .. k - 1 /\ StoreKnown(start, code, k, wait_delete, p)
    BY DEF DCEInv, DCEKnown
  <2>2. p \in 1 .. Len(code) /\ k - 1 \in p - 1 .. Len(code) /\ code[p].op = "store"
    BY <1>2, <2>1 DEF StoreKnown
  <2>3. Accessed(Trace(start, code)[k - 1], code[p]) = Acc(start, code, p)
    BY <1>2, <2>2, LaterAlike DEF MemoryOps
  <2>4. Acc(start, code, p) \in DOMAIN start.mem
    BY <1>2, <2>2, InMemory DEF MemoryOps
  <2> QED BY <2>1, <2>2, <2>3, <2>4
<1> QED BY <1>1, <1>2, <1>3 DEF Acc

\* A store.
LEMMA DCEStore ==
    ASSUME DCEInv, k <= Len(code), DCE!StoreStep, DCE!Assumed(Trace(start, code)[k - 1])
    PROVE  /\ Moved(start, code, k, wait_delete, code', wait_delete')
           /\ DCEKnown(start, code', k + 1, wait_delete', pre_stores')
<1> DEFINE t == Trace(start, code)
           dead == {p \in pre_stores : SamePlaces(code[p], code[k])}
           gone == {code[p].id : p \in dead}
           ids == wait_delete \cup gone
           kept == pre_stores \ dead
<1>1. /\ code[k].op = "store" /\ code' = code
      /\ wait_delete' = ids /\ pre_stores' = kept \cup {k}
  BY DCENames DEF DCE!StoreStep
<1>2. /\ Moved(start, code, k, wait_delete, code, wait_delete)
      /\ Stepped(start, code, k, wait_delete, code, wait_delete)
      /\ Good(start, code) /\ Len(code) \in Nat /\ k \in 1 .. Len(code)
      /\ \A p \in pre_stores :
           /\ p \in 1 .. k - 1 /\ p \in 1 .. Len(code) /\ code[p].op = "store"
           /\ StoreKnown(start, code, k, wait_delete, p)
           /\ Accessed(Trace(start, code)[k - 1], code[p]) = Acc(start, code, p)
           /\ Acc(start, code, p) \in DOMAIN start.mem
      /\ Accessed(Trace(start, code)[k - 1], code[k]) = Acc(start, code, k)
  BY DCEAt
<1>3. SSA(start.env, code) /\ \A p, q \in 1 .. Len(code) : code[p].id = code[q].id => p = q
  BY <1>2, SSAFacts DEF Good
<1>4. Moved(start, code, k, wait_delete, code, ids)
  <2>1. Unused(code, ids)
    <3> SUFFICES ASSUME NEW q \in 1 .. Len(code), NEW n \in 1 .. Len(code[q].args),
                        ~IsConst(code[q].args[n])
                 PROVE  code[q].args[n][2] \notin ids
      BY DEF Unused
    <3>1. code[q].args[n][2] \notin wait_delete
      BY <1>2 DEF Moved, Scanned, Unused
    <3>2. code[q].args[n][2] \in Names(start.env, code, q - 1)
      BY <1>3, SSAFacts
    <3>3. ASSUME NEW p \in dead PROVE code[p].id # code[q].args[n][2]
      <4>1. p \in 1 .. Len(code) /\ code[p].op = "store"
        BY <1>2
      <4>2. code[p].id \notin DOMAIN start.env
        BY <1>3, <4>1, SSAFacts
      <4>3. ASSUME NEW r \in 1 .. q - 1, code[r].op # "store" PROVE code[r].id # code[p].id
        <5>1. r \in 1 .. Len(code)
          BY <1>2
        <5> QED BY <1>3, <4>1, <4>3, <5>1
      <4> QED BY <3>2, <4>2, <4>3 DEF Names
    <3> QED BY <3>1, <3>3
  <2>2. ASSUME NEW q \in k + 1 .. Len(code) PROVE code[q].id \notin ids
    <3>1. q \in k .. Len(code) /\ q \in 1 .. Len(code)
      BY <1>2
    <3>2. code[q].id \notin wait_delete
      BY <1>2, <3>1 DEF Moved, Scanned
    <3>3. ASSUME NEW p \in dead PROVE code[p].id # code[q].id
      BY <1>2, <1>3, <3>1
    <3> QED BY <3>2, <3>3
  <2> HIDE DEF ids
  <2>3. Scanned(start, code, k + 1, ids)
    BY <1>2, <2>1, <2>2 DEF Scanned
  <2>4. wait_delete \subseteq ids
    BY DEF ids
  <2> QED BY <1>2, <2>3, <2>4 DEF Moved
<1>5. Overwritten(start, code, k + 1, ids)
  <2>1. ASSUME NEW p \in 1 .. k, code[p].id \in ids, code[p].id \notin wait_delete
        PROVE  code[p].op = "store" /\ Kills(start, code, wait_delete, p, k)
    <3>1. PICK q \in dead : code[p].id = code[q].id
      BY <2>1
    <3>2. q \in 1 .. Len(code) /\ p \in 1 .. Len(code) /\ q \in pre_stores
      BY <1>2
    <3>3. p \in dead /\ p \in pre_stores
      BY <1>3, <3>1, <3>2
    <3>4. Acc(start, code, k) = Acc(start, code, p)
      <4>1. SamePlaces(code[p], code[k])
        BY <3>3
      <4> QED BY <1>2, <3>3, <4>1 DEF SamePlaces, Accessed
    <3>5. k \in p + 1 .. Len(code)
      BY <1>2, <3>3
    <3>6. \A r \in p + 1 .. k - 1 : Quiet(start, code, wait_delete, p, r)
      BY <1>2, <3>3 DEF StoreKnown
    <3> QED BY <1>1, <1>2, <3>3, <3>4, <3>5, <3>6 DEF Kills
  <2>2. Overwritten(start, code, k, wait_delete)
    BY DEF DCEInv, DCEKnown
  <2> HIDE DEF ids
  <2> QED BY <1>4, <2>1, <2>2, OverwrittenKept
<1>6. ASSUME NEW p \in kept
      PROVE  p \in 1 .. (k + 1) - 1 /\ StoreKnown(start, code, k + 1, ids, p)
  <2>1. p \in pre_stores /\ ~SamePlaces(code[p], code[k]) /\ p \in 1 .. k - 1
        /\ StoreKnown(start, code, k, wait_delete, p)
    BY <1>2
  <2>2. Quiet(start, code, ids, p, k)
    BY <1>1 DEF Quiet
  <2>3. ASSUME NEW x \in k + 1 .. Len(code), code[x].op = "load", LVal(code[x]) = LVal(code[p])
        PROVE  /\ \E y \in k .. Len(code) : code[y].op = "load" /\ LVal(code[y]) = LVal(code[p])
               /\ t[k].mem[Acc(start, code, p)] = t[k - 1].mem[Acc(start, code, p)]
    <3>1. x \in k .. Len(code)
      BY <1>2
    <3>2. Acc(start, code, p) # Acc(start, code, k)
      BY <1>1, <1>2, <2>1, <2>3, DCENames
    <3>3. Stepped(start, code, k, wait_delete, code, wait_delete)
          /\ Acc(start, code, p) \in DOMAIN start.mem /\ code[k].op = "store"
      BY <1>1, <1>2, <2>1
    <3>4. t[k].mem[Acc(start, code, p)] = t[k - 1].mem[Acc(start, code, p)]
      BY <3>2, <3>3, Elsewhere
    <3> QED BY <2>3, <3>1, <3>4
  <2> HIDE DEF ids
  <2> QED BY <1>4, <2>1, <2>2, <2>3, StoreKept
<1>7. k \in 1 .. (k + 1) - 1 /\ StoreKnown(start, code, k + 1, ids, k)
  <2>1. k \in 1 .. (k + 1) - 1 /\ (k + 1) - 1 = k /\ k + 1 .. k = {} /\ k \in k - 1 .. Len(code)
        /\ k - 1 \in k - 1 .. Len(code)
    BY <1>2
  <2>2. Acc(start, code, k) \in DOMAIN start.mem
    BY <1>1, <1>2, InMemory DEF MemoryOps
  <2>3. t[k].mem[Acc(start, code, k)] = Val(t[k - 1], RVal(code[k]))
    BY <1>1, <1>2, <2>2, Elsewhere
  <2>4. Alike(t[k - 1], code[k], t[k], code[k])
    BY <1>2, <2>1, LaterAlike
  <2>5. Val(t[k], RVal(code[k])) = Val(t[k - 1], RVal(code[k]))
    <3>1. Len(code[k].args) \in Nat /\ Len(code[k].args) >= 2
      BY <1>1, <1>2, <1>3, SSAFacts DEF Arity, Binary
    <3>2. 1 \in 1 .. Len(code[k].args)
      BY <3>1
    <3> QED BY <2>4, <3>2 DEF Alike, RVal
  <2> QED BY <1>1, <2>1, <2>3, <2>5 DEF StoreKnown
<1> HIDE DEF ids, kept
<1>8. DCEKnown(start, code, k + 1, ids, kept \cup {k})
  <2>1. Scanned(start, code, k + 1, ids)
    BY <1>4 DEF Moved
  <2> QED BY <1>5, <1>6, <1>7, <2>1 DEF DCEKnown
<1> QED BY <1>1, <1>4, <1>8

\* An instruction that leaves alone what the stores have written.
LEMMA DCEQuiet ==
    ASSUME DCEInv, k <= Len(code), NEW stores, stores \subseteq pre_stores,
           \A p \in stores :
             /\ Quiet(start, code, wait_delete, p, k)
             /\ Trace(start, code)[k].mem[Acc(start, code, p)]
                  = Trace(start, code)[k - 1].mem[Acc(start, code, p)]
    PROVE  DCEKnown(start, code, k + 1, wait_delete, stores)
<1>1. /\ Moved(start, code, k, wait_delete, code, wait_delete)
      /\ Len(code) \in Nat /\ k \in 1 .. Len(code)
      /\ \A p \in pre_stores : p \in 1 .. k - 1 /\ StoreKnown(start, code, k, wait_delete, p)
  BY DCEAt
<1>2. \A p \in 1 .. k : code[p].id \in wait_delete => code[p].id \in wait_delete
  OBVIOUS
<1>3. Overwritten(start, code, k + 1, wait_delete)
  BY <1>1, <1>2, OverwrittenKept DEF DCEInv, DCEKnown
<1>4. ASSUME NEW p \in stores
      PROVE  p \in 1 .. (k + 1) - 1 /\ StoreKnown(start, code, k + 1, wait_delete, p)
  <2>1. p \in 1 .. k - 1 /\ StoreKnown(start, code, k, wait_delete, p)
        /\ Quiet(start, code, wait_delete, p, k)
    BY <1>1
  <2>2. \A x \in k + 1 .. Len(code) : x \in k .. Len(code)
    BY <1>1
  <2> QED BY <1>1, <2>1, <2>2, StoreKept
<1>5. Scanned(start, code, k + 1, wait_delete)
  BY <1>1 DEF Moved
<1> QED BY <1>3, <1>4, <1>5 DEF DCEKnown

\* A call.
LEMMA DCECall ==
    ASSUME DCEInv, k <= Len(code), DCE!CallStep, DCE!Assumed(Trace(start, code)[k - 1])
    PROVE  /\ Moved(start, code, k, wait_delete, code', wait_delete')
           /\ DCEKnown(start, code', k + 1, wait_delete', pre_stores')
<1> DEFINE effect == DCE!SideEffectFunc(code[k].fn)
<1>1. /\ code[k].op = "call" /\ code' = code /\ wait_delete' = wait_delete
      /\ pre_stores' = IF effect THEN {} ELSE pre_stores
  BY DCENames DEF DCE!CallStep
<1>2. /\ Moved(start, code, k, wait_delete, code, wait_delete)
      /\ Stepped(start, code, k, wait_delete, code, wait_delete)
      /\ \A p \in pre_stores :
           /\ p \in 1 .. k - 1 /\ code[p].op = "store"
           /\ Accessed(Trace(start, code)[k - 1], code[p]) = Acc(start, code, p)
           /\ Acc(start, code, p) \in DOMAIN start.mem
  BY DCEAt
<1>3. CASE effect
  <2>1. DCEKnown(start, code, k + 1, wait_delete, {})
    BY DCEQuiet
  <2> QED BY <1>1, <1>2, <1>3, <2>1
<1>4. CASE ~effect
  <2>1. /\ Function[code[k].fn].writes = 0
        /\ \A p \in pre_stores : Function[code[k].fn].reads # Acc(start, code, p)
    BY <1>1, <1>2, <1>4, DCENames
  <2>2. ASSUME NEW p \in pre_stores
        PROVE  /\ Quiet(start, code, wait_delete, p, k)
               /\ Trace(start, code)[k].mem[Acc(start, code, p)]
                    = Trace(start, code)[k - 1].mem[Acc(start, code, p)]
    <3>1. Quiet(start, code, wait_delete, p, k)
      BY <1>1, <2>1 DEF Quiet
    <3>2. Trace(start, code)[k].mem = MemoryAfter(Trace(start, code)[k - 1], code[k])
      BY <1>2, SteppedFacts
    <3> QED BY <1>1, <2>1, <3>1, <3>2 DEF MemoryAfter
  <2>3. DCEKnown(start, code, k + 1, wait_delete, pre_stores)
    BY <2>2, DCEQuiet
  <2> QED BY <1>1, <1>2, <1>4, <2>3
<1> QED BY <1>3, <1>4

\* A load, which may be given the value of a store to the same place.
LEMMA DCELoad ==
    ASSUME DCEInv, k <= Len(code), DCE!LoadStep, DCE!Assumed(Trace(start, code)[k - 1])
    PROVE  /\ Moved(start, code, k, wait_delete, code', wait_delete')
           /\ DCEKnown(start, code', k + 1, wait_delete', pre_stores')
<1> DEFINE t == Trace(start, code)
           i == code[k]
           same == {p \in pre_stores : SamePlaces(code[p], code[k])}
           stores == {p \in pre_stores : p \in same \/ ~DCE!MayMeet(code[p], code[k])}
           d(q) == ReplaceAllUse(code, code[k].id, RVal(code[q]))
           ids == wait_delete \cup {code[k].id}
<1>1. /\ code[k].op = "load" /\ pre_stores' = stores
      /\ \/ same = {} /\ code' = code /\ wait_delete' = wait_delete
         \/ \E q \in same : code' = d(q) /\ wait_delete' = ids
  BY DCENames DEF DCE!LoadStep
<1>2. /\ Moved(start, code, k, wait_delete, code, wait_delete)
      /\ Stepped(start, code, k, wait_delete, code, wait_delete)
      /\ Good(start, code) /\ Len(code) \in Nat /\ k \in 1 .. Len(code)
      /\ \A p \in pre_stores :
           /\ p \in 1 .. k - 1 /\ p \in 1 .. Len(code) /\ code[p].op = "store"
           /\ StoreKnown(start, code, k, wait_delete, p)
           /\ Accessed(Trace(start, code)[k - 1], code[p]) = Acc(start, code, p)
      /\ Accessed(Trace(start, code)[k - 1], code[k]) = Acc(start, code, k)
  BY DCEAt
<1>3. SSA(start.env, code) /\ \A p, q \in 1 .. Len(code) : code[p].id = code[q].id => p = q
  BY <1>2, SSAFacts DEF Good
<1>4. t[k].mem = t[k - 1].mem
  <2>1. t[k].mem = MemoryAfter(t[k - 1], code[k])
    BY <1>2, SteppedFacts
  <2> QED BY <1>1, <2>1 DEF MemoryAfter
<1>5. CASE same = {} /\ code' = code /\ wait_delete' = wait_delete
  <2>1. ASSUME NEW p \in stores
        PROVE  Quiet(start, code, wait_delete, p, k)
    <3>1. p \in pre_stores /\ ~DCE!MayMeet(code[p], code[k])
      BY <1>5
    <3>2. Acc(start, code, p) # Acc(start, code, k)
      BY <1>1, <1>2, <3>1, DCENames
    <3> QED BY <1>1, <3>2 DEF Quiet
  <2>2. stores \subseteq pre_stores
    OBVIOUS
  <2> HIDE DEF stores
  <2>3. DCEKnown(start, code, k + 1, wait_delete, stores)
    BY <1>4, <2>1, <2>2, DCEQuiet
  <2> QED BY <1>1, <1>2, <1>5, <2>3
<1>6. ASSUME NEW q \in same, code' = d(q), wait_delete' = ids
      PROVE  /\ Moved(start, code, k, wait_delete, code', wait_delete')
             /\ DCEKnown(start, code', k + 1, wait_delete', pre_stores')
  <2> DEFINE v == RVal(code[q])
  <2>1. /\ q \in 1 .. k - 1 /\ q \in 1 .. Len(code) /\ code[q].op = "store"
        /\ StoreKnown(start, code, k, wait_delete, q)
        /\ SamePlaces(code[q], code[k])
        /\ Accessed(t[k - 1], code[q]) = Acc(start, code, q)
        /\ k \in q - 1 .. Len(code) /\ k - 1 \in q - 1 .. Len(code)
    BY <1>2
  <2>2. Acc(start, code, k) = Acc(start, code, q)
    BY <1>2, <2>1 DEF SamePlaces, Accessed
  <2>3. t[k - 1].mem[Acc(start, code, q)] = Val(t[k - 1], v)
    <3>1. k \in k .. Len(code) /\ LVal(code[k]) = LVal(code[q])
      BY <1>2, <2>1 DEF SamePlaces
    <3> QED BY <1>1, <2>1, <3>1 DEF StoreKnown
  <2>4. code[q] \in Instruction /\ 1 \in 1 .. Len(code[q].args)
    <3>1. code[q] \in Instruction /\ Len(code[q].args) \in Nat /\ Len(code[q].args) >= 2
      BY <1>3, <2>1, SSAFacts DEF Arity, Binary
    <3> QED BY <3>1
  <2>5. Val(t[k], v) = Val(t[k - 1], v)
    <3>1. Alike(t[q - 1], code[q], t[k], code[q]) /\ Alike(t[q - 1], code[q], t[k - 1], code[q])
      BY <1>2, <2>1, LaterAlike
    <3> QED BY <2>4, <3>1 DEF Alike, RVal
  <2>6. Val(t[k], V(code[k].id)) = ValueOf(t[k - 1], code[k])
    BY <1>1, <1>2, ValueMade
  <2>7. Val(t[k], v) = Val(t[k], V(code[k].id))
    BY <1>1, <1>2, <2>2, <2>3, <2>5, <2>6 DEF ValueOf
  <2>8. v \in OperandType
    <3>1. code[q].args \in Seq(OperandType)
      BY <2>4 DEF Instruction
    <3> QED BY <2>4, <3>1 DEF RVal
  <2>9. IsConst(v) \/ (v[2] \in Names(start.env, code, k - 1) /\ v[2] \notin wait_delete)
    <3>1. IsConst(v) \/ v[2] \in Names(start.env, code, q - 1)
      BY <1>3, <2>1, <2>4, SSAFacts DEF RVal
    <3>2. IsConst(v) \/ v[2] \notin wait_delete
      BY <1>2, <2>1, <2>4 DEF Moved, Scanned, Unused, RVal
    <3>3. 1 .. q - 1 \subseteq 1 .. k - 1
      BY <1>2, <2>1
    <3>4. Names(start.env, code, q - 1) \subseteq Names(start.env, code, k - 1)
      BY <3>3 DEF Names
    <3> QED BY <3>1, <3>2, <3>4
  <2>10. Scanned(start, code, k, wait_delete)
    BY <1>2 DEF Moved
  <2> HIDE DEF v, t
  <2>11. Replaces(start, code, k, wait_delete, v, ReplaceAllUse(code, code[k].id, v))
    BY <1>1, <1>2, <2>7, <2>8, <2>9, <2>10, Merged DEF t
  <2>12. code' = ReplaceAllUse(code, code[k].id, v)
    BY <1>6 DEF v
  <2>13. Replaces(start, code, k, wait_delete, v, code')
    BY <2>11, <2>12
  <2> HIDE DEF d, ids
  <2>14. Moved(start, code, k, wait_delete, code', wait_delete')
    BY <1>2, <1>6, <2>10, <2>13 DEF Replaces, Moved, ids
  <2>15. Overwritten(start, code', k + 1, wait_delete')
    <3>1. ASSUME NEW p \in 1 .. k, code[p].id \in wait_delete', code[p].id \notin wait_delete
          PROVE  code[p].op = "load"
      <4>1. p = k
        BY <1>2, <1>3, <1>6, <3>1 DEF ids
      <4> QED BY <1>1, <4>1
    <3>2. Overwritten(start, code, k, wait_delete)
      BY DEF DCEInv, DCEKnown
    <3> QED BY <2>14, <3>1, <3>2, OverwrittenKept
  <2>16. ASSUME NEW p \in stores
         PROVE  p \in 1 .. (k + 1) - 1 /\ StoreKnown(start, code', k + 1, wait_delete', p)
    <3>1. p \in 1 .. k - 1 /\ StoreKnown(start, code, k, wait_delete, p)
      BY <1>2
    <3>2. Quiet(start, code, wait_delete', p, k)
      BY <1>1, <1>6 DEF Quiet, ids
    <3>3. ASSUME NEW x \in k + 1 .. Len(code), code'[x].op = "load", LVal(code'[x]) = LVal(code[p])
          PROVE  /\ \E y \in k .. Len(code) : code[y].op = "load" /\ LVal(code[y]) = LVal(code[p])
                 /\ Trace(start, code)[k].mem[Acc(start, code, p)]
                      = Trace(start, code)[k - 1].mem[Acc(start, code, p)]
      <4>1. x \in 1 .. Len(code) /\ x \in k .. Len(code)
        BY <1>2
      <4>2. code[x].op = "load"
        BY <2>14, <3>3, <4>1 DEF Moved, SameUpTo, SameShape
      <4>3. LVal(code[x]) # V(code[k].id)
        BY <1>1, <1>2, <4>2, DCENames DEF MemoryOps
      <4>4. Len(code[x].args) \in Nat /\ Len(code[x].args) >= 1
        BY <1>3, <4>1, <4>2, SSAFacts DEF Arity, Binary
      <4>5. 1 \in 1 .. Len(code[x].args) /\ LVal(code[x]) = code[x].args[1]
            /\ LVal(code'[x]) = code'[x].args[1]
        BY <3>3, <4>2, <4>4 DEF LVal, Place
      <4>6. code'[x].args[1] = code[x].args[1]
        BY <2>13, <4>1, <4>3, <4>5 DEF Replaces
      <4> QED BY <1>4, <3>3, <4>1, <4>2, <4>5, <4>6 DEF t
    <3> QED BY <2>14, <3>1, <3>2, <3>3, StoreKept
  <2>17. Scanned(start, code', k + 1, wait_delete')
    BY <2>14 DEF Moved
  <2> HIDE DEF stores
  <2>18. DCEKnown(start, code', k + 1, wait_delete', stores)
    BY <2>15, <2>16, <2>17 DEF DCEKnown
  <2> QED BY <1>1, <2>14, <2>18
<1> HIDE DEF stores, ids, d
<1> QED BY <1>1, <1>5, <1>6

\* Another instruction, and all of them.
LEMMA DCEStep ==
    ASSUME DCEInv, DCE!Step, DCE!Assumed(Trace(start, code)[k - 1])
    PROVE  /\ Moved(start, code, k, wait_delete, code', wait_delete')
           /\ DCEKnown(start, code', k', wait_delete', pre_stores')
<1>1. k <= Len(code) /\ k' = k + 1
  BY DEF DCE!Step
<1>2. CASE DCE!OtherStep
  <2>1. /\ code[k].op \notin {"load", "store", "call"} /\ code' = code
        /\ wait_delete' = wait_delete /\ pre_stores' = pre_stores
    BY <1>2, DCENames DEF DCE!OtherStep
  <2>2. /\ Moved(start, code, k, wait_delete, code, wait_delete)
        /\ Stepped(start, code, k, wait_delete, code, wait_delete)
    BY <1>1, DCEAt
  <2>3. Trace(start, code)[k].mem = Trace(start, code)[k - 1].mem
    <3>1. Trace(start, code)[k].mem = MemoryAfter(Trace(start, code)[k - 1], code[k])
      BY <2>2, SteppedFacts
    <3> QED BY <2>1, <3>1 DEF MemoryAfter
  <2>4. DCEKnown(start, code, k + 1, wait_delete, pre_stores)
    <3>1. \A p \in pre_stores : Quiet(start, code, wait_delete, p, k)
      BY <2>1 DEF Quiet
    <3> QED BY <1>1, <2>3, <3>1, DCEQuiet
  <2> QED BY <1>1, <2>1, <2>2, <2>4
<1> QED BY <1>1, <1>2, DCEStore, DCELoad, DCECall DEF DCE!Step

-----------------------------------------------------------------------------
(* DeadCodeEliminate: deleteDeadInst *)

\* What is marked when the p-th instruction has been looked at.
MarkedAt(p, later) ==
    IF \/ DCE!SideEffect(code[p])
       \/ \E u \in later : V(code[p].id) \in DCE!Operands(code[u])
    THEN later \cup {p}
    ELSE later
IsMarked(N, f) ==
    f = [n \in 0 .. N |-> IF n = 0 THEN {} ELSE MarkedAt(Len(code) + 1 - n, f[n - 1])]

\* There is a function as the definition of Marked asks for.
LEMMA MarkedExists ==
    ASSUME NEW N \in Nat
    PROVE  \E f : IsMarked(N, f)
<1> DEFINE T == {j \in Nat : \E f : IsMarked(j, f)}
<1>1. 0 \in T
  <2> DEFINE f == [n \in 0 .. 0 |-> {}]
  <2>1. IsMarked(0, f)
    BY DEF IsMarked
  <2> QED BY <2>1
<1>2. ASSUME NEW j \in 0 .. N, j \in T PROVE j + 1 \in T
  <2>1. PICK f : IsMarked(j, f)
    BY <1>2
  <2> DEFINE next == MarkedAt(Len(code) + 1 - (j + 1), f[j])
             h == [n \in 0 .. (j + 1) |-> IF n = j + 1 THEN next ELSE f[n]]
  <2>2. \A n \in 0 .. j : f[n] = IF n = 0 THEN {} ELSE MarkedAt(Len(code) + 1 - n, f[n - 1])
    BY <2>1 DEF IsMarked
  <2>3. ASSUME NEW n \in 0 .. (j + 1)
        PROVE  h[n] = IF n = 0 THEN {} ELSE MarkedAt(Len(code) + 1 - n, h[n - 1])
    <3>1. CASE n = j + 1
      <4>1. h[n] = next /\ n # 0 /\ n - 1 = j /\ h[j] = f[j]
        BY <3>1
      <4> QED BY <3>1, <4>1
    <3>2. CASE n # j + 1
      <4>1. n \in 0 .. j /\ h[n] = f[n]
        BY <3>2
      <4>2. n # 0 => n - 1 \in 0 .. j /\ h[n - 1] = f[n - 1]
        BY <4>1
      <4> HIDE DEF h
      <4> QED BY <2>2, <4>1, <4>2
    <3> QED BY <3>1, <3>2
  <2> DEFINE h2 == [n \in 0 .. (j + 1) |->
                      IF n = 0 THEN {} ELSE MarkedAt(Len(code) + 1 - n, h[n - 1])]
  <2>4. h = h2
    <3> HIDE DEF next
    <3> QED BY <2>3
  <2> HIDE DEF h
  <2>5. IsMarked(j + 1, h)
    BY <2>4 DEF IsMarked
  <2> QED BY <1>2, <2>5
<1> HIDE DEF T
<1>3. N \in T
  BY <1>1, <1>2, UpTo
<1> QED BY <1>3 DEF T

\* What has a side effect is marked, and what a marked instruction needs.
LEMMA MarkedFacts ==
    ASSUME Len(code) \in Nat, DOMAIN code = 1 .. Len(code)
    PROVE  \A p \in 1 .. Len(code) :
             /\ DCE!SideEffect(code[p]) => p \in DCE!Marked
             /\ \A u \in p + 1 .. Len(code) :
                  u \in DCE!Marked /\ V(code[p].id) \in DCE!Operands(code[u]) => p \in DCE!Marked
<1> DEFINE N == Len(code)
<1>1. PICK f : IsMarked(N, f)
  BY MarkedExists
<1> DEFINE g == CHOOSE h : IsMarked(N, h)
<1>2. DCE!Marked = g[N]
  <2>1. \A x : DCE!V(x) = V(x)
    BY DEF DCE!V, V
  <2> QED BY <2>1 DEF DCE!Marked, IsMarked, MarkedAt
<1>3. IsMarked(N, g)
  BY <1>1
<1> HIDE DEF g
<1>4. g[0] = {} /\ \A n \in 0 .. N - 1 : g[n + 1] = MarkedAt(N - n, g[n])
  <2>1. \A n \in 0 .. N : g[n] = IF n = 0 THEN {} ELSE MarkedAt(Len(code) + 1 - n, g[n - 1])
    BY <1>3 DEF IsMarked
  <2>2. 0 \in 0 .. N
    OBVIOUS
  <2>3. ASSUME NEW n \in 0 .. N - 1 PROVE g[n + 1] = MarkedAt(N - n, g[n])
    <3>0. N \in Nat
      OBVIOUS
    <3> HIDE DEF N
    <3>1. n + 1 \in 0 .. N /\ n + 1 # 0 /\ (n + 1) - 1 = n
      <4>1. n \in Int /\ 0 <= n /\ n <= N - 1
        BY <3>0
      <4> QED BY <3>0, <4>1
    <3>2. Len(code) + 1 - (n + 1) = N - n
      <4>1. N + 1 - (n + 1) = N - n
        BY <3>0
      <4>2. Len(code) = N
        BY DEF N
      <4> QED BY <4>1, <4>2, Zenon
    <3>3. g[n + 1] = MarkedAt(Len(code) + 1 - (n + 1), g[(n + 1) - 1])
      BY <2>1, <3>1
    <3> QED BY <3>1, <3>2, <3>3
  <2> QED BY <2>1, <2>2, <2>3
<1> DEFINE Closed(n) ==
             /\ g[n] \subseteq N - n + 1 .. N
             /\ \A p \in N - n + 1 .. N :
                  /\ DCE!SideEffect(code[p]) => p \in g[n]
                  /\ \A u \in p + 1 .. N :
                       u \in g[n] /\ V(code[p].id) \in DCE!Operands(code[u]) => p \in g[n]
           T == {n \in 0 .. N : Closed(n)}
<1>5. 0 \in T
  BY <1>4
<1>6. ASSUME NEW n \in 0 .. N, n \in T, n < N PROVE n + 1 \in T
  <2> DEFINE q == N - n
  <2>1. n \in 0 .. N - 1 /\ n + 1 \in 0 .. N /\ N - (n + 1) + 1 = q /\ q \in 1 .. N
        /\ N - n + 1 = q + 1 /\ q .. N = (q + 1 .. N) \cup {q}
    BY <1>6
  <2>2. g[n + 1] = MarkedAt(q, g[n])
    BY <1>4, <2>1
  <2>3. /\ g[n] \subseteq q + 1 .. N
        /\ \A p \in q + 1 .. N :
             /\ DCE!SideEffect(code[p]) => p \in g[n]
             /\ \A u \in p + 1 .. N :
                  u \in g[n] /\ V(code[p].id) \in DCE!Operands(code[u]) => p \in g[n]
    BY <1>6, <2>1
  <2> DEFINE x == g[n]
             y == g[n + 1]
  <2> HIDE DEF q
  <2>4. x \subseteq y /\ y \subseteq x \cup {q}
    BY <2>2 DEF MarkedAt
  <2>5. (DCE!SideEffect(code[q]) \/ \E u \in x : V(code[q].id) \in DCE!Operands(code[u])) => q \in y
    BY <2>2 DEF MarkedAt
  <2> HIDE DEF x, y
  <2>6. y \subseteq q .. N
    BY <2>1, <2>3, <2>4 DEF x
  <2>7. ASSUME NEW p \in q .. N
        PROVE  /\ DCE!SideEffect(code[p]) => p \in y
               /\ \A u \in p + 1 .. N :
                    u \in y /\ V(code[p].id) \in DCE!Operands(code[u]) => p \in y
    <3>1. CASE p = q
      <4>1. \A u \in q + 1 .. N : u # q
        BY <2>1
      <4> QED BY <2>4, <2>5, <3>1, <4>1
    <3>2. CASE p \in q + 1 .. N
      <4>1. \A u \in p + 1 .. N : u # q
        BY <2>1, <3>2
      <4> QED BY <2>3, <2>4, <3>2, <4>1 DEF x
    <3> QED BY <2>1, <3>1, <3>2
  <2>8. Closed(n + 1)
    BY <2>1, <2>6, <2>7 DEF y
  <2> QED BY <2>1, <2>8
<1> HIDE DEF T
<1>7. N \in T
  <2>1. N \in Nat /\ \A n \in 0 .. N : n \in T /\ n < N => n + 1 \in T
    BY <1>6
  <2>2. \A n \in 0 .. N : n \in T
    <3> HIDE DEF N
    <3> QED BY <1>5, <2>1, UpTo
  <2> QED BY <2>1, <2>2
<1>8. Closed(N) /\ N - N + 1 = 1
  BY <1>7 DEF T
<1> QED BY <1>2, <1>8

\* What deleteDeadInst deletes may go.
LEMMA DeadInstKeeps ==
    ASSUME Good(start, code), DCE!CallsAssumed
    PROVE  /\ Good(start, Deleted(code, DCE!DeadInst))
           /\ Outcome(start, Deleted(code, DCE!DeadInst)) = Outcome(start, code)
<1> DEFINE ids == DCE!DeadInst
<1>1. /\ SSA(start.env, code) /\ Len(code) \in Nat /\ DOMAIN code = 1 .. Len(code)
      /\ \A p, q \in 1 .. Len(code) : code[p].id = code[q].id => p = q
  BY SSAFacts DEF Good
<1>2. \A p \in 1 .. Len(code) : code[p].id \in ids <=> p \notin DCE!Marked
  BY <1>1 DEF DCE!DeadInst
<1> HIDE DEF ids
<1>3. Unneeded(code, ids)
  <2> SUFFICES ASSUME NEW p \in 1 .. Len(code), code[p].id \notin ids,
                      NEW n \in 1 .. Len(code[p].args), ~IsConst(code[p].args[n]),
                      code[p].args[n][2] \in ids
               PROVE  FALSE
    BY DEF Unneeded
  <2>1. /\ code[p] \in Instruction /\ DOMAIN code[p].args = 1 .. Len(code[p].args)
        /\ code[p].args[n] = V(code[p].args[n][2])
        /\ code[p].args[n][2] \in Names(start.env, code, p - 1)
    BY <1>1, SSAFacts, InstructionFacts
  <2>2. PICK r \in 1 .. Len(code) : code[p].args[n][2] = code[r].id /\ r \notin DCE!Marked
    BY <1>1 DEF ids, DCE!DeadInst
  <2>3. code[r].id \notin DOMAIN start.env
    BY <1>1, SSAFacts
  <2>4. PICK q \in 1 .. p - 1 : code[q].id = code[r].id
    BY <2>1, <2>2, <2>3 DEF Names
  <2>5. q \in 1 .. Len(code) /\ p \in q + 1 .. Len(code)
    BY <1>1
  <2>6. q = r
    BY <1>1, <2>4, <2>5
  <2>7. V(code[r].id) \in DCE!Operands(code[p])
    BY <2>1, <2>2 DEF DCE!Operands
  <2>8. p \in DCE!Marked
    BY <1>2
  <2> QED BY <1>1, <2>2, <2>5, <2>6, <2>7, <2>8, MarkedFacts
<1>4. MayGo(start, code, ids)
  <2> SUFFICES ASSUME NEW p \in 1 .. Len(code), code[p].id \in ids
               PROVE  /\ code[p].op # "store"
                      /\ code[p].op = "call" =>
                           Function[code[p].fn].writes = 0 /\ ~Function[code[p].fn].io
    BY DEF MayGo
  <2>1. ~DCE!SideEffect(code[p])
    BY <1>1, <1>2, MarkedFacts
  <2> QED BY <1>1, <2>1 DEF DCE!SideEffect, DCE!CallsAssumed, DCE!NoEffect
<1> QED BY <1>3, <1>4, DeletedFacts DEF ids

-----------------------------------------------------------------------------
(* The passes one after the other *)

\* While a pass scans the block, it leads through the machines it led through
\* before the pass.
Follow(m, c, d) ==
    SameShape(c, d) /\ \A n \in 0 .. Len(c) : Trace(m, d)[n] = Trace(m, c)[n]

\* The inductive invariant: the block the pass began with and the block at hand
\* are in SSA form and run, and the pass knows what it says it knows.
PassesInv ==
    /\ Good(start, input) /\ Good(start, code)
    /\ pass \in {"none", "cse", "deadstore", "const"}
    /\ pass = "none" => Outcome(start, code) = Outcome(start, input)
    /\ pass # "none" => Follow(start, input, code)
    /\ pass = "cse" => CSEInv
    /\ pass = "deadstore" => DCEInv
    /\ pass = "const" => PropInv

\* A block that leads through the same machines leaves the same behind, and is
\* followed by what follows the other.
LEMMA FollowFacts ==
    ASSUME NEW m, NEW c, NEW d, Good(m, c), Good(m, d), Follow(m, c, d)
    PROVE  /\ Outcome(m, d) = Outcome(m, c) /\ Len(d) = Len(c) /\ Len(c) \in Nat
           /\ \A e : Follow(m, d, e) => Follow(m, c, e)
<1>1. Len(c) \in Nat /\ Len(d) = Len(c) /\ SameShape(c, d)
  BY SSAFacts DEF Good, Follow, SameShape
<1>2. Run(m, d) = Run(m, c)
  <2>1. Run(m, d) = Trace(m, d)[Len(c)] /\ Run(m, c) = Trace(m, c)[Len(c)]
    BY <1>1, TraceFacts
  <2>2. Trace(m, d)[Len(c)] = Trace(m, c)[Len(c)]
    BY <1>1 DEF Follow
  <2> QED BY <2>1, <2>2
<1>3. Outcome(m, d) = Outcome(m, c)
  BY <1>2 DEF Outcome
<1>4. ASSUME NEW e, Follow(m, d, e) PROVE Follow(m, c, e)
  <2>1. SameShape(c, e)
    BY <1>1, <1>4 DEF Follow, SameShape
  <2>2. \A n \in 0 .. Len(c) : Trace(m, e)[n] = Trace(m, c)[n]
    BY <1>1, <1>4 DEF Follow
  <2> QED BY <2>1, <2>2 DEF Follow
<1> QED BY <1>1, <1>3, <1>4

\* Where a scan begins nothing is deleted.
LEMMA ScanBegins ==
    ASSUME NEW m, NEW c, Good(m, c)
    PROVE  /\ Scanned(m, c, 1, {}) /\ Harmless(c, {}) /\ Overwritten(m, c, 1, {})
           /\ Follow(m, c, c)
<1>1. Len(c) \in Nat /\ 1 \in 1 .. Len(c) + 1
  BY SSAFacts DEF Good
<1> QED BY <1>1 DEF Scanned, Unused, Harmless, Overwritten, Follow, SameShape

\* And where it ends, what is to be deleted may go.
LEMMA MayGoAtEnd ==
    ASSUME NEW m, NEW c, NEW n, NEW ids, Scanned(m, c, n, ids),
           Harmless(c, ids) \/ Overwritten(m, c, n, ids)
    PROVE  MayGo(m, c, ids)
<1>1. Len(c) \in Nat /\ n \in 1 .. Len(c) + 1
  BY SSAFacts DEF Scanned, Good
<1>2. CASE Harmless(c, ids)
  BY <1>2 DEF Harmless, MayGo
<1>3. CASE Overwritten(m, c, n, ids)
  <2> SUFFICES ASSUME NEW p \in 1 .. Len(c), c[p].id \in ids
               PROVE  /\ c[p].op # "call"
                      /\ c[p].op = "store" => \E q \in 1 .. Len(c) : Kills(m, c, ids, p, q)
    BY DEF MayGo
  <2>1. c[p].op = "load" \/ (c[p].op = "store" /\ \E q \in 1 .. n - 1 : Kills(m, c, ids, p, q))
    BY <1>3 DEF Overwritten
  <2>2. \A q \in 1 .. n - 1 : q \in 1 .. Len(c)
    BY <1>1
  <2> QED BY <2>1, <2>2
<1> QED BY <1>2, <1>3

\* The machine that has come to the instruction at hand is the same in the block
\* at hand.
LEMMA HereFacts ==
    ASSUME PassesInv, pass # "none"
    PROVE  /\ Here = Trace(start, code)[k - 1]
           /\ Scanned(start, code, k, wait_delete)
           /\ MayGo(start, code, wait_delete)
<1>1. Scanned(start, code, k, wait_delete)
      /\ (Harmless(code, wait_delete) \/ Overwritten(start, code, k, wait_delete))
  BY DEF PassesInv, CSEInv, CSEKnown, DCEInv, DCEKnown, PropInv, PropKnown
<1>2. /\ Len(code) = Len(input) /\ Len(code) \in Nat /\ k \in 1 .. Len(code) + 1
      /\ Follow(start, input, code)
  BY <1>1, FollowFacts DEF PassesInv, Scanned
<1>3. k - 1 \in 0 .. Len(input)
  BY <1>2
<1>4. Trace(start, code)[k - 1] = Trace(start, input)[k - 1]
  BY <1>2, <1>3 DEF Follow
<1> QED BY <1>1, <1>4, MayGoAtEnd DEF Here

\* The blocks the passes are given satisfy the invariant.
LEMMA InitInv ==
    ASSUME Init
    PROVE  PassesInv
<1>1. PICK job \in Jobs : code = job.code /\ start = job.start
  BY DEF Init
<1>2. Good(job.start, job.code)
  BY JobsAssumption
<1> QED BY <1>1, <1>2 DEF Init, PassesInv

\* A pass begins to scan the block.
LEMMA BeginInv ==
    ASSUME PassesInv, Begin
    PROVE  PassesInv'
<1>1. /\ Good(start, code) /\ start' = start /\ code' = code /\ input' = code /\ k' = 1
      /\ wait_delete' = {}
  BY DEF PassesInv, Begin, Next
<1>2. /\ Scanned(start, code, 1, {}) /\ Harmless(code, {}) /\ Overwritten(start, code, 1, {})
      /\ Follow(start, code, code)
  BY <1>1, ScanBegins
<1>3. CASE pass' = "cse" /\ exprs' = CSE!Empty /\ load_val' = CSE!Empty /\ call_val' = CSE!Empty
  <2>1. DOMAIN CSE!Empty = {}
    BY DEF CSE!Empty
  <2>2. CSEKnown(start, code, 1, {}, CSE!Empty, CSE!Empty, CSE!Empty)
    BY <1>2, <2>1 DEF CSEKnown, ExprsKnown, LoadsKnown, CallsKnown
  <2>3. CSEInv'
    BY <1>1, <1>3, <2>2 DEF CSEInv
  <2> QED BY <1>1, <1>2, <1>3, <2>3 DEF PassesInv
<1>4. CASE pass' = "deadstore" /\ pre_stores' = {}
  <2>1. DCEKnown(start, code, 1, {}, {})
    BY <1>2 DEF DCEKnown
  <2>2. DCEInv'
    BY <1>1, <1>4, <2>1 DEF DCEInv
  <2> QED BY <1>1, <1>2, <1>4, <2>2 DEF PassesInv
<1>5. CASE pass' = "const" /\ const_def' = Prop!Empty
  <2>1. DOMAIN Prop!Empty = {}
    BY DEF Prop!Empty
  <2>2. PropKnown(start, code, 1, {}, Prop!Empty)
    BY <1>2, <2>1 DEF PropKnown, ConstsKnown
  <2>3. PropInv'
    BY <1>1, <1>5, <2>2 DEF PropInv
  <2> QED BY <1>1, <1>2, <1>5, <2>3 DEF PassesInv
<1>6. \/ pass' = "cse" /\ exprs' = CSE!Empty /\ load_val' = CSE!Empty /\ call_val' = CSE!Empty
      \/ pass' = "deadstore" /\ pre_stores' = {}
      \/ pass' = "const" /\ const_def' = Prop!Empty
  BY DEF Begin, Next, CSE!Begin, DCE!Begin, Prop!Begin
<1> QED BY <1>3, <1>4, <1>5, <1>6

\* It looks at the instruction at hand.
LEMMA ScanInv ==
    ASSUME PassesInv, Assumed, Scan
    PROVE  PassesInv'
<1>1. start' = start /\ pass' = pass /\ input' = input /\ pass \in {"cse", "deadstore", "const"}
  BY DEF Scan
<1>2. Here = Trace(start, code)[k - 1]
  BY <1>1, HereFacts
<1>3. Good(start, input) /\ Good(start, code) /\ Follow(start, input, code)
  BY <1>1 DEF PassesInv
<1>4. ASSUME SameUpTo(code, code', k),
             \A j \in 0 .. Len(code) : Trace(start, code')[j] = Trace(start, code)[j]
      PROVE  Follow(start, input, code')
  <2>1. Follow(start, code, code')
    BY <1>4 DEF Follow, SameUpTo
  <2> QED BY <1>3, <2>1, FollowFacts
<1>5. CASE pass = "cse"
  <2>1. CSEInv /\ CSE!Step /\ CSE!Assumed(Trace(start, code)[k - 1])
    BY <1>2, <1>5 DEF PassesInv, Scan, Assumed
  <2>2. /\ Stepped(start, code, k, wait_delete, code', wait_delete')
        /\ CSEKnown(start, code', k', wait_delete', exprs', load_val', call_val')
    BY <2>1, CSEStep
  <2>3. Good(start, code') /\ Follow(start, input, code')
    BY <1>4, <2>2 DEF Stepped, Scanned
  <2>4. CSEInv'
    BY <1>1, <2>2 DEF CSEInv
  <2> QED BY <1>1, <1>3, <1>5, <2>3, <2>4 DEF PassesInv
<1>6. CASE pass = "deadstore"
  <2>1. DCEInv /\ DCE!Step /\ DCE!Assumed(Trace(start, code)[k - 1])
    BY <1>2, <1>6 DEF PassesInv, Scan, Assumed
  <2>2. /\ Moved(start, code, k, wait_delete, code', wait_delete')
        /\ DCEKnown(start, code', k', wait_delete', pre_stores')
    BY <2>1, DCEStep
  <2>3. Good(start, code') /\ Follow(start, input, code')
    BY <1>4, <2>2 DEF Moved, Scanned
  <2>4. DCEInv'
    BY <1>1, <2>2 DEF DCEInv
  <2> QED BY <1>1, <1>3, <1>6, <2>3, <2>4 DEF PassesInv
<1>7. CASE pass = "const"
  <2>1. PropInv /\ Prop!Step /\ Prop!Assumed(Trace(start, code)[k - 1])
    BY <1>2, <1>7 DEF PassesInv, Scan, Assumed
  <2>2. /\ Stepped(start, code, k, wait_delete, code', wait_delete')
        /\ PropKnown(start, code', k', wait_delete', const_def')
    BY <2>1, PropStep
  <2>3. Good(start, code') /\ Follow(start, input, code')
    BY <1>4, <2>2 DEF Stepped, Scanned
  <2>4. PropInv'
    BY <1>1, <2>2 DEF PropInv
  <2> QED BY <1>1, <1>3, <1>7, <2>3, <2>4 DEF PassesInv
<1> QED BY <1>1, <1>5, <1>6, <1>7

\* It deletes what it has found to go.
LEMMA EndInv ==
    ASSUME PassesInv, End
    PROVE  PassesInv'
<1>1. /\ start' = start /\ pass' = "none" /\ input' = input /\ pass # "none"
      /\ code' = Deleted(code, wait_delete)
  BY DEF End
<1>2. /\ Good(start, Deleted(code, wait_delete))
      /\ Outcome(start, Deleted(code, wait_delete)) = Outcome(start, code)
  BY <1>1, HereFacts, ScanEnds
<1>3. Outcome(start, code) = Outcome(start, input)
  BY <1>1, FollowFacts DEF PassesInv
<1>4. Good(start, input)
  BY DEF PassesInv
<1> QED BY <1>1, <1>2, <1>3, <1>4 DEF PassesInv

\* The passes that rewrite the block at once.
LEMMA AtOnceInv ==
    ASSUME PassesInv, Assumed, DeadInst \/ Split \/ Fuse
    PROVE  PassesInv'
<1>1. /\ start' = start /\ pass' = "none" /\ input' = code /\ pass = "none"
      /\ Good(start, code)
  BY DEF PassesInv, DeadInst, Split, Fuse, Next
<1>2. Good(start, code') /\ Outcome(start, code') = Outcome(start, code)
  <2>1. CASE DeadInst
    BY <1>1, <2>1, DeadInstKeeps DEF DeadInst, Next, Assumed, Comes
  <2>2. CASE Split
    BY <2>2 DEF Split, Next, Assumed, Comes, Same
  <2>3. CASE Fuse
    BY <2>3 DEF Fuse, Next, Assumed, Comes, Same
  <2> QED BY <2>1, <2>2, <2>3
<1> QED BY <1>1, <1>2 DEF PassesInv

\* Every step keeps it.
LEMMA NextInv ==
    ASSUME PassesInv, Assumed, [Step]_vars
    PROVE  PassesInv'
<1>1. ASSUME UNCHANGED vars PROVE PassesInv'
  BY <1>1 DEF vars, PassesInv, CSEInv, DCEInv, PropInv
<1> QED BY <1>1, BeginInv, ScanInv, EndInv, AtOnceInv DEF Step, Done

\* A load the pass may give to later ones has the value memory holds.
LEMMA LoadsAreCurrent ==
    ASSUME CSEInv
    PROVE  CSE!LoadsCurrent(Trace(start, code)[k - 1])
<1> DEFINE t == Trace(start, code)
<1>1. CSE!NoOperand = NoOperand
  BY Zenon DEF CSE!NoOperand, NoOperand
<1>2. \A m, v : CSE!Val(m, v) = Val(m, v)
  BY DEF CSE!Val, Val, CSE!IntOf, IntOf, CSE!IsConst, IsConst
<1>3. \A m, p, o, s : CSE!Address(m, p, o, s) = Address(m, p, o, s)
  BY <1>1, <1>2 DEF CSE!Address, Address
<1> SUFFICES ASSUME NEW key \in DOMAIN load_val
             PROVE  Val(t[k - 1], load_val[key])
                      = t[k - 1].mem[Address(t[k - 1], key.ptr, key.off, key.shift)]
  BY <1>2, <1>3 DEF CSE!LoadsCurrent
<1>4. PICK e \in 1 .. k - 1 :
        /\ load_val[key] = V(code[e].id)
        /\ code[e].op = "load" /\ key = LoadKeyOf(code[e])
        /\ t[k - 1].mem[Acc(start, code, e)] = t[e - 1].mem[Acc(start, code, e)]
  BY DEF CSEInv, CSEKnown, LoadsKnown
<1>5. /\ Good(start, code) /\ IsMachine(start) /\ SSA(start.env, code) /\ Len(code) \in Nat
      /\ k \in 1 .. Len(code) + 1
  BY SSAFacts DEF CSEInv, CSEKnown, Scanned, Good
<1>6. /\ e \in 1 .. Len(code) /\ e \in 0 .. Len(code) /\ k - 1 \in e .. Len(code)
      /\ k - 1 \in e - 1 .. Len(code) /\ e \in 1 .. e
  BY <1>5
<1>7. Accessed(t[k - 1], code[e]) = Acc(start, code, e)
  BY <1>4, <1>5, <1>6, LaterAlike DEF MemoryOps
<1>8. Address(t[k - 1], key.ptr, key.off, key.shift) = Accessed(t[k - 1], code[e])
  BY <1>4 DEF LoadKeyOf, Accessed
<1>9. V(code[e].id)[2] \in Names(start.env, code, e)
  BY <1>4, <1>6 DEF Names, V
<1>10. Val(t[k - 1], V(code[e].id)) = Val(t[e], V(code[e].id))
  BY <1>5, <1>6, <1>9, Stable
<1>11. Val(t[e], V(code[e].id)) = ValueOf(t[e - 1], code[e])
  BY <1>4, <1>5, <1>6, ValueMade
<1> QED BY <1>4, <1>7, <1>8, <1>10, <1>11 DEF ValueOf, Acc

\* A store the pass may forward has left its value there.
LEMMA StoresAreCurrent ==
    ASSUME DCEInv
    PROVE  DCE!StoresCurrent(Trace(start, code)[k - 1])
<1>1. Good(start, code) /\ Len(code) \in Nat /\ k \in 1 .. Len(code) + 1
  BY SSAFacts DEF DCEInv, DCEKnown, Scanned, Good
<1> SUFFICES ASSUME NEW p \in pre_stores,
                    NEW n \in k .. Len(code), code[n].op = "load", SamePlaces(code[p], code[n])
             PROVE  Trace(start, code)[k - 1].mem[Accessed(Trace(start, code)[k - 1], code[p])]
                      = Val(Trace(start, code)[k - 1], RVal(code[p]))
  BY DCENames DEF DCE!StoresCurrent, DCE!Wanted
<1>2. k <= Len(code)
  BY <1>1
<1>3. /\ StoreKnown(start, code, k, wait_delete, p)
      /\ Accessed(Trace(start, code)[k - 1], code[p]) = Acc(start, code, p)
  BY <1>2, DCEAt
<1>4. LVal(code[n]) = LVal(code[p])
  BY DEF SamePlaces
<1> QED BY <1>3, <1>4 DEF StoreKnown

\* A constant the pass knows is what is there.
LEMMA ConstsAreCurrent ==
    ASSUME PropInv
    PROVE  Prop!ConstsCurrent(Trace(start, code)[k - 1])
<1> DEFINE t == Trace(start, code)
<1>1. \A m, v : Prop!Val(m, v) = Val(m, v) /\ Prop!IntOf(v) = IntOf(v)
  BY DEF Prop!Val, Val, Prop!IntOf, IntOf, Prop!IsConst, IsConst
<1>2. Good(start, code) /\ Len(code) \in Nat /\ k \in 1 .. Len(code) + 1
  BY SSAFacts DEF PropInv, PropKnown, Scanned, Good
<1>3. ASSUME NEW key \in DOMAIN const_def
      PROVE  t[k - 1].mem[WordOf(t[k - 1], key)] = IntOf(const_def[key])
  <2>1. PICK q \in 1 .. k - 1 : ConstEntry(start, code, k, q, const_def[key], key)
    BY DEF PropInv, PropKnown, ConstsKnown
  <2>2. /\ KnownStore(code, q) /\ key = KeyAt(code, LVal(code[q]))
        /\ t[k - 1].mem[Acc(start, code, q)] = IntOf(const_def[key])
    BY <2>1 DEF ConstEntry
  <2>3. q \in 1 .. Len(code) /\ k - 1 \in q - 1 .. Len(code)
    BY <1>2
  <2>4. WordOf(t[k - 1], key) = Acc(start, code, q)
    BY <1>2, <2>2, <2>3, KeyPlace DEF KnownStore, MemoryOps
  <2> QED BY <2>2, <2>4
<1> QED BY <1>1, <1>3 DEF Prop!ConstsCurrent, WordOf

\* It says what is to be shown.
LEMMA InvImplies ==
    ASSUME PassesInv
    PROVE  MemoryKnown /\ MeaningKept
<1>1. MemoryKnown
  BY HereFacts, LoadsAreCurrent, StoresAreCurrent, ConstsAreCurrent DEF PassesInv, MemoryKnown
<1>2. MeaningKept
  BY DEF PassesInv, MeaningKept
<1> QED BY <1>1, <1>2

\* The block is in SSA form and runs after every step of a pass, whatever the
\* passes have done to it.
THEOREM AlwaysGood == Spec /\ []Assumed => []Good(start, code)
<1>1. Init => PassesInv
  BY InitInv
<1>2. PassesInv /\ Assumed /\ [Step]_vars => PassesInv'
  BY NextInv
<1>3. PassesInv => Good(start, code)
  BY DEF PassesInv
<1> QED BY <1>1, <1>2, <1>3, PTL DEF Spec

\* What a pass remembers of memory is so.
THEOREM MemoryIsKnown == Spec /\ []Assumed => []MemoryKnown
<1>1. Init => PassesInv
  BY InitInv
<1>2. PassesInv /\ Assumed /\ [Step]_vars => PassesInv'
  BY NextInv
<1>3. PassesInv => MemoryKnown
  BY InvImplies
<1> QED BY <1>1, <1>2, <1>3, PTL DEF Spec

\* Whatever a pass did, the block leaves the same memory and the same calls can
\* be seen from outside.
THEOREM MeaningIsKept == Spec /\ []Assumed => []MeaningKept
<1>1. Init => PassesInv
  BY InitInv
<1>2. PassesInv /\ Assumed /\ [Step]_vars => PassesInv'
  BY NextInv
<1>3. PassesInv => MeaningKept
  BY InvImplies
<1> QED BY <1>1, <1>2, <1>3, PTL DEF Spec
=============================================================================
