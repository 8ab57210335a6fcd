------------------------- MODULE ParallelMoveProofs -------------------------
(***************************************************************************)
(* virtualRegMove carries out a parallel assignment, for every list of     *)
(* moves in which no stack slot is both read and written.  The point of    *)
(* the proof is that a cycle is broken when and only when nothing but      *)
(* cycles is left: then the sources still needed are exactly the targets   *)
(* still to be written, so that flushing the parked value is harmless.     *)
(***************************************************************************)
EXTENDS ParallelMove, FiniteSetTheorems, TLAPS

Distinct == \A i, j \in DOMAIN moves : i # j => target(i) # target(j)

\* What holds between two moves.  A location initially contains itself, so a
\* source that is intact reads as itself.
Progress ==
    /\ \A i \in pending : Read(val, source(i)) = source(i)
    /\ \A l \in Place : (\A i \in DOMAIN moves : target(i) # l) => val[l] = l
    /\ \A i \in DOMAIN moves \ pending : i # tg_val => val[target(i)] = source(i)
    /\ tg_val # 0 => val[op_reg_0] = source(tg_val)

\* While a value is parked no pending move needs op_reg_0 for itself.
ParkedIsSafe == tg_val # 0 => \A i \in pending : target(i) \notin Slot

IInv == /\ TypeOK
        /\ pc = "check" => /\ pending = DOMAIN moves
                           /\ tg_val = 0
                           /\ val = [l \in Loc |-> l]
        /\ pc = "moving" => Distinct /\ Progress /\ ParkedIsSafe
        /\ pc = "done" => /\ Distinct
                          /\ \A l \in Place :
                               (\A i \in DOMAIN moves : target(i) # l) => val[l] = l
                          /\ \A i \in DOMAIN moves : val[target(i)] = source(i)

\* moves is a finite list of well-typed pairs, none of its indices is 0.
LEMMA MovesType ==
    ASSUME TypeOK
    PROVE  /\ \A i \in DOMAIN moves : /\ target(i) \in Place
                                      /\ source(i) \in Place \cup Const
           /\ 0 \notin DOMAIN moves
           /\ IsFiniteSet(DOMAIN moves)
<1>1. moves \in Seq(Move)
  BY MoveAssumption DEF TypeOK
<1>2. DOMAIN moves = 1 .. Len(moves) /\ Len(moves) \in Nat
  BY <1>1
<1>3. \A i \in DOMAIN moves : moves[i] \in Move
  BY <1>1
<1>4. IsFiniteSet(DOMAIN moves)
  <2>1. 1 \in Int /\ Len(moves) \in Int
    BY <1>2
  <2> QED BY <1>2, <2>1, FS_Interval
<1> QED BY <1>2, <1>3, <1>4 DEF Move, target, source

\* When no move is ready only cycles are left: a pending source is a pending
\* target.  The move that waits for a move is another one for each, so all of
\* them are waited for.
LEMMA OnlyCycles ==
    ASSUME TypeOK, Distinct, \A i \in pending : ~Ready(i)
    PROVE  \A j \in pending : \E i \in pending : source(j) = target(i)
<1> DEFINE Waits(i, j) == j # i /\ source(j) = target(i)
           g == [i \in pending |-> CHOOSE j \in pending : Waits(i, j)]
<1>1. \A i \in pending : g[i] \in pending /\ Waits(i, g[i])
  <2> SUFFICES ASSUME NEW i \in pending
               PROVE  g[i] \in pending /\ Waits(i, g[i])
    OBVIOUS
  <2>1. \E j \in pending : Waits(i, j)
    BY DEF Ready, SameMapping
  <2> QED BY <2>1
<1>2. IsFiniteSet(pending)
  BY MovesType, FS_Subset DEF TypeOK
<1>3. g \in Injection(pending, pending)
  <2>1. g \in [pending -> pending]
    BY <1>1
  <2>2. ASSUME NEW a \in pending, NEW b \in pending, g[a] = g[b] PROVE a = b
    <3>1. target(a) = target(b)
      BY <1>1, <2>2
    <3>2. a \in DOMAIN moves /\ b \in DOMAIN moves
      BY DEF TypeOK
    <3> QED BY <3>1, <3>2 DEF Distinct
  <2> HIDE DEF g
  <2> QED BY <2>1, <2>2 DEF Injection, IsInjective
<1>4. g \in Surjection(pending, pending)
  <2> HIDE DEF g
  <2> QED BY <1>2, <1>3, FS_Injection
<1>5. \A j \in pending : \E i \in pending : g[i] = j
  <2> HIDE DEF g
  <2> QED BY <1>4 DEF Surjection
<1> HIDE DEF g
<1> QED BY <1>1, <1>5

\* The initial states satisfy the invariant.
LEMMA InitInv == Init => IInv
<1> SUFFICES ASSUME Init PROVE IInv
  OBVIOUS
<1>1. TypeOK
  BY DEF Init, TypeOK, Value
<1> QED BY <1>1 DEF Init, IInv

\* A step of Check keeps the invariant.
LEMMA CheckInv == IInv /\ Check => IInv'
<1> SUFFICES ASSUME IInv, Check PROVE IInv'
  OBVIOUS
<1>1. /\ pc = "check" /\ TypeOK /\ pending = DOMAIN moves /\ tg_val = 0
      /\ val = [l \in Loc |-> l]
      /\ UNCHANGED <<moves, pending, tg_val, val>>
  BY DEF IInv, Check
<1>2. TypeOK' /\ pc' \in {"moving", "abort"}
  BY <1>1 DEF Check, TypeOK
<1>3. CASE pc' = "abort"
  BY <1>2, <1>3 DEF IInv
<1>4. CASE pc' = "moving"
  <2>1. ~Race
    BY <1>4 DEF Check
  <2>2. Distinct'
    <3>1. \A i \in DOMAIN moves : target(i) \in Place
      BY <1>1, MovesType
    <3>2. Distinct
      BY <2>1, <3>1 DEF Distinct, Race, SameMapping
    <3> QED BY <1>1, <3>2 DEF Distinct, target
  <2>3. \A s \in Place \cup Const : Read(val, s) = s
    BY <1>1 DEF Read, Loc
  <2>4. Progress
    <3>1. \A i \in pending : Read(val, source(i)) = source(i)
      BY <1>1, <2>3, MovesType
    <3>2. \A l \in Place : val[l] = l
      BY <1>1 DEF Loc
    <3> QED BY <1>1, <3>1, <3>2 DEF Progress
  <2>5. Progress'
    BY <1>1, <2>4 DEF Progress, Read, source, target
  <2> QED BY <1>1, <1>2, <1>4, <2>2, <2>5 DEF IInv, ParkedIsSafe
<1> QED BY <1>2, <1>3, <1>4

\* A step of EmitMove keeps the invariant.
LEMMA EmitMoveInv == IInv /\ EmitMove => IInv'
<1> SUFFICES ASSUME IInv, EmitMove PROVE IInv'
  OBVIOUS
<1>1. PICK i \in pending : /\ Ready(i)
                           /\ val' = Moved(val, i)
                           /\ pending' = pending \ {i}
  BY DEF EmitMove
<1>2. /\ pc = "moving" /\ pc' = "moving" /\ moves' = moves /\ tg_val' = tg_val
      /\ TypeOK /\ Distinct /\ Progress /\ ParkedIsSafe
  BY DEF EmitMove, IInv
<1>3. /\ i \in DOMAIN moves
      /\ target(i) \in Place /\ source(i) \in Place \cup Const
      /\ Read(val, source(i)) = source(i)
      /\ val \in [Loc -> Value]
      /\ Place \subseteq Loc /\ op_reg_0 \in Loc /\ op_reg_0 \notin Place
  BY <1>2, MovesType, PlaceAssumption DEF TypeOK, Progress, Loc
\* The effect of the move, whichever of the three forms it has.
<1>4. /\ val' \in [Loc -> Value]
      /\ val'[target(i)] = source(i)
      /\ \A l \in Place : l # target(i) => val'[l] = val[l]
      /\ target(i) \notin Slot => val'[op_reg_0] = val[op_reg_0]
  <2>1. CASE SameMapping(target(i), source(i))
    <3>1. val' = val
      BY <1>1, <2>1 DEF Moved
    <3>2. val[source(i)] = source(i)
      BY <1>3, <2>1, PlaceAssumption DEF SameMapping, Read
    <3> QED BY <1>3, <2>1, <3>1, <3>2 DEF SameMapping
  <2>2. CASE ~SameMapping(target(i), source(i)) /\ target(i) \in Reg
    <3>1. val' = [val EXCEPT ![target(i)] = source(i)]
      BY <1>1, <1>3, <2>2 DEF Moved
    <3> QED BY <1>3, <3>1 DEF Value, Loc
  <2>3. CASE ~SameMapping(target(i), source(i)) /\ target(i) \notin Reg
    <3>1. val' = [val EXCEPT ![op_reg_0] = source(i), ![target(i)] = source(i)]
      BY <1>1, <1>3, <2>3 DEF Moved
    <3>2. target(i) \in Slot
      BY <1>3, <2>3 DEF Place
    <3> QED BY <1>3, <3>1, <3>2 DEF Value, Loc
  <2> QED BY <2>1, <2>2, <2>3
<1>5. TypeOK'
  BY <1>1, <1>2, <1>4 DEF TypeOK
<1>6. Distinct'
  BY <1>2 DEF Distinct, target
<1>7. ParkedIsSafe'
  BY <1>1, <1>2 DEF ParkedIsSafe, target
<1>8. Progress'
  <2>1. \A j \in pending' : Read(val', source(j)) = source(j)
    <3> SUFFICES ASSUME NEW j \in pending' PROVE Read(val', source(j)) = source(j)
      OBVIOUS
    <3>1. j \in pending /\ j # i /\ j \in DOMAIN moves
      BY <1>1, <1>2 DEF TypeOK
    <3>2. source(j) \in Place \cup Const /\ Read(val, source(j)) = source(j)
      BY <1>2, <3>1, MovesType DEF Progress
    <3>3. source(j) \in Place => source(j) # target(i)
      BY <1>1, <3>1 DEF Ready, SameMapping
    <3> QED BY <1>4, <3>2, <3>3 DEF Read
  <2>2. \A l \in Place : (\A j \in DOMAIN moves : target(j) # l) => val'[l] = l
    BY <1>2, <1>3, <1>4 DEF Progress
  <2>3. \A j \in DOMAIN moves \ pending' : j # tg_val => val'[target(j)] = source(j)
    <3> SUFFICES ASSUME NEW j \in DOMAIN moves \ pending', j # tg_val
                 PROVE  val'[target(j)] = source(j)
      OBVIOUS
    <3>1. CASE j = i
      BY <1>4, <3>1
    <3>2. CASE j # i
      <4>1. val[target(j)] = source(j)
        BY <1>1, <1>2, <3>2 DEF Progress
      <4>2. target(j) \in Place /\ target(j) # target(i)
        BY <1>2, <1>3, <3>2, MovesType DEF Distinct
      <4> QED BY <1>4, <4>1, <4>2
    <3> QED BY <3>1, <3>2
  <2>4. tg_val # 0 => val'[op_reg_0] = source(tg_val)
    BY <1>2, <1>4 DEF Progress, ParkedIsSafe
  <2> QED BY <1>2, <2>1, <2>2, <2>3, <2>4 DEF Progress, source, target, Read
<1> QED BY <1>2, <1>5, <1>6, <1>7, <1>8 DEF IInv

\* Flushing writes the parked source to a target no pending move reads.
LEMMA FlushedIsRight ==
    ASSUME TypeOK, Distinct, Progress,
           \A j \in pending : \E i \in pending : source(j) = target(i)
    PROVE  /\ Flushed(val) \in [Loc -> Value]
           /\ \A j \in pending : Read(Flushed(val), source(j)) = source(j)
           /\ \A l \in Place : (\A i \in DOMAIN moves : target(i) # l)
                                  => Flushed(val)[l] = l
           /\ \A i \in DOMAIN moves \ pending : Flushed(val)[target(i)] = source(i)
<1>1. CASE tg_val = 0
  <2>1. Flushed(val) = val /\ 0 \notin DOMAIN moves
    BY <1>1, MovesType DEF Flushed
  <2> QED BY <1>1, <2>1 DEF Progress, TypeOK
<1>2. CASE tg_val # 0
  <2>1. /\ tg_val \in DOMAIN moves /\ tg_val \notin pending
        /\ pending \subseteq DOMAIN moves
        /\ target(tg_val) \in Place /\ source(tg_val) \in Place \cup Const
        /\ val \in [Loc -> Value] /\ Place \subseteq Loc
    BY <1>2, MovesType DEF TypeOK, Loc
  <2>2. Flushed(val) = [val EXCEPT ![target(tg_val)] = source(tg_val)]
    BY <1>2 DEF Flushed, Progress
  <2> DEFINE v == Flushed(val)
  <2>3. /\ v \in [Loc -> Value]
        /\ v[target(tg_val)] = source(tg_val)
        /\ \A l \in Place : l # target(tg_val) => v[l] = val[l]
    BY <2>1, <2>2 DEF Value, Loc
  <2> HIDE DEF v
  <2>4. \A j \in pending : Read(v, source(j)) = source(j)
    <3> SUFFICES ASSUME NEW j \in pending PROVE Read(v, source(j)) = source(j)
      OBVIOUS
    <3>1. source(j) # target(tg_val)
      BY <2>1 DEF Distinct
    <3>2. source(j) \in Place \cup Const /\ Read(val, source(j)) = source(j)
      BY <2>1, MovesType DEF Progress
    <3> QED BY <2>3, <3>1, <3>2 DEF Read
  <2>5. \A l \in Place : (\A i \in DOMAIN moves : target(i) # l) => v[l] = l
    BY <2>1, <2>3 DEF Progress
  <2>6. \A i \in DOMAIN moves \ pending : v[target(i)] = source(i)
    <3> SUFFICES ASSUME NEW i \in DOMAIN moves \ pending, i # tg_val
                 PROVE  v[target(i)] = source(i)
      BY <2>3
    <3>1. val[target(i)] = source(i)
      BY DEF Progress
    <3>2. target(i) # target(tg_val) /\ target(i) \in Place
      BY <2>1, MovesType DEF Distinct
    <3> QED BY <2>3, <3>1, <3>2
  <2> QED BY <2>3, <2>4, <2>5, <2>6 DEF v
<1> QED BY <1>1, <1>2

\* A step of BreakCycle keeps the invariant.
LEMMA BreakCycleInv ==
    ASSUME \A m \in MoveLists : SlotFree(m)
    PROVE  IInv /\ BreakCycle => IInv'
<1> SUFFICES ASSUME IInv, BreakCycle PROVE IInv'
  OBVIOUS
<1>1. PICK i \in pending :
        /\ val' = [Flushed(val) EXCEPT ![op_reg_0] = Read(Flushed(val), source(i))]
        /\ tg_val' = i
        /\ pending' = pending \ {i}
  BY DEF BreakCycle
<1>2. /\ pc = "moving" /\ pc' = "moving" /\ moves' = moves
      /\ TypeOK /\ Distinct /\ Progress
      /\ \A j \in pending : ~Ready(j)
      /\ pending \subseteq DOMAIN moves
  BY DEF BreakCycle, IInv, TypeOK
<1>3. \A j \in pending : \E k \in pending : source(j) = target(k)
  BY <1>2, OnlyCycles
<1> DEFINE v == Flushed(val)
<1>4. /\ v \in [Loc -> Value]
      /\ \A j \in pending : Read(v, source(j)) = source(j)
      /\ \A l \in Place : (\A j \in DOMAIN moves : target(j) # l) => v[l] = l
      /\ \A j \in DOMAIN moves \ pending : v[target(j)] = source(j)
  BY <1>2, <1>3, FlushedIsRight
<1>5. /\ val' = [v EXCEPT ![op_reg_0] = source(i)]
      /\ source(i) \in Place \cup Const
      /\ \A j \in DOMAIN moves : target(j) \in Place /\ source(j) \in Place \cup Const
      /\ Place \subseteq Loc /\ op_reg_0 \in Loc /\ op_reg_0 \notin Place
  BY <1>1, <1>2, <1>4, MovesType, PlaceAssumption DEF Loc
<1> HIDE DEF v
<1>6. /\ val' \in [Loc -> Value]
      /\ val'[op_reg_0] = source(i)
      /\ \A l \in Place : val'[l] = v[l]
  BY <1>4, <1>5 DEF Value, Loc
<1>7. TypeOK'
  BY <1>1, <1>2, <1>6 DEF TypeOK
<1>8. Distinct'
  BY <1>2 DEF Distinct, target
<1>9. ParkedIsSafe'
  <2>1. \A j \in pending : target(j) \notin Slot
    <3> SUFFICES ASSUME NEW j \in pending, target(j) \in Slot PROVE FALSE
      OBVIOUS
    <3>1. PICK k \in pending : k # j /\ source(k) = target(j)
      BY <1>2 DEF Ready, SameMapping
    <3>2. SlotFree(moves)
      BY <1>2 DEF TypeOK
    <3> QED BY <1>2, <3>1, <3>2 DEF SlotFree, source, target
  <2> QED BY <1>1, <1>2, <2>1 DEF ParkedIsSafe, target
<1>10. Progress'
  <2>1. \A j \in pending' : Read(val', source(j)) = source(j)
    BY <1>1, <1>2, <1>4, <1>5, <1>6 DEF Read
  <2>2. \A l \in Place : (\A j \in DOMAIN moves : target(j) # l) => val'[l] = l
    BY <1>4, <1>6
  <2>3. \A j \in DOMAIN moves \ pending' : j # i => val'[target(j)] = source(j)
    BY <1>1, <1>4, <1>5, <1>6
  <2> QED BY <1>1, <1>2, <1>6, <2>1, <2>2, <2>3 DEF Progress, source, target, Read
<1> QED BY <1>2, <1>7, <1>8, <1>9, <1>10 DEF IInv

\* A step of Finish keeps the invariant.
LEMMA FinishInv == IInv /\ Finish => IInv'
<1> SUFFICES ASSUME IInv, Finish PROVE IInv'
  OBVIOUS
<1>1. /\ pc = "moving" /\ pc' = "done" /\ pending = {} /\ val' = Flushed(val)
      /\ UNCHANGED <<moves, pending, tg_val>>
      /\ TypeOK /\ Distinct /\ Progress
  BY DEF Finish, IInv
<1>2. /\ val' \in [Loc -> Value]
      /\ \A l \in Place : (\A i \in DOMAIN moves : target(i) # l) => val'[l] = l
      /\ \A i \in DOMAIN moves : val'[target(i)] = source(i)
  BY <1>1, FlushedIsRight
<1>3. TypeOK'
  BY <1>1, <1>2 DEF TypeOK
<1> QED BY <1>1, <1>2, <1>3 DEF IInv, Distinct, source, target

-----------------------------------------------------------------------------
\* The strengthened invariant, for lists in which no slot is moved to and from.
THEOREM Invariance ==
    ASSUME \A m \in MoveLists : SlotFree(m)
    PROVE  Spec => []IInv
<1>1. IInv /\ [Next]_vars => IInv'
  <2> SUFFICES ASSUME IInv, [Next]_vars PROVE IInv'
    OBVIOUS
  <2>1. CASE Emit
    BY <2>1, CheckInv, EmitMoveInv, BreakCycleInv, FinishInv DEF Emit
  <2>2. CASE UNCHANGED vars
    BY <2>2 DEF vars, IInv, TypeOK, Distinct, Progress, ParkedIsSafe, Read,
                target, source
  <2> QED BY <2>1, <2>2 DEF Next, Stopped
<1> QED BY <1>1, InitInv, PTL DEF Spec

\* virtualRegMove keeps its list, its parked move and the machine in range.
THEOREM TypeCorrect ==
    ASSUME \A m \in MoveLists : SlotFree(m)
    PROVE  Spec => []TypeOK
<1>1. IInv => TypeOK
  BY DEF IInv
<1> QED BY <1>1, Invariance, PTL

\* virtualRegMove carries out every list it accepts as a parallel assignment,
\* for any registers and slots, if no slot is both a target and the source of
\* another move.
THEOREM MovesAreParallel ==
    ASSUME \A m \in MoveLists : SlotFree(m)
    PROVE  Spec => []ParallelAssignment
<1>1. IInv => ParallelAssignment
  <2> SUFFICES ASSUME IInv, pc = "done", NEW l \in Place
               PROVE  val[l] = Assigned(l)
    BY DEF ParallelAssignment
  <2>1. CASE \E i \in DOMAIN moves : target(i) = l
    <3> DEFINE i == CHOOSE i \in DOMAIN moves : target(i) = l
    <3>1. i \in DOMAIN moves /\ target(i) = l
      BY <2>1
    <3>2. Assigned(l) = source(i)
      BY <2>1 DEF Assigned
    <3> HIDE DEF i
    <3> QED BY <3>1, <3>2 DEF IInv
  <2>2. CASE \A i \in DOMAIN moves : target(i) # l
    BY <2>2 DEF IInv, Assigned
  <2> QED BY <2>1, <2>2
<1> QED BY <1>1, Invariance, PTL
=============================================================================
