---------------------------- MODULE ParallelMove ----------------------------
(***************************************************************************)
(* CodeGen::virtualRegMove for a list of moves: the code that carries out  *)
(* all moves as if at once.  It emits a move as soon as no other pending   *)
(* move still needs the old content of its target, and breaks a cycle by   *)
(* parking one source in the temporary register op_reg_0 (r12).  A value   *)
(* is in a register, in a stack slot or a constant.                        *)
(*                                                                         *)
(* Lists come from function entry, from calls and from the phis of a       *)
(* successor block.  The steps below are the emission, with the effect of  *)
(* the emitted instructions on the machine at once.                        *)
(***************************************************************************)
EXTENDS Integers, Sequences, FiniteSets

CONSTANTS Reg,         \* allocatable registers
          Slot,        \* stack slots
          Const,       \* constants, each its own value
          op_reg_0,    \* the temporary register
          MoveLists    \* sequences of [target, source]

Place == Reg \cup Slot
Loc == Place \cup {op_reg_0}
Move == [target : Place, source : Place \cup Const]

ASSUME PlaceAssumption == /\ Reg \cap Slot = {}
                          /\ (Place \cup Const) \cap {op_reg_0} = {}
                          /\ Place \cap Const = {}
ASSUME MoveAssumption == MoveLists \subseteq Seq(Move)

\* Initially every location holds a value of its own.
Value == Loc \cup Const

VARIABLES pc,        \* "check", "moving", "done" or "abort"
          moves,     \* the list L
          pending,   \* the indices of the moves still in L
          tg_val,    \* the index of the move op_reg_0 holds the source of, or 0
          val        \* [Loc -> Value]

vars == <<pc, moves, pending, tg_val, val>>

TypeOK == /\ pc \in {"check", "moving", "done", "abort"}
          /\ moves \in MoveLists
          /\ pending \subseteq DOMAIN moves
          /\ tg_val \in {0} \cup (DOMAIN moves \ pending)
          /\ val \in [Loc -> Value]

-----------------------------------------------------------------------------
target(i) == moves[i].target
source(i) == moves[i].source

\* isSameMapping: the same register or the same slot; a constant has neither.
SameMapping(a, b) == a \in Place /\ a = b

\* assignToSpecificReg: what the register is given.
Read(v, src) == IF src \in Const THEN src ELSE v[src]

\* virtualRegMove of one pair: by way of op_reg_0 when the target is a slot.
Moved(v, i) ==
    IF SameMapping(target(i), source(i)) THEN v
    ELSE IF target(i) \in Reg
         THEN [v EXCEPT ![target(i)] = Read(v, source(i))]
         ELSE [v EXCEPT ![op_reg_0] = Read(v, source(i)),
                        ![target(i)] = Read(v, source(i))]

\* getFromSpecificReg(tg_val, op_reg_0)
Flushed(v) == IF tg_val = 0 THEN v
              ELSE [v EXCEPT ![target(tg_val)] = v[op_reg_0]]

\* The two loops over L that look for equal targets.
Race == \E i, j \in DOMAIN moves : i # j /\ SameMapping(target(i), target(j))

\* Slip: pairs are compared with those before them only.
ReadySlip(i) == \A j \in pending : j < i => ~SameMapping(source(j), target(i))

Ready(i) == \A j \in pending : j # i => ~SameMapping(source(j), target(i))

-----------------------------------------------------------------------------
Init == /\ pc = "check"
        /\ moves \in MoveLists
        /\ pending = DOMAIN moves
        /\ tg_val = 0
        /\ val = [l \in Loc |-> l]

Check == /\ pc = "check"
         /\ pc' = IF Race THEN "abort" ELSE "moving"
         /\ UNCHANGED <<moves, pending, tg_val, val>>

\* The first pair of L, in list order, that is ready.
EmitMove ==
    /\ pc = "moving"
    /\ \E i \in pending :
         /\ Ready(i)
         /\ \A j \in pending : j < i => ~Ready(j)
         /\ val' = Moved(val, i)
         /\ pending' = pending \ {i}
    /\ UNCHANGED <<pc, moves, tg_val>>

\* Slip: the pair whose source is parked stays in L.
BreakCycleSlip ==
    /\ pc = "moving"
    /\ pending # {}
    /\ \A i \in pending : ~Ready(i)
    /\ \E i \in pending :
         /\ \A j \in pending : i <= j
         /\ val' = [Flushed(val) EXCEPT ![op_reg_0] = Read(Flushed(val), source(i))]
         /\ tg_val' = i
    /\ UNCHANGED <<pc, moves, pending>>

\* No pair is ready: what is parked goes to its target and the source of the
\* first pair is parked instead.
BreakCycle ==
    /\ pc = "moving"
    /\ pending # {}
    /\ \A i \in pending : ~Ready(i)
    /\ \E i \in pending :
         /\ \A j \in pending : i <= j
         /\ val' = [Flushed(val) EXCEPT ![op_reg_0] = Read(Flushed(val), source(i))]
         /\ tg_val' = i
         /\ pending' = pending \ {i}
    /\ UNCHANGED <<pc, moves>>

Finish == /\ pc = "moving"
          /\ pending = {}
          /\ val' = Flushed(val)
          /\ pc' = "done"
          /\ UNCHANGED <<moves, pending, tg_val>>

Stopped == pc \in {"done", "abort"} /\ UNCHANGED vars

Emit == Check \/ EmitMove \/ BreakCycle \/ Finish

Next == Emit \/ Stopped

\* The emission is a loop of the compiler.
Spec == Init /\ [][Next]_vars /\ WF_vars(Emit)

-----------------------------------------------------------------------------
(* Properties *)

\* What a parallel assignment leaves in a location.
Assigned(l) == IF \E i \in DOMAIN moves : target(i) = l
               THEN source(CHOOSE i \in DOMAIN moves : target(i) = l)
               ELSE l

\* When the emission is over every target has the value its source had before
\* the first move, and all other locations keep theirs: no move came too early,
\* no cycle was left half done, nothing parked was overwritten.
ParallelAssignment == pc = "done" => \A l \in Place : val[l] = Assigned(l)

\* The emission ends: a cycle is broken once and makes another move ready.
Terminates == <>(pc \in {"done", "abort"})

\* No slot is both the target of a move and the source of another.  So it is on
\* function entry, where the sources are argument registers and the caller's
\* stack, and at calls, where the targets are.
SlotFree(list) ==
    \A i, j \in DOMAIN list :
       i # j /\ list[i].target \in Slot => list[j].source # list[i].target

-----------------------------------------------------------------------------
(* An instance for TLC *)
Lists(n, targets, sources) == [1 .. n -> [target : targets, source : sources]]

\* All lists of up to three moves over two registers, two slots and a
\* constant in which no slot is moved to and from, and all that permute or
\* overwrite four registers: two cycles need four moves.
SmallReg == {"r0", "r1"}
MCEntryLists ==
    {m \in UNION {Lists(n, SmallReg \cup Slot, SmallReg \cup Slot \cup Const) : n \in 0 .. 3} :
       SlotFree(m)}
      \cup {[i \in 1 .. 4 |-> [target |-> t[i], source |-> s[i]]] :
              t \in {<<"r0", "r1", "r2", "r3">>, <<"r2", "r0", "r3", "r1">>},
              s \in [1 .. 4 -> Reg]}
=============================================================================
