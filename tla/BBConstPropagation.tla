------------------------- MODULE BBConstPropagation -------------------------
(***************************************************************************)
(* The pass BBConstPropagation on a block: operations on constants are     *)
(* folded, and a load is replaced by the constant last stored into the     *)
(* global or the array element it reads.                                   *)
(***************************************************************************)
EXTENDS BlockCode

CONSTANT GlobalVariable    \* the names of scalar globals

VARIABLES code, k, wait_delete,
          const_def        \* array_const_def_ and global_def_

With(t, key, v) == [x \in DOMAIN t \cup {key} |-> IF x = key THEN v ELSE t[x]]
Without(t, keys) == [x \in DOMAIN t \ keys |-> t[x]]
Empty == [x \in {} |-> NoOperand]

inst == code[k]

\* Where a pointer leads: into an array, named by the operand of a gep, or to
\* a global.
IsGlobal(v) == \E g \in GlobalVariable : v = V(g)
IsElement(v) == IsOp(code, v, "gep")
Array(v) == DefOf(code, v).args[1]
Index(v) == DefOf(code, v).args[2]

\* The keys of getDefVal and setDefVal, which give up at an index that is no
\* constant.
HasKey(v) == IsGlobal(v) \/ (IsElement(v) /\ IsConst(Index(v)))
KeyOf(v) == IF IsGlobal(v) THEN [array |-> v, index |-> 0]
            ELSE [array |-> Array(v), index |-> IntOf(Index(v))]

Folds == {"add", "sub", "mul", "div", "rem", "and"}

\* ConstFlod::compute makes a new constant.
Computed == C(inst.id, Result([env |-> <<>>], inst))

Replace(v) == /\ code' = ReplaceAllUse(code, inst.id, v)
              /\ wait_delete' = wait_delete \cup {inst.id}
              /\ UNCHANGED const_def

Leave == UNCHANGED <<code, wait_delete>>

Constant == /\ inst.op \in Folds
            /\ IsConst(inst.args[1]) /\ IsConst(inst.args[2])

FoldStep == Constant /\ Replace(Computed)

LoadStep == /\ inst.op = "load"
            /\ IF HasKey(LVal(inst)) /\ KeyOf(LVal(inst)) \in DOMAIN const_def
               THEN Replace(const_def[KeyOf(LVal(inst))])
               ELSE Leave /\ UNCHANGED const_def

StoreConst == /\ inst.op = "store"
              /\ IsConst(RVal(inst))
              /\ const_def' = IF HasKey(LVal(inst))
                              THEN With(const_def, KeyOf(LVal(inst)), RVal(inst))
                              ELSE const_def
              /\ Leave

\* What the store of an unknown value ends: all that is known of its array.
Forgotten == {key \in DOMAIN const_def :
                key.array = IF IsElement(LVal(inst)) THEN Array(LVal(inst)) ELSE LVal(inst)}

StoreUnknown == /\ inst.op = "store"
                /\ ~IsConst(RVal(inst))
                /\ const_def' = Without(const_def, Forgotten)
                /\ Leave

OtherStep == /\ inst.op \notin {"load", "store"}
             /\ ~Constant
             /\ Leave
             /\ UNCHANGED const_def

Begin == const_def' = Empty

Step == /\ k <= Len(code)
        /\ FoldStep \/ LoadStep \/ StoreConst \/ StoreUnknown \/ OtherStep
        /\ k' = k + 1

-----------------------------------------------------------------------------
\* What is known of memory is so, in a machine m that has come to the
\* instruction at hand.
ConstsCurrent(m) ==
    \A key \in DOMAIN const_def :
      m.mem[Val(m, key.array) + key.index * ElementSize] = IntOf(const_def[key])

\* What the pass takes for granted at the instruction at hand: accesses have no
\* offset yet, a store goes to the place of a known one only if it says so, and
\* a call writes to none.
Known == {q \in 1 .. k - 1 :
            code[q].op = "store" /\ HasKey(LVal(code[q])) /\ IsConst(RVal(code[q]))}
Ends(q) == LET key == KeyOf(LVal(code[q]))
           IN  IF IsConst(RVal(inst)) THEN HasKey(LVal(inst)) /\ KeyOf(LVal(inst)) = key
               ELSE key.array = IF IsElement(LVal(inst)) THEN Array(LVal(inst)) ELSE LVal(inst)

Assumed(m) ==
    k <= Len(code) =>
      /\ inst.op \in {"load", "store"} => Offset(inst) = NoOperand
      /\ inst.op = "store" =>
           \A q \in Known : Accessed(m, code[q]) = Accessed(m, inst) => Ends(q)
      /\ inst.op = "call" =>
           \A q \in Known : Accessed(m, code[q]) # Function[inst.fn].writes
=============================================================================
