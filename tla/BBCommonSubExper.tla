-------------------------- MODULE BBCommonSubExper --------------------------
(***************************************************************************)
(* The pass BBCommonSubExper on a block: an expression, a load or a call   *)
(* that has been met before is replaced by its first occurrence.           *)
(* A block with a single predecessor is scanned after that predecessor     *)
(* with the same tables; code then stands for the two in sequence.         *)
(***************************************************************************)
EXTENDS BlockCode

VARIABLES code, k, wait_delete,
          exprs,       \* AEB, AEB_rconst, AEB_lconst, gep_val, gep_val_const
          load_val,    \* loads whose value memory still holds
          call_val

tables == <<exprs, load_val, call_val>>

With(t, key, v) == [x \in DOMAIN t \cup {key} |-> IF x = key THEN v ELSE t[x]]
Without(t, keys) == [x \in DOMAIN t \ keys |-> t[x]]
Empty == [x \in {} |-> NoOperand]

inst == code[k]

\* Constants are compared by value, except on the left of another.
ByValue(v) == IF IsConst(v) THEN C("", IntOf(v)) ELSE v

ExprKey == LET l == inst.args[1]
               r == inst.args[2]
           IN  IF inst.op = "gep" \/ IsConst(r) THEN <<inst.op, l, ByValue(r)>>
               ELSE <<inst.op, ByValue(l), r>>

\* Slip: the offset is not part of the key.
LoadKeySlip == [ptr |-> LVal(inst), off |-> NoOperand, shift |-> Shift(inst)]

LoadKey == [ptr |-> LVal(inst), off |-> Offset(inst), shift |-> Shift(inst)]

CallKey == <<inst.fn, [n \in DOMAIN inst.args |-> ByValue(inst.args[n])]>>

\* getEliminatableCall: the function has blocks, and none of them a store.
Eliminatable(fn) == /\ ~Function[fn].external
                    /\ Function[fn].body \cap {"store", "localStore"} = {}

\* The first occurrence takes the place of the one at hand.
Merge(v) == /\ code' = ReplaceAllUse(code, inst.id, v)
            /\ wait_delete' = wait_delete \cup {inst.id}
            /\ UNCHANGED tables

Enter == UNCHANGED <<code, wait_delete>>

\* isBinary and isGEP: an add that shifts has three operands and is neither.
IsExpr == /\ inst.op \in {"add", "sub", "mul", "div", "rem", "and", "shl", "ashr", "gep"}
          /\ Len(inst.args) = 2

ExprStep == /\ IsExpr
            /\ \/ /\ ExprKey \in DOMAIN exprs
                  /\ Merge(exprs[ExprKey])
               \/ /\ ExprKey \notin DOMAIN exprs
                  /\ exprs' = With(exprs, ExprKey, V(inst.id))
                  /\ Enter
                  /\ UNCHANGED <<load_val, call_val>>

LoadStep == /\ inst.op = "load"
            /\ \/ /\ LoadKey \in DOMAIN load_val
                  /\ Merge(load_val[LoadKey])
               \/ /\ LoadKey \notin DOMAIN load_val
                  /\ load_val' = With(load_val, LoadKey, V(inst.id))
                  /\ Enter
                  /\ UNCHANGED <<exprs, call_val>>

\* A store ends the life of the loads through its pointer.
StoreStep == /\ inst.op = "store"
             /\ load_val' = Without(load_val, {key \in DOMAIN load_val : key.ptr = LVal(inst)})
             /\ Enter
             /\ UNCHANGED <<exprs, call_val>>

\* Slip: any call with a result counts as one that may be left out.
CallStepSlip == /\ inst.op = "call"
                /\ \/ /\ ~Function[inst.fn].void
                      /\ CallKey \in DOMAIN call_val
                      /\ Merge(call_val[CallKey])
                   \/ /\ ~Function[inst.fn].void
                      /\ CallKey \notin DOMAIN call_val
                      /\ call_val' = With(call_val, CallKey, V(inst.id))
                      /\ Enter
                      /\ UNCHANGED <<exprs, load_val>>
                   \/ Function[inst.fn].void /\ Enter /\ UNCHANGED tables

CallStep == /\ inst.op = "call"
            /\ IF Eliminatable(inst.fn) /\ ~Function[inst.fn].void
               THEN \/ /\ CallKey \in DOMAIN call_val
                       /\ Merge(call_val[CallKey])
                    \/ /\ CallKey \notin DOMAIN call_val
                       /\ call_val' = With(call_val, CallKey, V(inst.id))
                       /\ Enter
                       /\ UNCHANGED <<exprs, load_val>>
               ELSE Enter /\ UNCHANGED tables

OtherStep == /\ ~IsExpr
             /\ inst.op \notin {"load", "store", "call"}
             /\ Enter
             /\ UNCHANGED tables

Begin == exprs' = Empty /\ load_val' = Empty /\ call_val' = Empty

Step == /\ k <= Len(code)
        /\ ExprStep \/ LoadStep \/ StoreStep \/ CallStep \/ OtherStep
        /\ k' = k + 1

-----------------------------------------------------------------------------
\* What load_val remembers is what memory holds, in a machine m that has come
\* to the instruction at hand.
LoadsCurrent(m) ==
    \A key \in DOMAIN load_val :
      Val(m, load_val[key]) = m.mem[Address(m, key.ptr, key.off, key.shift)]

\* What the pass takes for granted at the instruction at hand: a store through
\* another pointer goes to another place, a call writes nothing the block has
\* loaded, and functions that may be called less often have no effects and
\* read nothing the block writes.
Apart(m, word) ==
    \A q \in 1 .. k - 1 :
      /\ code[q].op = "call" /\ Eliminatable(code[q].fn) => Function[code[q].fn].reads # word
      /\ code[q].op = "load" =>
           \/ Accessed(m, code[q]) # word
           \/ inst.op = "store" /\ LVal(code[q]) = LVal(inst)

Assumed(m) ==
    k <= Len(code) =>
      /\ inst.op = "store" => Apart(m, Accessed(m, inst))
      /\ inst.op = "call" =>
           LET f == Function[inst.fn]
           IN  /\ f.writes # 0 => Apart(m, f.writes)
               /\ Eliminatable(inst.fn) => f.writes = 0 /\ ~f.io
=============================================================================
