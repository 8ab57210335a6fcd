-------------------------- MODULE DeadCodeEliminate --------------------------
(***************************************************************************)
(* The pass DeadCodeEliminate on a block: deleteDeadInst, which keeps what *)
(* an instruction with a side effect needs, and deleteDeadStore, which     *)
(* deletes a store when another to the same place follows and gives a load *)
(* the value of a store it would read.                                     *)
(***************************************************************************)
EXTENDS BlockCode

VARIABLES code, k, wait_delete,    \* wait_remove in the code
          level,                   \* "MIR_SSA" or "LIR"
          pre_stores               \* the positions of stores not yet overwritten

inst == code[k]

\* detectNotSideEffectFunc.  A store into an alloca of its own is no side
\* effect of a function while the IR has GEPs to tell by.
SideEffectFunc(fn) ==
    \/ Function[fn].external
    \/ "call" \in Function[fn].body
    \/ "store" \in Function[fn].body
    \/ level # "MIR_SSA" /\ "localStore" \in Function[fn].body

\* isSideEffect
SideEffect(i) == \/ i.op = "store"
                 \/ i.op = "call" /\ SideEffectFunc(i.fn)

Operands(i) == {i.args[n] : n \in DOMAIN i.args}

\* markUse.  Operands are defined before they are used.
Marked == LET marked[n \in 0 .. Len(code)] ==
                IF n = 0 THEN {}
                ELSE LET p == Len(code) + 1 - n
                         later == marked[n - 1]
                     IN  IF \/ SideEffect(code[p])
                            \/ \E u \in later : V(code[p].id) \in Operands(code[u])
                         THEN later \cup {p}
                         ELSE later
          IN  marked[Len(code)]

\* What deleteDeadInst deletes.
DeadInst == {code[n].id : n \in DOMAIN code \ Marked}

\* getFirstAddr: down the pointer operands to where the address comes from.
FirstAddr(v) ==
    LET down[n \in 0 .. Len(code)] ==
          IF n = 0 THEN v
          ELSE LET w == down[n - 1]
               IN  IF Defined(code, w) /\ DefOf(code, w).op \in {"gep", "add"}
                   THEN DefOf(code, w).args[1]
                   ELSE w
    IN  down[Len(code)]

\* isEqualStorePtr and isStrictEqualStoreLoadPtr
SamePlace(a, b) == /\ LVal(a) = LVal(b)
                   /\ Offset(a) = Offset(b)
                   /\ Shift(a) = Shift(b)

\* isEqualStoreLoadPtr
MayMeet(a, b) == LVal(a) # LVal(b) => FirstAddr(LVal(a)) = FirstAddr(LVal(b))

StoreStep == /\ inst.op = "store"
             /\ LET dead == {p \in pre_stores : SamePlace(code[p], inst)}
                IN  /\ wait_delete' = wait_delete \cup {code[p].id : p \in dead}
                    /\ pre_stores' = (pre_stores \ dead) \cup {k}
             /\ UNCHANGED code

LoadStep ==
    /\ inst.op = "load"
    /\ LET same == {p \in pre_stores : SamePlace(code[p], inst)}
       IN  /\ pre_stores' = {p \in pre_stores : p \in same \/ ~MayMeet(code[p], inst)}
           /\ \/ /\ same = {}
                 /\ UNCHANGED <<code, wait_delete>>
              \/ \E p \in same : /\ code' = ReplaceAllUse(code, inst.id, RVal(code[p]))
                                 /\ wait_delete' = wait_delete \cup {inst.id}

CallStep == /\ inst.op = "call"
            /\ pre_stores' = IF SideEffectFunc(inst.fn) THEN {} ELSE pre_stores
            /\ UNCHANGED <<code, wait_delete>>

OtherStep == /\ inst.op \notin {"load", "store", "call"}
             /\ UNCHANGED <<code, wait_delete, pre_stores>>

Begin == pre_stores' = {}

Step == /\ k <= Len(code)
        /\ StoreStep \/ LoadStep \/ CallStep \/ OtherStep
        /\ k' = k + 1
        /\ UNCHANGED level

-----------------------------------------------------------------------------
\* What a store has written that a load to come may be given is still there,
\* in a machine m that has come to the instruction at hand.
Wanted(p) == \E n \in k .. Len(code) : code[n].op = "load" /\ SamePlace(code[p], code[n])
StoresCurrent(m) == \A p \in pre_stores :
                      Wanted(p) => m.mem[Accessed(m, code[p])] = Val(m, RVal(code[p]))

\* What deleteDeadStore takes for granted at the instruction at hand: pointers
\* are not loaded, two ways to one place whose first is read later are written
\* alike, pointers that come from different places do not meet, and a function
\* without a side effect reads nothing the block has stored.
ReadLater(p) == \E n \in k + 1 .. Len(code) :
                  code[n].op = "load" /\ LVal(code[n]) = LVal(code[p])

NoEffect(fn) == Function[fn].writes = 0 /\ ~Function[fn].io

Assumed(m) ==
    k <= Len(code) =>
      LET stores == {p \in 1 .. k - 1 : code[p].op = "store"}
      IN  /\ inst.op = "store" =>
               \A p \in stores : ReadLater(p) /\ Accessed(m, code[p]) = Accessed(m, inst)
                                   => SamePlace(code[p], inst)
          /\ inst.op = "load" =>
               /\ \A p \in stores : Accessed(m, code[p]) = Accessed(m, inst)
                                     => MayMeet(code[p], inst)
               /\ \A n \in k + 1 .. Len(code) :
                    code[n].op \in {"load", "store"} => LVal(code[n]) # V(inst.id)
          /\ inst.op = "call" /\ ~SideEffectFunc(inst.fn) =>
               /\ NoEffect(inst.fn)
               /\ \A p \in stores : Accessed(m, code[p]) # Function[inst.fn].reads

\* And deleteDeadInst.
CallsAssumed == \A n \in DOMAIN code :
                  code[n].op = "call" /\ ~SideEffectFunc(code[n].fn) => NoEffect(code[n].fn)
=============================================================================
