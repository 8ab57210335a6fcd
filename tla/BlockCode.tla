------------------------------ MODULE BlockCode ------------------------------
(***************************************************************************)
(* The code of a basic block and what it does when it is run: the common   *)
(* ground of the passes that rewrite blocks, and the reference they are    *)
(* held against.                                                           *)
(*                                                                         *)
(* An instruction has id, its name, also that of its value; op; args, its  *)
(* operands in the order of the IR, a store's value before its pointer;    *)
(* and fn, what a call calls.  A load or store may have an offset, and     *)
(* after it a constant to shift it by, an add such a constant for its      *)
(* second operand.  An operand is a named value or a constant.  A constant *)
(* is an object of its own (ConstantInt::get makes a new one each time):   *)
(* two with one value are told apart where the code compares pointers.     *)
(***************************************************************************)
EXTENDS Integers, Sequences, SequencesExt

CONSTANTS Function,    \* [name -> what a function does, see Called]
          ElementSize  \* bytes of an array element

ASSUME ElementSizeAssumption == ElementSize \in Int

V(name) == <<"value", name, 0>>
C(object, n) == <<"const", object, n>>
NoOperand == <<"none", "", 0>>
IsConst(v) == v[1] = "const"
IntOf(v) == v[3]

Instr(op, id, args) == [op |-> op, id |-> id, args |-> args, fn |-> ""]
Call(id, fn, args) == [op |-> "call", id |-> id, args |-> args, fn |-> fn]

\* getLVal, getOffset, getShift, getRVal of a load or store
Operand(inst, n) == IF n \in DOMAIN inst.args THEN inst.args[n] ELSE NoOperand
Place(inst) == IF inst.op = "store" THEN 2 ELSE 1
LVal(inst) == inst.args[Place(inst)]
Offset(inst) == Operand(inst, Place(inst) + 1)
Shift(inst) == IntOf(Operand(inst, Place(inst) + 2))
RVal(inst) == inst.args[1]

\* Value::replaceAllUseWith
ReplaceAllUse(code, id, v) ==
    [n \in DOMAIN code |->
       [code[n] EXCEPT !.args = [m \in DOMAIN @ |-> IF @[m] = V(id) THEN v ELSE @[m]]]]

\* BasicBlock::deleteInstr of each instruction in a wait_delete list: what is
\* left of the first n instructions.
Kept(code, ids) ==
    LET kept[n \in 0 .. Len(code)] ==
          IF n = 0 THEN <<>>
          ELSE IF code[n].id \in ids THEN kept[n - 1] ELSE Append(kept[n - 1], code[n])
    IN  kept
Deleted(code, ids) == Kept(code, ids)[Len(code)]

\* The instruction that defines an operand, if one of the block does.
Defined(code, v) == \E n \in DOMAIN code : v = V(code[n].id)
DefOf(code, v) == code[CHOOSE n \in DOMAIN code : v = V(code[n].id)]
IsOp(code, v, op) == Defined(code, v) /\ DefOf(code, v).op = op

MemoryOps == {"load", "store"}
Binary == {"add", "sub", "mul", "div", "rem", "and", "shl", "ashr", "gep"}
Operations == MemoryOps \cup Binary \cup {"call", "muladd"}

\* How many operands an instruction has at least.
Arity(op) == IF op \in Binary \cup {"store"} THEN 2
             ELSE IF op = "muladd" THEN 3 ELSE IF op = "load" THEN 1 ELSE 0

\* An operand that names a value has it at the p-th instruction: it came into
\* the block, or an instruction before has made it.
Settled(env, code, v, p) ==
    \/ IsConst(v)
    \/ v[2] \in DOMAIN env
    \/ \E q \in 1 .. p - 1 : v[2] = code[q].id /\ code[q].op # "store"

\* A block in SSA form.
OperandType == ({"value"} \X STRING \X {0}) \cup ({"const"} \X STRING \X Int)
Instruction == [op : Operations, id : STRING, args : Seq(OperandType), fn : STRING]
SSA(env, code) ==
    /\ code \in Seq(Instruction)
    /\ \A p \in DOMAIN code :
         /\ code[p].id \notin DOMAIN env
         /\ \A q \in DOMAIN code : code[q].id = code[p].id => q = p
         /\ Len(code[p].args) >= Arity(code[p].op)
         /\ \A n \in DOMAIN code[p].args : Settled(env, code, code[p].args[n], p)
         /\ code[p].op = "add" /\ Len(code[p].args) > 2 => IsConst(code[p].args[3])
         /\ code[p].op \in MemoryOps /\ Len(code[p].args) > Place(code[p]) + 1
              => IsConst(code[p].args[Place(code[p]) + 2])

-----------------------------------------------------------------------------
(* The machine: the value of each name, the memory, and the calls that     *)
(* outside can see, with their arguments.                                  *)

Val(m, v) == IF IsConst(v) THEN IntOf(v) ELSE m.env[v[2]]

Address(m, ptr, off, shift) ==
    Val(m, ptr) + IF off = NoOperand THEN 0 ELSE Val(m, off) * 2 ^ shift

Accessed(m, inst) == Address(m, LVal(inst), Offset(inst), Shift(inst))

Quotient(x, y) == IF (x >= 0) = (y > 0)
                  THEN (IF x >= 0 THEN x ELSE -x) \div (IF y > 0 THEN y ELSE -y)
                  ELSE -((IF x >= 0 THEN x ELSE -x) \div (IF y > 0 THEN y ELSE -y))

\* An and has a mask of low bits for its second operand.
Result(m, inst) ==
    LET l == Val(m, inst.args[1])
        r == Val(m, inst.args[2])
    IN  CASE inst.op = "add" -> l + r * 2 ^ IntOf(Operand(inst, 3))
          [] inst.op = "sub" -> l - r
          [] inst.op = "mul" -> l * r
          [] inst.op = "div" -> Quotient(l, r)
          [] inst.op = "rem" -> l - r * Quotient(l, r)
          [] inst.op = "and" -> l % (r + 1)
          [] inst.op = "shl" -> l * 2 ^ r
          [] inst.op = "ashr" -> l \div 2 ^ r
          [] inst.op = "muladd" -> l * r + Val(m, inst.args[3])
          [] inst.op = "gep" -> l + r * ElementSize

Set(m, id, n) ==
    [m EXCEPT !.env = [x \in DOMAIN @ \cup {id} |-> IF x = id THEN n ELSE @[x]]]

\* A function may read a word and write a word, whose addresses are 0 if it
\* does not, and may do input or output: io.
Called(m, inst) ==
    LET f == Function[inst.fn]
        args == [n \in DOMAIN inst.args |-> Val(m, inst.args[n])]
        result == (IF args = <<>> THEN 0 ELSE args[1])
                    + (IF f.reads = 0 THEN 0 ELSE m.mem[f.reads])
                    + (IF f.io THEN Len(m.out) ELSE 0)
    IN  [env |-> Set(m, inst.id, result).env,
         mem |-> IF f.writes = 0 THEN m.mem ELSE [m.mem EXCEPT ![f.writes] = @ + 1],
         out |-> IF f.io THEN Append(m.out, <<inst.fn, args>>) ELSE m.out]

Executed(m, inst) ==
    CASE inst.op = "load"  -> Set(m, inst.id, m.mem[Accessed(m, inst)])
      [] inst.op = "store" -> [m EXCEPT !.mem[Accessed(m, inst)] = Val(m, RVal(inst))]
      [] inst.op = "call"  -> Called(m, inst)
      [] OTHER -> Set(m, inst.id, Result(m, inst))

\* The machines a block leads through, and the one it ends in.
Trace(m, code) ==
    LET ran[n \in 0 .. Len(code)] ==
          IF n = 0 THEN m ELSE Executed(ran[n - 1], code[n])
    IN  ran
Run(m, code) == Trace(m, code)[Len(code)]

\* The block runs: its values are numbers, and what it accesses is memory.
Runs(m, code) ==
    \A n \in 0 .. Len(code) :
      LET here == Trace(m, code)[n]
      IN  /\ \A x \in DOMAIN here.env : here.env[x] \in Int
          /\ n < Len(code) =>
               LET next == code[n + 1]
               IN  /\ next.op \in MemoryOps => Accessed(here, next) \in DOMAIN m.mem
                   /\ next.op = "call" => Function[next.fn].reads \in DOMAIN m.mem \cup {0}

\* A machine can run a block.
IsMachine(m) == /\ m = [env |-> m.env, mem |-> m.mem, out |-> m.out]
                /\ m.env = [x \in DOMAIN m.env |-> m.env[x]]
                /\ m.mem = [a \in DOMAIN m.mem |-> m.mem[a]]
Good(m, code) == IsMachine(m) /\ SSA(m.env, code) /\ Runs(m, code)

\* What is left of a block when it has been run.
Outcome(m, code) == LET end == Run(m, code) IN [mem |-> end.mem, out |-> end.out]
=============================================================================
