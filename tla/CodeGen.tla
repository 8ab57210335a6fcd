------------------------------- MODULE CodeGen -------------------------------
(***************************************************************************)
(* CodeGen for one function: the frame, the code on entry and exit, and    *)
(* the code of each instruction, with every value where the register       *)
(* allocation or the frame has put it.                                     *)
(*                                                                         *)
(* A function is [name, args, order, code]: the blocks in their order and  *)
(* the instructions of each.  An instruction is [id, op, ops, cmp, to, n,  *)
(* f]: its value, operands, relation, blocks, a number and a name.  What   *)
(* CodeGen keeps while it generates a function is the record F.            *)
(***************************************************************************)
EXTENDS InstGen, FiniteSets, TLC

CONSTANTS cache_line_bits, mt_num_threads,
          enlarge_stack_size,
          Globals,                 \* the global variables, in order
          data_start               \* the address of their data

op_reg_0 == 12
op_reg_1 == 14
op_reg_2 == vinst_temp_reg
thread_id_reg == 10
caller_save_regs == {0, 1, 2, 3, 12, 14}
callee_save_regs == 4 .. 11
allocate_regs == 0 .. 10
temp_regs == {op_reg_0, op_reg_1, op_reg_2}

\* Operands: a value, a constant, a global variable.
V(name) == [k |-> "val", v |-> name, c |-> 0]
C(val) == [k |-> "const", v |-> "", c |-> val]
G(name) == [k |-> "global", v |-> name, c |-> 0]

\* The instruction stops the compiler.
abort == Ins("abort", 0, 0, Imm(0))

-----------------------------------------------------------------------------
(* findMTVars and allocateStackSpace *)

Insts(fn) == FlattenSeq([k \in DOMAIN fn.order |-> fn.code[fn.order[k]]])

is_mt_start(i) == i.op = "call" /\ i.f = "__mtstart"
is_mt_end(i) == i.op = "call" /\ i.f = "__mtend"
is_mt_inside(fn) == \E n \in DOMAIN Insts(fn) : is_mt_start(Insts(fn)[n]) \/ is_mt_end(Insts(fn)[n])

Positions(fn) == UNION {{<<bb, n>> : n \in DOMAIN fn.code[bb]} : bb \in ToSet(fn.order)}
At(fn, p) == fn.code[p[1]][p[2]]
Following(fn, p) ==
    IF p[2] < Len(fn.code[p[1]]) THEN {<<p[1], p[2] + 1>>}
    ELSE {<<bb, 1>> : bb \in ToSet(At(fn, p).to)}

\* The instructions between a start and the ends it leads to.
Region(fn, start) ==
    LET inner(set) == {p \in set : ~is_mt_end(At(fn, p))}
        walk[n \in 0 .. Cardinality(Positions(fn))] ==
          IF n = 0 THEN inner(Following(fn, start))
          ELSE LET before == walk[n - 1]
               IN  before \cup inner(UNION {Following(fn, p) : p \in before})
    IN  walk[Cardinality(Positions(fn))]

\* in_mt_env: the start of the region an instruction is in, if any.
findMTVars(fn) ==
    LET starts == {p \in Positions(fn) : is_mt_start(At(fn, p))}
    IN  [v \in {At(fn, p).id : p \in UNION {Region(fn, s) : s \in starts}} |->
           At(fn, CHOOSE s \in starts : \E p \in Region(fn, s) : At(fn, p).id = v).id]

\* What values take in the frame; stores, branches and calls of void functions
\* have no value.
HasSlot(i) == i.op \notin {"alloca", "store", "br", "condbr", "cmpbr", "ret"} /\ ~(i.op = "call" /\ i.n = 0)

\* Slip: the words of the variables the threads share begin where the first
\* thread's end.
StackSizeSlip(fn, bits) == 2 ^ bits

\* Every thread has a frame of its own for spilled values.
StackSize(fn, bits) == IF is_mt_inside(fn) THEN mt_num_threads * 2 ^ bits ELSE 2 ^ bits

\* The slots of arguments and values without a register, as many words as fit
\* into a power of two for each thread, and the variables behind them.
allocateStackSpace(fn, register_mapping) ==
    LET reg == [v \in DOMAIN register_mapping
                        \cup {i.id : i \in {j \in ToSet(Insts(fn)) : is_mt_start(j)}} |->
                  IF v \in DOMAIN register_mapping THEN register_mapping[v] ELSE thread_id_reg]
        values == SelectSeq(fn.args, LAMBDA a : a \notin DOMAIN reg)
                    \o [n \in DOMAIN SelectSeq(Insts(fn), LAMBDA i : HasSlot(i) /\ i.id \notin DOMAIN reg) |->
                          SelectSeq(Insts(fn), LAMBDA i : HasSlot(i) /\ i.id \notin DOMAIN reg)[n].id]
        bits == CHOOSE k \in cache_line_bits .. W :
                  /\ 2 ^ k >= 4 * Len(values)
                  /\ k = cache_line_bits \/ 2 ^ (k - 1) < 4 * Len(values)
        allocas == SelectSeq(Insts(fn), LAMBDA i : i.op = "alloca")
        before(n) == FoldLeft(LAMBDA s, i : s + i.n, StackSize(fn, bits), SubSeq(allocas, 1, n - 1))
        position(q, v) == CHOOSE n \in DOMAIN q : q[n] = v
        ids == [n \in DOMAIN allocas |-> allocas[n].id]
    IN  [reg |-> reg,
         stk |-> [v \in ToSet(values) \cup ToSet(ids) |->
                    IF v \in ToSet(ids) THEN before(position(ids, v)) ELSE 4 * (position(values, v) - 1)],
         allocated |-> ToSet(ids),
         thread_stack_bits |-> bits,
         stack_size |-> before(Len(allocas) + 1),
         mt_enabled |-> is_mt_inside(fn),
         env |-> findMTVars(fn),
         fn |-> fn]

-----------------------------------------------------------------------------
(* Where values are *)

mapped(F, o) == o.k = "val" /\ o.v \in DOMAIN F.reg
onStack(F, o) == o.k = "val" /\ o.v \in DOMAIN F.stk

\* The register an operand is computed in: its own, or a temporary one.
alu_op(F, o, temp) == IF mapped(F, o) THEN F.reg[o.v] ELSE temp

queryGOT(name) == CHOOSE n \in DOMAIN Globals : Globals[n].name = name

\* The table of addresses lies first, the variables follow it.
GOTAddress(name) == data_start + 4 * (queryGOT(name) - 1)
AddressOf(name) ==
    data_start + 4 * Len(Globals) + FoldLeft(LAMBDA s, g : s + 4 * Len(g.init), 0, SubSeq(Globals, 1, queryGOT(name) - 1))

InEnv(F, v, mt) == mt # "" /\ v \in DOMAIN F.env /\ F.env[v] = mt

\* A constant, the address of a variable, a register, a slot; in a region the
\* slots of its values are those of the thread.
assignToSpecificReg(F, mt, o, target, sp_ofs) ==
    IF o.k = "const" THEN setValue(target, o.c)
    ELSE IF o.k = "global"
    THEN getAddress(op_reg_2, GOTAddress(o.v)) \o ldr(target, op_reg_2, Imm(0))
    ELSE IF mapped(F, o) THEN mov(target, Reg(F.reg[o.v]))
    ELSE IF o.v \in F.allocated THEN instConst("add", target, sp, F.stk[o.v] + sp_ofs)
    ELSE IF ~onStack(F, o) THEN abort
    ELSE IF InEnv(F, o.v, mt)
    THEN setValue(op_reg_2, F.stk[o.v] + sp_ofs)
           \o add(op_reg_2, op_reg_2, Shifted(thread_id_reg, "lsl", F.thread_stack_bits))
           \o ldr(target, sp, Reg(op_reg_2))
    ELSE load(target, sp, F.stk[o.v] + sp_ofs)

getFromSpecificReg(F, mt, v, source, sp_ofs) ==
    IF v \in DOMAIN F.reg THEN mov(F.reg[v], Reg(source))
    ELSE IF v \notin DOMAIN F.stk \/ source = op_reg_2 THEN abort
    ELSE IF mt # ""
    THEN setValue(op_reg_2, F.stk[v] + sp_ofs)
           \o add(op_reg_2, op_reg_2, Shifted(thread_id_reg, "lsl", F.thread_stack_bits))
           \o str(source, sp, Reg(op_reg_2))
    ELSE store(source, sp, F.stk[v] + sp_ofs)

isSameMapping(F, a, c) ==
    IF mapped(F, a) /\ mapped(F, c) THEN F.reg[a.v] = F.reg[c.v]
    ELSE onStack(F, a) /\ onStack(F, c) /\ F.stk[a.v] = F.stk[c.v]

virtualMove(F, mt, move, sp_ofs) ==
    IF isSameMapping(F, move.target, move.source) THEN <<>>
    ELSE LET t == alu_op(F, move.target, op_reg_0)
         IN  assignToSpecificReg(F, mt, move.source, t, sp_ofs)
               \o getFromSpecificReg(F, mt, move.target.v, t, sp_ofs)

\* Moves in an order in which none overwrites what another still reads; tg is
\* the target of a source that is parked in op_reg_0 to break a cycle.
RECURSIVE MovesFrom(_, _, _, _, _)
MovesFrom(F, mt, moves, tg, sp_ofs) ==
    LET flush == IF tg = <<>> THEN <<>> ELSE getFromSpecificReg(F, mt, tg[1], op_reg_0, sp_ofs)
        ready == {i \in DOMAIN moves :
                    \A j \in DOMAIN moves \ {i} : ~isSameMapping(F, moves[j].source, moves[i].target)}
    IN  IF moves = <<>> THEN flush
        ELSE IF ready # {}
        THEN virtualMove(F, mt, moves[Min(ready)], sp_ofs)
               \o MovesFrom(F, mt, RemoveAt(moves, Min(ready)), tg, sp_ofs)
        ELSE flush \o assignToSpecificReg(F, mt, moves[1].source, op_reg_0, sp_ofs)
               \o MovesFrom(F, mt, Tail(moves), <<moves[1].target.v>>, sp_ofs)

virtualRegMove(F, mt, moves, sp_ofs) ==
    IF \E i, j \in DOMAIN moves : i # j /\ isSameMapping(F, moves[i].target, moves[j].target)
    THEN abort
    ELSE MovesFrom(F, mt, moves, <<>>, sp_ofs)

\* The dummies that stand for the places of arguments.
Dummy(n) == "#" \o ToString(n)
WithDummies(F, registers, slots) ==
    [F EXCEPT !.reg = [n \in {Dummy(m) : m \in DOMAIN registers} |->
                         registers[CHOOSE m \in DOMAIN registers : Dummy(m) = n]] @@ F.reg,
              !.stk = [n \in {Dummy(m) : m \in DOMAIN slots} |->
                         slots[CHOOSE m \in DOMAIN slots : Dummy(m) = n]] @@ F.stk]

-----------------------------------------------------------------------------
(* Entry, exit and calls *)

Sorted(set) == SetToSortSeq(set, <)

getAllRegisters(F) ==
    temp_regs \cup {F.reg[v] : v \in DOMAIN F.reg \cap (ToSet(F.fn.args) \cup {i.id : i \in ToSet(Insts(F.fn))})}
\* Slip: the temporary registers are forgotten.
getCalleeSaveRegistersSlip(F) == (getAllRegisters(F) \cap callee_save_regs) \ temp_regs

getCalleeSaveRegisters(F) == getAllRegisters(F) \cap callee_save_regs
getCallerSaveRegisters(F) == (getAllRegisters(F) \cap caller_save_regs) \ temp_regs

\* main takes its stack from the heap.
enlarge(F) ==
    LET save_registers == Sorted(getCalleeSaveRegisters(F) \cup {lr})
    IN  push(save_registers)
          \o setValue(0, enlarge_stack_size) \o setValue(1, 1) \o bl("malloc")
          \o instConst("add", op_reg_0, 0, enlarge_stack_size)
          \o pop(save_registers)
          \o mov(op_reg_2, Reg(sp)) \o mov(sp, Reg(op_reg_0)) \o push(<<op_reg_2>>)

EntryArg(F, n) == F.stack_size + 4 * (Cardinality(getCalleeSaveRegisters(F)) + 1 + n - 5)

generateFunctionEntryCode(F) ==
    LET args == F.fn.args
        early == [n \in DOMAIN args \cap 1 .. 4 |-> n - 1]
        late == [n \in DOMAIN args \ (1 .. 4) |-> EntryArg(F, n)]
        moves == [n \in DOMAIN args |-> [target |-> V(args[n]), source |-> V(Dummy(n))]]
    IN  (IF F.fn.name = "main" THEN enlarge(F) ELSE <<>>)
          \o push(Sorted(getCalleeSaveRegisters(F) \cup {lr}))
          \o (IF F.mt_enabled THEN mov(thread_id_reg, Imm(0)) ELSE <<>>)
          \o instConst("sub", sp, sp, F.stack_size)
          \o virtualRegMove(WithDummies(F, early, late), "", moves, 0)

generateFunctionExitCode(F) ==
    instConst("add", sp, sp, F.stack_size)
      \o pop(Sorted(getCalleeSaveRegisters(F) \cup {pc}))
      \o (IF F.fn.name = "main" THEN pop(<<op_reg_0>>) \o mov(sp, Reg(op_reg_0)) ELSE <<>>)

\* The registers a call saves: those of the values that are active, which are
\* known for calls that have a result, or else all that the function uses and a
\* callee may lose; but not that of the result.
SavedAt(F, i, act, hasResult) ==
    (IF i.op = "call" /\ HasSlot(i) THEN {F.reg[v] : v \in act \cap DOMAIN F.reg} ELSE getCallerSaveRegisters(F))
      \ (IF hasResult /\ i.id \in DOMAIN F.reg THEN {F.reg[i.id]} ELSE {})

\* return_reg is -1 where the result is not wanted.
generateFunctionCall(F, mt, i, act, name, ops, return_reg) ==
    LET hasResult == return_reg >= 0 /\ HasSlot(i)
        save_registers == Sorted(SavedAt(F, i, act, hasResult))
        saved == 4 * Len(save_registers)
        total == IF Len(ops) > 4 THEN 4 * (Len(ops) - 4) ELSE 0
        early == [n \in DOMAIN ops \cap 1 .. 4 |-> n - 1]
        late == [n \in DOMAIN ops \ (1 .. 4) |-> 4 * (n - 5) - total - saved]
        order == [n \in DOMAIN ops |-> IF n <= 4 THEN n ELSE Len(ops) - n + 5]
        moves == [n \in DOMAIN ops |-> [target |-> V(Dummy(order[n])), source |-> ops[order[n]]]]
    IN  (IF save_registers # <<>> THEN push(save_registers) ELSE <<>>)
          \o virtualRegMove(WithDummies(F, early, late), mt, moves, saved)
          \o instConst("sub", sp, sp, total)
          \o bl(name)
          \o instConst("add", sp, sp, total)
          \o (IF hasResult THEN getFromSpecificReg(F, mt, i.id, return_reg, saved) ELSE <<>>)
          \o (IF save_registers # <<>> THEN pop(save_registers) ELSE <<>>)
=============================================================================
