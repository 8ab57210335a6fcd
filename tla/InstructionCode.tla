--------------------------- MODULE InstructionCode ---------------------------
(***************************************************************************)
(* CodeGen::generateInstructionCode: the code of one instruction, by its   *)
(* kind.  Operands that have no register are computed in op_reg_0,         *)
(* op_reg_1 and op_reg_2, a result without one in op_reg_0 or op_reg_1.    *)
(* Vector instructions are left out, and the kinds at which CodeGen        *)
(* aborts.                                                                 *)
(***************************************************************************)
EXTENDS CodeGen

Assign(F, mt, o, target) == assignToSpecificReg(F, mt, o, target, 0)
Result(F, mt, i, ret) == getFromSpecificReg(F, mt, i.id, ret, 0)
alu_ret(F, i, temp) == alu_op(F, V(i.id), temp)

\* A constant operand number n, 0 where there is none.
ShiftBy(i, n) == IF Len(i.ops) >= n THEN i.ops[n].c ELSE 0

-----------------------------------------------------------------------------
(* Memory *)

codeAlloca(F, mt, i, act) ==
    (IF i.id \in DOMAIN F.reg THEN instConst("add", F.reg[i.id], sp, F.stk[i.id]) ELSE <<>>)
      \o (IF i.f = "init"
          THEN generateFunctionCall(F, mt, i, act, "memset", <<V(i.id), C(0), C(i.n)>>, -1)
          ELSE <<>>)

\* Slip: index and address share a temporary register.
codeLoadSlip(F, mt, i) ==
    LET op0 == alu_op(F, i.ops[1], op_reg_0)
        ret == alu_ret(F, i, op_reg_1)
        shift == ShiftBy(i, 3)
    IN  Assign(F, mt, i.ops[1], op0)
          \o (IF Len(i.ops) = 1 THEN load(ret, op0, 0)
              ELSE IF i.ops[2].k = "const" THEN load(ret, op0, Wrap(i.ops[2].c * 2 ^ shift))
              ELSE LET op1 == alu_op(F, i.ops[2], op_reg_0)
                   IN  Assign(F, mt, i.ops[2], op1) \o ldr(ret, op0, Shifted(op1, "lsl", shift)))
          \o Result(F, mt, i, ret)

\* An address; or a base, an index and perhaps a shift.
codeLoad(F, mt, i) ==
    LET op0 == alu_op(F, i.ops[1], op_reg_0)
        ret == alu_ret(F, i, op_reg_1)
        shift == ShiftBy(i, 3)
    IN  Assign(F, mt, i.ops[1], op0)
          \o (IF Len(i.ops) = 1 THEN load(ret, op0, 0)
              ELSE IF i.ops[2].k = "const" THEN load(ret, op0, Wrap(i.ops[2].c * 2 ^ shift))
              ELSE LET op1 == alu_op(F, i.ops[2], op_reg_1)
                   IN  Assign(F, mt, i.ops[2], op1) \o ldr(ret, op0, Shifted(op1, "lsl", shift)))
          \o Result(F, mt, i, ret)

codeStore(F, mt, i) ==
    LET op0 == alu_op(F, i.ops[1], op_reg_0)
        op1 == alu_op(F, i.ops[2], op_reg_1)
        shift == ShiftBy(i, 4)
    IN  Assign(F, mt, i.ops[1], op0)
          \o Assign(F, mt, i.ops[2], op1)
          \o (IF Len(i.ops) = 2 THEN str(op0, op1, Imm(0))
              ELSE IF i.ops[3].k = "const" THEN store(op0, op1, Wrap(i.ops[3].c * 2 ^ shift))
              ELSE LET op2 == alu_op(F, i.ops[3], op_reg_2)
                   IN  Assign(F, mt, i.ops[3], op2) \o str(op0, op1, Shifted(op2, "lsl", shift)))

-----------------------------------------------------------------------------
(* Arithmetic *)

codeMulAdd(F, mt, i) ==
    LET op(n) == alu_op(F, i.ops[n], << op_reg_0, op_reg_1, op_reg_2 >>[n])
        ret == alu_ret(F, i, op_reg_0)
    IN  Assign(F, mt, i.ops[1], op(1)) \o Assign(F, mt, i.ops[2], op(2)) \o Assign(F, mt, i.ops[3], op(3))
          \o mla(ret, op(1), op(2), op(3))
          \o Result(F, mt, i, ret)

\* add, sub, rsub, and, or: the second operand may be shifted; and the shifts.
Mnemonic == [add |-> "add", sub |-> "sub", rsub |-> "rsb", and |-> "and", or |-> "orr",
             shl |-> "lsl", ashr |-> "asr", lshr |-> "lsr"]

codeFlexible(F, mt, i, op0, op1, ret) ==
    IF i.ops[2].k = "const"
    THEN instConst(Mnemonic[i.op], ret, op0, Wrap(i.ops[2].c * 2 ^ ShiftBy(i, 3)))
    ELSE Assign(F, mt, i.ops[2], op1)
           \o Ins(Mnemonic[i.op], ret, op0,
                  IF i.op \in {"shl", "ashr", "lshr"} THEN Reg(op1) ELSE Shifted(op1, "lsl", ShiftBy(i, 3)))

\* Two operands, the second of them shifted: the four forms tried for products.
Forms == << "add", "sub", "rsb", "lsl" >>
Factor(form, o1, o2, n) ==
    CASE form = "add" -> Wrap(o1 + o2 * 2 ^ n)
      [] form = "sub" -> Wrap(o1 - o2 * 2 ^ n)
      [] form = "rsb" -> Wrap(o2 * 2 ^ n - o1)
      [] form = "lsl" -> Wrap(o1 * 2 ^ n)
FormCode(form, target, r1, r2, n) ==
    IF form = "lsl" THEN lsl(target, r1, Imm(n)) ELSE Ins(form, target, r1, Shifted(r2, "lsl", n))

\* The first in the order in which the code tries them.
Singles == {<<f, n>> : f \in 1 .. 4, n \in 0 .. W - 1}
Doubles(mp) ==
    {p \in Singles \X Singles \X {0, 1} \X {0, 1} :
       LET y == Factor(Forms[p[1][1]], 1, 1, p[1][2])
       IN  Factor(Forms[p[2][1]], IF p[3] = 0 THEN 1 ELSE y, IF p[4] = 0 THEN 1 ELSE y, p[2][2]) = mp}
Rank(p) == (((p[1][1] * W + p[1][2]) * 5 + p[2][1]) * W + p[2][2]) * 4 + 2 * p[3] + p[4]

DoubleCode(p, ret, op0) ==
    FormCode(Forms[p[1][1]], op_reg_2, op0, op0, p[1][2])
      \o FormCode(Forms[p[2][1]], ret, IF p[3] = 0 THEN op0 ELSE op_reg_2,
                  IF p[4] = 0 THEN op0 ELSE op_reg_2, p[2][2])

\* A product with a constant: one or two shifts and additions where they do.
codeMul(F, mt, i, op0, op1, ret) ==
    LET single == {s \in Singles : Factor(Forms[s[1]], 1, 1, s[2]) = i.ops[2].c}
        double == Doubles(i.ops[2].c)
    IN  IF i.ops[2].k = "const" /\ single # {}
        THEN LET s == CHOOSE s \in single : \A t \in single : s[1] * W + s[2] <= t[1] * W + t[2]
             IN  FormCode(Forms[s[1]], ret, op0, op0, s[2])
        ELSE IF i.ops[2].k = "const" /\ double # {}
        THEN DoubleCode(CHOOSE p \in double : \A q \in double : Rank(p) <= Rank(q), ret, op0)
        ELSE Assign(F, mt, i.ops[2], op1) \o mul(ret, op0, op1)

codeDiv(F, mt, i, op0, op1, ret) ==
    IF i.ops[2].k = "const" THEN divConst(ret, op0, i.ops[2].c)
    ELSE Assign(F, mt, i.ops[2], op1) \o sdiv(ret, op0, op1)

codeRem(F, mt, i, op0, op1, ret) ==
    Assign(F, mt, i.ops[2], op1)
      \o sdiv(op_reg_2, op0, op1) \o mul(op_reg_2, op_reg_2, op1) \o sub(ret, op0, Reg(op_reg_2))

codeGEP(F, mt, i, op0, op1, ret) ==
    Assign(F, mt, i.ops[2], op1)
      \o setValue(op_reg_2, i.n) \o mul(op_reg_2, op_reg_2, op1) \o add(ret, op0, Reg(op_reg_2))

\* cmpConvert
Opposite == [eq |-> "ne", ne |-> "eq", gt |-> "le", ge |-> "lt", lt |-> "ge", le |-> "gt"]
cmpConvert(op, reverse) == IF reverse THEN Opposite[op] ELSE op

codeCmp(F, mt, i, op0, op1, ret) ==
    (IF i.ops[2].k = "const" THEN instConst("cmp", 0, op0, Wrap(i.ops[2].c * 2 ^ ShiftBy(i, 3)))
     ELSE Assign(F, mt, i.ops[2], op1) \o cmp(op0, Shifted(op1, "lsl", ShiftBy(i, 3))))
      \o mov(ret, Imm(0)) \o movIf(ret, Imm(1), cmpConvert(i.cmp, FALSE))

\* What all kinds with a result and one or two operands have in common.
codeArithmetic(F, mt, i) ==
    LET op0 == alu_op(F, i.ops[1], op_reg_0)
        op1 == IF Len(i.ops) >= 2 THEN alu_op(F, i.ops[2], op_reg_1) ELSE -1
        ret == alu_ret(F, i, op_reg_0)
    IN  Assign(F, mt, i.ops[1], op0)
          \o (CASE i.op \in DOMAIN Mnemonic -> codeFlexible(F, mt, i, op0, op1, ret)
                [] i.op = "mul" -> codeMul(F, mt, i, op0, op1, ret)
                [] i.op = "div" -> codeDiv(F, mt, i, op0, op1, ret)
                [] i.op = "rem" -> codeRem(F, mt, i, op0, op1, ret)
                [] i.op = "gep" -> codeGEP(F, mt, i, op0, op1, ret)
                [] i.op = "cmp" -> codeCmp(F, mt, i, op0, op1, ret)
                [] i.op = "neg" -> rsb(ret, op0, Imm(0))
                [] i.op = "not" -> IF i.f = "i1" THEN eor(ret, op0, Imm(1)) ELSE mvn(ret, Reg(op0))
                [] i.op = "zext" -> mov(ret, Reg(op0)))
          \o Result(F, mt, i, ret)

codeCall(F, mt, i, act) ==
    IF i.f \in {"__mtstart", "__mtend"} THEN bl(i.f)
    ELSE generateFunctionCall(F, mt, i, act, i.f, i.ops, 0)

-----------------------------------------------------------------------------
(* Branches *)

\* What the phis of a block are given when it is entered from bb.
PhiMoves(fn, bb, next) ==
    FlattenSeq([n \in DOMAIN fn.code[next] |->
      LET phi == fn.code[next][n]
          from == SelectSeq([m \in DOMAIN phi.ops |-> m], LAMBDA m : phi.op = "phi" /\ phi.to[m] = bb)
      IN  [m \in DOMAIN from |-> [target |-> V(phi.id), source |-> phi.ops[from[m]]]]])

NextInOrder(fn, bb) ==
    LET n == CHOOSE k \in DOMAIN fn.order : fn.order[k] = bb
    IN  IF n = Len(fn.order) THEN "" ELSE fn.order[n + 1]

\* Which of the two branches is jumped to: the second, for it costs the jump.
SwapBranches(resolve, jump) ==
    \/ ~resolve[1] /\ ~resolve[2] /\ ~jump[2]
    \/ ~resolve[1] /\ resolve[2]
    \/ resolve[1] /\ resolve[2] /\ ~jump[1]

codeBr(F, mt, bb, i) ==
    LET cond == i.op # "br"
        moves(next) == virtualRegMove(F, mt, PhiMoves(F.fn, bb, next), 0)
        resolve0 == [k \in DOMAIN i.to |-> moves(i.to[k]) # <<>>]
        jump0 == [k \in DOMAIN i.to |-> NextInOrder(F.fn, bb) # i.to[k]]
        swap_branch == cond /\ SwapBranches(resolve0, jump0)
        exchanged(q) == IF swap_branch THEN << q[2], q[1] >> ELSE q
        to == exchanged(i.to)
        need_resolve == exchanged(resolve0)
        need_jump == exchanged(jump0)
        elim == cond /\ ~need_resolve[2]
        second == IF elim THEN <<to[2], 0>> ELSE <<bb, 2>>
        op0 == alu_op(F, i.ops[1], op_reg_0)
        op1 == alu_op(F, i.ops[2], op_reg_1)
        compare ==
          IF i.op = "cmpbr"
          THEN Assign(F, mt, i.ops[1], op0)
                 \o (IF i.ops[2].k = "const" THEN instConst("cmp", 0, op0, i.ops[2].c)
                     ELSE Assign(F, mt, i.ops[2], op1) \o cmp(op0, Reg(op1)))
                 \o b(second, cmpConvert(i.cmp, TRUE # swap_branch))
          ELSE IF i.op = "condbr"
          THEN Assign(F, mt, i.ops[1], op0) \o cmp(op0, Imm(0))
                 \o b(second, cmpConvert("eq", FALSE # swap_branch))
          ELSE <<>>
        eliminated(k) ==
          IF k = 1 THEN /\ ~need_jump[1]
                        /\ ~cond \/ (~need_resolve[2] /\ (~need_jump[2] \/ elim))
          ELSE ~need_jump[2] \/ elim
        branch(k) == label(<<bb, k>>)
                       \o (IF need_resolve[k] THEN moves(to[k]) ELSE <<>>)
                       \o (IF eliminated(k) THEN <<>> ELSE b(<<to[k], 0>>, "al"))
    IN  compare \o branch(1) \o (IF cond THEN branch(2) ELSE <<>>)

-----------------------------------------------------------------------------
codeRet(F, mt, i) ==
    (IF i.ops = <<>> THEN <<>> ELSE Assign(F, mt, i.ops[1], 0)) \o generateFunctionExitCode(F)

\* act are the values that are active at the instruction.
generateInstructionCode(F, bb, i, act) ==
    LET mt == IF i.id \in DOMAIN F.env THEN F.env[i.id] ELSE ""
    IN  CASE i.op = "ret" -> codeRet(F, mt, i)
          [] i.op = "alloca" -> codeAlloca(F, mt, i, act)
          [] i.op = "load" -> codeLoad(F, mt, i)
          [] i.op = "store" -> codeStore(F, mt, i)
          [] i.op = "call" -> codeCall(F, mt, i, act)
          [] i.op = "muladd" -> codeMulAdd(F, mt, i)
          [] i.op \in {"br", "condbr", "cmpbr"} -> codeBr(F, mt, bb, i)
          [] i.op = "phi" -> <<>>
          [] OTHER -> codeArithmetic(F, mt, i)
=============================================================================
