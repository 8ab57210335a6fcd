------------------------------- MODULE LowerIR -------------------------------
(***************************************************************************)
(* The pass LowerIR on a block: address computations and remainders are    *)
(* taken apart, multiplications and divisions by powers of two become      *)
(* shifts, and then shifts, additions and multiplications are fused into   *)
(* the instructions of ARM that do two of them at once.                    *)
(*                                                                         *)
(* Each part of the pass walks the block and may change or replace the     *)
(* instruction at hand, insert before it and delete what it has fused; an  *)
(* instruction put in the place of another keeps its name here.  Numbers   *)
(* are small: what isPowerOfTwo says of the least integer, and             *)
(* disable_div_optimization, which leaves divisions alone, are left out.   *)
(***************************************************************************)
EXTENDS BlockCode

CONSTANT GlobalVariable    \* the names of globals

At(code, id) == code[CHOOSE n \in DOMAIN code : code[n].id = id]

\* The instruction replaced by a sequence that ends in its namesake.
ReplaceBy(code, id, seq) ==
    FlattenSeq([n \in DOMAIN code |-> IF code[n].id = id THEN seq ELSE <<code[n]>>])

\* One walk over a block.
Walk(code, Rewrite(_, _)) ==
    FoldLeft(LAMBDA c, id : IF \E n \in DOMAIN c : c[n].id = id THEN Rewrite(c, id) ELSE c,
             code, [n \in DOMAIN code |-> code[n].id])

PowerOfTwo(v) == IsConst(v) /\ \E p \in 0 .. 30 : IntOf(v) = 2 ^ p
Log2(v) == CHOOSE p \in 0 .. 30 : IntOf(v) = 2 ^ p
IsShift(code, v, op) == IsOp(code, v, op) /\ IsConst(DefOf(code, v).args[2])

-----------------------------------------------------------------------------
SplitGEP(code, id) ==
    LET i == At(code, id)
    IN  IF i.op = "gep"
        THEN ReplaceBy(code, id,
               <<Instr("mul", id \o ".offset", <<i.args[2], C(id \o ".size", ElementSize)>>),
                 Instr("add", id, <<i.args[1], V(id \o ".offset")>>)>>)
        ELSE code

ConvertRemToAnd(code, id) ==
    LET i == At(code, id)
    IN  IF i.op = "rem" /\ PowerOfTwo(i.args[2])
        THEN ReplaceBy(code, id,
               <<Instr("and", id, <<i.args[1], C(id \o ".mask", IntOf(i.args[2]) - 1)>>)>>)
        ELSE code

SplitRem(code, id) ==
    LET i == At(code, id)
    IN  IF i.op = "rem"
        THEN ReplaceBy(code, id,
               <<Instr("div", id \o ".div", i.args),
                 Instr("mul", id \o ".mul", <<V(id \o ".div"), i.args[2]>>),
                 Instr("sub", id, <<i.args[1], V(id \o ".mul")>>)>>)
        ELSE code

\* removeUnusedOp: a + 0, unless a is a global.  (a * 0 and a * 1 are tested
\* for together, so never found.)
IsGlobal(v) == \E g \in GlobalVariable : v = V(g)
Zero(v) == IsConst(v) /\ IntOf(v) = 0
RemoveUnusedOp(code, id) ==
    LET i == At(code, id)
        other == IF Zero(i.args[1]) THEN i.args[2] ELSE i.args[1]
    IN  IF i.op = "add" /\ (Zero(i.args[1]) \/ Zero(i.args[2])) /\ ~IsGlobal(other)
        THEN Deleted(ReplaceAllUse(code, id, other), {id})
        ELSE code

\* An address that is a sum is computed by the access itself.
FuseAddLoadStore(code, id) ==
    LET i == At(code, id)
    IN  IF /\ i.op \in {"load", "store"}
           /\ Offset(i) = NoOperand
           /\ IsOp(code, LVal(i), "add")
        THEN ReplaceBy(code, id,
               <<[i EXCEPT !.args = SubSeq(@, 1, Place(i) - 1) \o DefOf(code, LVal(i)).args]>>)
        ELSE code

\* 1 * v stops the compiler, which no block here has.
ConvertMulDivToShift(code, id) ==
    LET i == At(code, id)
        Shifted(op, v, by) ==
          ReplaceBy(code, id, <<Instr(op, id, <<v, C(id \o ".log", Log2(by))>>)>>)
    IN  IF i.op = "mul" /\ PowerOfTwo(i.args[1]) THEN Shifted("shl", i.args[2], i.args[1])
        ELSE IF i.op = "mul" /\ PowerOfTwo(i.args[2]) THEN Shifted("shl", i.args[1], i.args[2])
        ELSE IF i.op = "div" /\ PowerOfTwo(i.args[2]) THEN Shifted("ashr", i.args[1], i.args[2])
        ELSE code

FuseConstShift(code, id) ==
    LET i == At(code, id)
        inner == DefOf(code, i.args[1])
    IN  IF /\ i.op \in {"shl", "ashr"}
           /\ IsConst(i.args[2])
           /\ IsShift(code, i.args[1], i.op)
        THEN ReplaceBy(code, id,
               <<Instr(i.op, id, <<inner.args[1],
                   C(id \o ".sum", IntOf(i.args[2]) + IntOf(inner.args[2]))>>)>>)
        ELSE code

\* The walk stays at an access it has changed.
FuseShiftLoadStore(code, id) ==
    LET Fused(c) ==
          LET i == At(c, id)
              shl == DefOf(c, Offset(i))
          IN  IF i.op \in {"load", "store"} /\ IsShift(c, Offset(i), "shl")
              THEN ReplaceBy(c, id, <<[i EXCEPT !.args = SubSeq(@, 1, Place(i)) \o shl.args]>>)
              ELSE c
        again[n \in 0 .. Len(code)] == IF n = 0 THEN code ELSE LET c == again[n - 1] IN Fused(c)
    IN  again[Len(code)]

Uses(code, id) == {u \in UNION {{n} \X DOMAIN code[n].args : n \in DOMAIN code} :
                     code[u[1]].args[u[2]] = V(id)}

\* A product used nowhere else.
Fusible(code, v) == IsOp(code, v, "mul") /\ Cardinality(Uses(code, DefOf(code, v).id)) = 1

FuseMulAdd(code, id) ==
    LET i == At(code, id)
        Fused(v, w) == Deleted(ReplaceBy(code, id,
                                 <<Instr("muladd", id, DefOf(code, v).args \o <<w>>)>>),
                               {DefOf(code, v).id})
    IN  IF i.op # "add" THEN code
        ELSE IF Fusible(code, i.args[1]) THEN Fused(i.args[1], i.args[2])
        ELSE IF Fusible(code, i.args[2]) THEN Fused(i.args[2], i.args[1])
        ELSE code

\* The shifted operand comes second.
FuseShiftArithmetic(code, id) ==
    LET i == At(code, id)
        Fused(v, w) == ReplaceBy(code, id,
                         <<Instr("add", id, <<w>> \o DefOf(code, v).args)>>)
    IN  IF i.op # "add" \/ Len(i.args) # 2 THEN code
        ELSE IF IsShift(code, i.args[1], "shl") THEN Fused(i.args[1], i.args[2])
        ELSE IF IsShift(code, i.args[2], "shl") THEN Fused(i.args[2], i.args[1])
        ELSE code

-----------------------------------------------------------------------------
\* LowerIR::run before and after it propagates constants.
Split(code) == Walk(Walk(Walk(code, SplitGEP), ConvertRemToAnd), SplitRem)

Fuse(code) ==
    LET shifted == Walk(Walk(Walk(code, RemoveUnusedOp), FuseAddLoadStore), ConvertMulDivToShift)
        fused == Walk(Walk(shifted, FuseConstShift), FuseShiftLoadStore)
    IN  Walk(Walk(fused, FuseMulAdd), FuseShiftArithmetic)
=============================================================================
