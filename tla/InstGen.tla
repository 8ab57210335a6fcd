------------------------------- MODULE InstGen -------------------------------
(***************************************************************************)
(* The namespace InstGen: every function returns code, the text of one or  *)
(* of several instructions.  Constants that do not fit into an instruction *)
(* go through vinst_temp_reg; a division by a constant becomes a           *)
(* multiplication by a rounded reciprocal.                                 *)
(***************************************************************************)
EXTENDS Integers, Sequences, SequencesExt, Bitwise

-----------------------------------------------------------------------------
(* The instructions the code generator emits, by what the processor does:  *)
(* words of W bits read as signed numbers, registers 0 .. 14, a memory of  *)
(* words at byte addresses, and what the last compare compared.            *)
(*                                                                         *)
(* An instruction is a record; code is a sequence of them.  A label is a   *)
(* block and 0 for its start, or 1 or 2 for one of its branches.           *)

CONSTANTS W,          \* bits of a word: 32
          Arity,      \* of the functions that may be called
          heap        \* what malloc returns; the stack is above the heap, all else below

Word == -(2 ^ (W - 1)) .. 2 ^ (W - 1) - 1
Wrap(x) == ((x + 2 ^ (W - 1)) % (2 ^ W)) - 2 ^ (W - 1)
Unsigned(x) == x % (2 ^ W)
Half == 2 ^ (W \div 2)

sp == 13
lr == 14
pc == 15

\* Operands: a register, perhaps shifted, or an immediate.
Reg(r) == [k |-> "reg", r |-> r, sh |-> "none", n |-> 0]
Shifted(r, sh, n) == [k |-> "reg", r |-> r, sh |-> sh, n |-> n]
Imm(c) == [k |-> "imm", r |-> 0, sh |-> "none", n |-> c]

\* An instruction by itself: cond is "al" where none is given.
Ins(op, rd, rn, src) ==
    << [op |-> op, cond |-> "al", rd |-> rd, rn |-> rn, src |-> src,
        ra |-> 0, list |-> <<>>, to |-> <<"", 0>>] >>

-----------------------------------------------------------------------------
Shift(sh, x, n) ==
    CASE sh = "none" -> x
      [] sh = "lsl" -> IF n >= W THEN 0 ELSE Wrap(x * 2 ^ n)
      [] sh = "lsr" -> IF n >= W THEN 0 ELSE Wrap(Unsigned(x) \div 2 ^ n)
      [] sh = "asr" -> IF n >= W THEN (IF x < 0 THEN -1 ELSE 0) ELSE x \div 2 ^ n

Abs(x) == IF x < 0 THEN -x ELSE x
Quotient(a, b) ==
    IF b = 0 THEN 0
    ELSE Wrap((IF (a < 0) = (b < 0) THEN 1 ELSE -1) * (Abs(a) \div Abs(b)))

\* What an instruction with a target and two operands computes.
ALU(op, a, b) ==
    CASE op \in {"mov", "adrl"} -> b
      [] op = "mvn" -> -b - 1
      [] op = "movt" -> Wrap((Unsigned(a) % Half) + b * Half)
      [] op = "add" -> Wrap(a + b)
      [] op = "sub" -> Wrap(a - b)
      [] op = "rsb" -> Wrap(b - a)
      [] op = "and" -> Wrap(Unsigned(a) & Unsigned(b))
      [] op = "orr" -> Wrap(Unsigned(a) | Unsigned(b))
      [] op = "eor" -> Wrap(Unsigned(a) ^^ Unsigned(b))
      [] op \in {"lsl", "lsr", "asr"} -> Shift(op, a, b)
      [] op = "mul" -> Wrap(a * b)
      [] op = "smmul" -> (a * b) \div 2 ^ W
      [] op = "sdiv" -> Quotient(a, b)

Holds(cond, l, r) ==
    CASE cond = "al" -> TRUE
      [] cond = "eq" -> l = r
      [] cond = "ne" -> l # r
      [] cond = "gt" -> l > r
      [] cond = "ge" -> l >= r
      [] cond = "lt" -> l < r
      [] cond = "le" -> l <= r

-----------------------------------------------------------------------------
(* A machine: registers r, memory m, the compared words lhs and rhs, the   *)
(* label jumped to, the address the function has returned to, and the      *)
(* number of the thread.  A word that was never written is Junk.           *)

Junk == 85 % (2 ^ (W - 1))

MemAt(q, a) == IF a \in DOMAIN q.m THEN q.m[a] ELSE Junk
Put(q, rd, v) == [q EXCEPT !.r[rd] = v]
Poke(q, a, v) == [q EXCEPT !.m = [x \in DOMAIN q.m \cup {a} |-> IF x = a THEN v ELSE q.m[x]]]

Source(q, o) == IF o.k = "imm" THEN o.n ELSE Shift(o.sh, q.r[o.r], o.n)

\* push stores the lowest register at the lowest address.
Pushed(q, list) ==
    LET low == q.r[sp] - 4 * Len(list)
        cells == {low + 4 * (n - 1) : n \in DOMAIN list}
    IN  [q EXCEPT !.r[sp] = low,
                  !.m = [a \in DOMAIN q.m \cup cells |->
                           IF a \in cells THEN q.r[list[((a - low) \div 4) + 1]] ELSE q.m[a]]]

\* A word popped into pc is where the function returns to.
Popped(q, list) ==
    LET from(r) == q.r[sp] + 4 * ((CHOOSE n \in DOMAIN list : list[n] = r) - 1)
        regs == {list[n] : n \in DOMAIN list}
    IN  [q EXCEPT !.r = [r \in DOMAIN q.r |->
                           IF r = sp THEN q.r[sp] + 4 * Len(list)
                           ELSE IF r \in regs THEN MemAt(q, from(r)) ELSE q.r[r]],
                  !.back = IF pc \in regs THEN <<MemAt(q, from(pc))>> ELSE q.back]

\* A function called: its arguments are in r0 .. r3 and, from the fifth, at sp.
ArgAt(q, n) == IF n <= 4 THEN q.r[n - 1] ELSE MemAt(q, q.r[sp] + 4 * (n - 5))

\* What it returns: a sum no two arguments of which can be exchanged.
Returned(args) == Wrap(FoldLeftDomain(LAMBDA s, n : s + (2 * n - 1) * args[n], 1, args))

\* It keeps r4 .. r11 and sp; the registers left to it, the words of its
\* arguments and all words of heap and stack below sp are lost.  memset fills words, __mtstart
\* gives each thread its number.
Called(q, name) ==
    LET args == [n \in 1 .. Arity[name] |-> ArgAt(q, n)]
        own == q.r[sp] + (IF Len(args) > 4 THEN 4 * (Len(args) - 4) ELSE 0)
        filled == {a \in q.r[0] .. q.r[0] + q.r[2] - 1 : (a - q.r[0]) % 4 = 0}
        kept == {a \in DOMAIN q.m : a < heap \/ a >= own}
                  \cup (IF name = "memset" THEN filled ELSE {})
    IN  IF name \in {"__mtstart", "__mtend"}
        THEN [q EXCEPT !.r[10] = q.tid, !.r[lr] = Junk]
        ELSE [q EXCEPT
                !.r = [r \in DOMAIN q.r |->
                         IF r = 0 THEN (IF name = "malloc" THEN heap ELSE Returned(args))
                         ELSE IF r \in {1, 2, 3, 12, lr} THEN Junk ELSE q.r[r]],
                !.m = [a \in kept |-> IF name = "memset" /\ a \in filled THEN q.r[1] ELSE q.m[a]]]

Execute(q, i) ==
    IF ~Holds(i.cond, q.lhs, q.rhs) THEN q
    ELSE CASE i.op = "label" -> q
           [] i.op = "cmp" -> [q EXCEPT !.lhs = q.r[i.rn], !.rhs = Source(q, i.src)]
           [] i.op = "ldr" -> Put(q, i.rd, MemAt(q, q.r[i.rn] + Source(q, i.src)))
           [] i.op = "str" -> Poke(q, q.r[i.rn] + Source(q, i.src), q.r[i.rd])
           [] i.op = "mla" -> Put(q, i.rd, Wrap(q.r[i.rn] * q.r[i.src.r] + q.r[i.ra]))
           [] i.op = "smmla" ->
                Put(q, i.rd, Wrap(q.r[i.ra] + ((q.r[i.rn] * q.r[i.src.r]) \div 2 ^ W)))
           [] i.op = "bl" -> Called(q, i.to[1])
           [] i.op = "push" -> Pushed(q, i.list)
           [] i.op = "pop" -> Popped(q, i.list)
           [] i.op = "b" -> [q EXCEPT !.to = i.to]
           [] OTHER -> Put(q, i.rd, ALU(i.op, q.r[i.rn], Source(q, i.src)))

\* Code from its n-th instruction: it ends where the function returns, where it
\* jumps to a label the code does not have, or where it falls through.
RECURSIVE RunFrom(_, _, _)
RunFrom(code, n, q) ==
    IF n > Len(code) \/ q.back # <<>> THEN q
    ELSE LET s == Execute(q, code[n])
             here == {k \in DOMAIN code : code[k].op = "label" /\ code[k].to = s.to}
         IN  IF s.to = <<"", 0>> THEN RunFrom(code, n + 1, s)
             ELSE IF here = {} THEN s
             ELSE RunFrom(code, CHOOSE k \in here : TRUE, [s EXCEPT !.to = <<"", 0>>])

Run(code, q) == RunFrom(code, 1, [q EXCEPT !.to = <<"", 0>>])

-----------------------------------------------------------------------------
(* InstGen *)

CONSTANTS imm_8_max, imm_12_max, imm_16_max   \* what fits into an instruction

vinst_temp_reg == 11

-----------------------------------------------------------------------------
(* One instruction each *)

push(list) == << [Ins("push", 0, 0, Imm(0))[1] EXCEPT !.list = list] >>
pop(list) == << [Ins("pop", 0, 0, Imm(0))[1] EXCEPT !.list = list] >>

\* A move of a register to itself is left out.
movIf(target, source, cond) ==
    IF source = Reg(target) THEN <<>>
    ELSE << [Ins("mov", target, 0, source)[1] EXCEPT !.cond = cond] >>
mov(target, source) == movIf(target, source, "al")
mvn(target, source) == Ins("mvn", target, 0, source)

ldr(target, base, offset) == Ins("ldr", target, base, offset)
str(source, base, offset) == Ins("str", source, base, offset)

add(target, op1, op2) == Ins("add", target, op1, op2)
sub(target, op1, op2) == Ins("sub", target, op1, op2)
rsb(target, op1, op2) == Ins("rsb", target, op1, op2)
and_(target, op1, op2) == Ins("and", target, op1, op2)
orr(target, op1, op2) == Ins("orr", target, op1, op2)
eor(target, op1, op2) == Ins("eor", target, op1, op2)
lsl(target, op1, op2) == Ins("lsl", target, op1, op2)
lsr(target, op1, op2) == Ins("lsr", target, op1, op2)
asr(target, op1, op2) == Ins("asr", target, op1, op2)
mul(target, op1, op2) == Ins("mul", target, op1, Reg(op2))
smmul(target, op1, op2) == Ins("smmul", target, op1, Reg(op2))
mla(target, op1, op2, op3) == << [Ins("mla", target, op1, Reg(op2))[1] EXCEPT !.ra = op3] >>
smmla(target, op1, op2, op3) == << [Ins("smmla", target, op1, Reg(op2))[1] EXCEPT !.ra = op3] >>
sdiv(target, op1, op2) == Ins("sdiv", target, op1, Reg(op2))
cmp(lhs, rhs) == Ins("cmp", 0, lhs, rhs)

b(target, cond) == << [Ins("b", 0, 0, Imm(0))[1] EXCEPT !.to = target, !.cond = cond] >>
bl(name) == << [Ins("bl", 0, 0, Imm(0))[1] EXCEPT !.to = <<name, 0>>] >>
getAddress(target, address) == Ins("adrl", target, 0, Imm(address))
label(name) == << [Ins("label", 0, 0, Imm(0))[1] EXCEPT !.to = name] >>

-----------------------------------------------------------------------------
(* Constants *)

setValue(target, val) ==
    IF 0 <= val /\ val <= imm_16_max THEN mov(target, Imm(val))
    ELSE IF -imm_8_max <= val /\ val <= 0 THEN mvn(target, Imm(-val - 1))
    ELSE mov(target, Imm(Unsigned(val) % Half))
           \o Ins("movt", target, target, Imm(Unsigned(val) \div Half))

\* Slip: a negative constant is taken to fit.
instConstSlip(inst, target, op1, val) ==
    IF target = op1 /\ val = 0 /\ inst \in {"add", "sub"} THEN <<>>
    ELSE IF val <= imm_8_max THEN Ins(inst, target, op1, Imm(val))
    ELSE setValue(vinst_temp_reg, val) \o Ins(inst, target, op1, Reg(vinst_temp_reg))

\* cmp has no target; its second form is the same but for the first test.
instConst(inst, target, op1, val) ==
    IF target = op1 /\ val = 0 /\ inst \in {"add", "sub"} THEN <<>>
    ELSE IF 0 <= val /\ val <= imm_8_max THEN Ins(inst, target, op1, Imm(val))
    ELSE setValue(vinst_temp_reg, val) \o Ins(inst, target, op1, Reg(vinst_temp_reg))

load(target, base, offset) ==
    IF offset > imm_12_max \/ offset < -imm_12_max
    THEN setValue(vinst_temp_reg, offset) \o ldr(target, base, Reg(vinst_temp_reg))
    ELSE ldr(target, base, Imm(offset))

store(source, base, offset) ==
    IF offset > imm_12_max \/ offset < -imm_12_max
    THEN setValue(vinst_temp_reg, offset) \o str(source, base, Reg(vinst_temp_reg))
    ELSE str(source, base, Imm(offset))

-----------------------------------------------------------------------------
(* Division *)

Log2Up(d) == CHOOSE l \in 0 .. W : 2 ^ l >= d /\ (l = 0 \/ 2 ^ (l - 1) < d)

\* Both bounds of the reciprocal are halved as long as there is an integer
\* between them.
RECURSIVE Halved(_, _, _)
Halved(m_l, m_h, sh_post) ==
    IF m_l \div 2 < m_h \div 2 /\ sh_post > 1
    THEN Halved(m_l \div 2, m_h \div 2, sh_post - 1)
    ELSE [m |-> Wrap(m_h), sh_post |-> sh_post - 1]

\* Slip: the upper bound is the lower one.
choose_multiplierSlip(d, N) ==
    LET l == Log2Up(d)
    IN  Halved(2 ^ (N + l) \div d, 2 ^ (N + l) \div d, l)

choose_multiplier(d, N) ==
    LET l == Log2Up(d)
    IN  Halved(2 ^ (N + l) \div d, (2 ^ (N + l) + 2 ^ l) \div d, l)

\* d is not 0; for the least word, abs is undefined and the compiler stops.
divConst(target, source, d) ==
    LET t == vinst_temp_reg
        l == Log2Up(Abs(d))
        c == choose_multiplier(Abs(d), W - 1)
        positive ==
          IF Abs(d) = 1 THEN mov(target, Reg(source))
          ELSE IF Abs(d) = 2 ^ l
          THEN asr(t, source, Imm(l - 1)) \o lsr(t, t, Imm(W - l))
                 \o add(t, t, Reg(source)) \o asr(target, t, Imm(l))
          ELSE setValue(t, c.m)
                 \o (IF c.m >= 0 THEN smmul(t, t, source) ELSE smmla(t, t, source, source))
                 \o asr(t, t, Imm(c.sh_post))
                 \o add(target, t, Shifted(source, "lsr", W - 1))
    IN  positive \o (IF d < 0 THEN rsb(target, target, Imm(0)) ELSE <<>>)
=============================================================================
