---------------------------- MODULE GeneratedCode ----------------------------
(***************************************************************************)
(* A function of the IR and the code CodeGen makes of it, run side by side *)
(* one instruction of the IR at a time: the values of the IR on the one    *)
(* side, registers, frame and memory of a processor on the other.          *)
(*                                                                         *)
(* A case is a function, the registers its values may be given, arguments  *)
(* and threads to follow into a region.                                    *)
(***************************************************************************)
EXTENDS InstructionCode

CONSTANTS Cases,   \* a set of [fn, registers, ins, tids]
          top      \* sp when the function is called

-----------------------------------------------------------------------------
(* What is live where: the contract of the register allocation. *)

ValuesOf(ops) == {ops[n].v : n \in {m \in DOMAIN ops : ops[m].k = "val"}}
Defined(i) == IF HasSlot(i) \/ i.op = "alloca" THEN {i.id} ELSE {}
PhisOf(fn, bb) == {i.id : i \in {j \in ToSet(fn.code[bb]) : j.op = "phi"}}
PhiUses(fn, bb, next) == ValuesOf([n \in DOMAIN PhiMoves(fn, bb, next) |-> PhiMoves(fn, bb, next)[n].source])

NextPositions(fn, p) ==
    LET i == At(fn, p)
    IN  (IF p[2] < Len(fn.code[p[1]]) THEN {<<p[1], p[2] + 1>>} ELSE {})
          \cup (IF i.op = "phi" THEN {} ELSE {<<next, 1>> : next \in ToSet(i.to)})

\* Live are pairs of a position and a value that is needed there.
RECURSIVE Backwards(_, _)
Backwards(fn, live) ==
    LET more == {l \in UNION {{p} \X {l[2] : l \in {m \in live : m[1] \in NextPositions(fn, p)}}
                                 : p \in Positions(fn)} : l[2] \notin Defined(At(fn, l[1]))}
    IN  IF more \subseteq live THEN live ELSE Backwards(fn, live \cup more)

LiveAtStart(fn) ==
    UNION {{p} \X (IF At(fn, p).op = "phi" THEN {}
                   ELSE ValuesOf(At(fn, p).ops) \cup UNION {PhiUses(fn, p[1], next) : next \in ToSet(At(fn, p).to)})
             : p \in Positions(fn)}

\* The values that are live before each instruction.
LiveSets(fn) ==
    LET all == Backwards(fn, LiveAtStart(fn))
    IN  [p \in Positions(fn) |-> {l[2] : l \in {m \in all : m[1] = p}}]

LiveAfter(fn, live, p) ==
    UNION {live[next] : next \in NextPositions(fn, p)}
      \cup UNION {PhiUses(fn, p[1], next[1]) : next \in {n \in NextPositions(fn, p) : n[2] = 1}}

\* Values that are needed at one time are not given one register, arguments and
\* phis not even if they are not needed; r10 is kept for the thread in a
\* function with regions.
Allocations(fn, live, registers) ==
    LET values == ToSet(fn.args) \cup UNION {Defined(i) : i \in ToSet(Insts(fn))}
        together == {ToSet(fn.args)}
                      \cup {live[p] : p \in Positions(fn)}
                      \cup {LiveAfter(fn, live, p) \cup Defined(At(fn, p)) : p \in Positions(fn)}
                      \cup {live[<<bb, 1>>] \cup PhisOf(fn, bb) : bb \in ToSet(fn.order)}
        apart == {vw \in values \X values : vw[1] # vw[2] /\ \E set \in together : {vw[1], vw[2]} \subseteq set}
        free == {v \in values : ~\E i \in ToSet(Insts(fn)) : i.id = v /\ is_mt_start(i)}
    IN  {reg \in UNION {[s -> registers] : s \in SUBSET free} :
           \A vw \in apart : {vw[1], vw[2]} \subseteq DOMAIN reg => reg[vw[1]] # reg[vw[2]]}

-----------------------------------------------------------------------------
VARIABLES case,      \* [fn, F, live, in, tid]: the frame and the live sets of fn
          st,        \* "call", "run", "end" or "away": the thread is not the first
          at,        \* the instruction of the IR that is next
          env, imem, \* values and memory as the IR has them
          emitted,   \* the code of the last instruction
          q          \* the processor

vars == <<case, st, at, env, imem, emitted, q>>

F == case.F
fn == case.fn

\* Tables and variables of the data section, and what the caller has in r4 ..
\* r11 and above sp: the arguments from the fifth.
generateGlobalVarsCode ==
    [a \in {GOTAddress(Globals[n].name) : n \in DOMAIN Globals} |->
       AddressOf(Globals[((a - data_start) \div 4) + 1].name)]
      @@ [a \in UNION {{AddressOf(Globals[n].name) + 4 * (m - 1) : m \in DOMAIN Globals[n].init}
                          : n \in DOMAIN Globals} |->
            LET g == CHOOSE n \in DOMAIN Globals : /\ AddressOf(Globals[n].name) <= a
                                                   /\ a < AddressOf(Globals[n].name) + 4 * Len(Globals[n].init)
            IN  Globals[g].init[((a - AddressOf(Globals[g].name)) \div 4) + 1]]

CallerHas(r) == Wrap(11 * r + 1)
ReturnTo == 99 % (2 ^ (W - 1))

Machine(in, tid) ==
    [r |-> [r \in 0 .. 14 |-> IF r < 4 THEN (IF r < Len(in) THEN in[r + 1] ELSE Junk)
                              ELSE IF r = sp THEN top ELSE IF r = lr THEN ReturnTo ELSE CallerHas(r)],
     m |-> generateGlobalVarsCode @@ [a \in {top + 4 * (n - 5) : n \in DOMAIN in \ (1 .. 4)} |-> in[((a - top) \div 4) + 5]],
     lhs |-> 0, rhs |-> 0, to |-> <<"", 0>>, back |-> <<>>, tid |-> 0]

Init == /\ \E c \in Cases :
             LET live == LiveSets(c.fn)
             IN  \E reg \in Allocations(c.fn, live, c.registers), in \in c.ins, tid \in c.tids :
                   case = [fn |-> c.fn, F |-> allocateStackSpace(c.fn, reg), live |-> live, in |-> in, tid |-> tid]
        /\ emitted = <<>>
        /\ st = "call" /\ at = <<fn.order[1], 1>>
        /\ env = [v \in ToSet(fn.args) |-> case.in[CHOOSE n \in DOMAIN fn.args : fn.args[n] = v]]
        /\ imem = generateGlobalVarsCode
        /\ q = Machine(case.in, case.tid)

Enter == /\ st = "call"
         /\ st' = "run"
         /\ emitted' = generateFunctionEntryCode(F)
         /\ q' = Run(emitted', q)
         /\ UNCHANGED <<case, at, env, imem>>

-----------------------------------------------------------------------------
(* The IR *)

Operand(o) == CASE o.k = "const" -> o.c
                [] o.k = "global" -> AddressOf(o.v)
                [] OTHER -> env[o.v]
Op(i, n) == Operand(i.ops[n])
Indexed(i, n) == Wrap(IF Len(i.ops) <= n THEN Op(i, n) ELSE Op(i, n) + Op(i, n + 1) * 2 ^ ShiftBy(i, n + 2))

\* The second operand of add, sub, rsub, and, or, cmp, shifted if it says so.
Second(i) == Shift("lsl", Op(i, 2), ShiftBy(i, 3))

Meaning(i) ==
    CASE i.op \in {"add", "sub", "and", "or"} -> ALU(Mnemonic[i.op], Op(i, 1), Second(i))
      [] i.op = "rsub" -> Wrap(Second(i) - Op(i, 1))
      [] i.op = "shl" -> Shift("lsl", Op(i, 1), Op(i, 2))
      [] i.op = "ashr" -> Shift("asr", Op(i, 1), Op(i, 2))
      [] i.op = "lshr" -> Shift("lsr", Op(i, 1), Op(i, 2))
      [] i.op = "mul" -> Wrap(Op(i, 1) * Op(i, 2))
      [] i.op = "div" -> Quotient(Op(i, 1), Op(i, 2))
      [] i.op = "rem" -> Wrap(Op(i, 1) - Op(i, 2) * Quotient(Op(i, 1), Op(i, 2)))
      [] i.op = "muladd" -> Wrap(Op(i, 1) * Op(i, 2) + Op(i, 3))
      [] i.op = "gep" -> Wrap(Op(i, 1) + i.n * Op(i, 2))
      [] i.op = "cmp" -> IF Holds(i.cmp, Op(i, 1), Second(i)) THEN 1 ELSE 0
      [] i.op = "neg" -> Wrap(-Op(i, 1))
      [] i.op = "not" -> IF i.f = "i1" THEN 1 - Op(i, 1) ELSE -Op(i, 1) - 1
      [] i.op = "zext" -> Op(i, 1)
      [] i.op = "load" -> imem[Indexed(i, 1)]
      [] i.op = "alloca" -> q.r[sp] + F.stk[i.id]
      [] i.op = "call" -> IF is_mt_start(i) THEN case.tid
                          ELSE Returned([n \in DOMAIN i.ops |-> Op(i, n)])

\* A variable that is set to zero, a store; no call writes memory.
Memory(i) ==
    CASE i.op = "store" -> [imem EXCEPT ![Indexed(i, 2)] = Op(i, 1)]
      [] i.op = "alloca" ->
           [a \in {Meaning(i) + 4 * n : n \in 0 .. (i.n \div 4) - 1} |-> IF i.f = "init" THEN 0 ELSE Junk] @@ imem
      [] OTHER -> imem

ActiveAt(p) == LiveAfter(fn, case.live, p) \cap case.live[p]

\* One instruction that is not a branch.  The first thread and the others
\* leave the start of a region; only the first its end.
Straight ==
    LET i == At(fn, at) IN
    /\ st = "run"
    /\ i.op \notin {"br", "condbr", "cmpbr", "ret"}
    /\ emitted' = generateInstructionCode(F, at[1], i, ActiveAt(at))
    /\ q' = Run(emitted', [q EXCEPT !.tid = IF is_mt_start(i) THEN case.tid ELSE @])
    /\ env' = IF Defined(i) = {} \/ i.op = "phi" THEN env ELSE (i.id :> Meaning(i)) @@ env
    /\ imem' = Memory(i)
    /\ st' = IF is_mt_end(i) /\ case.tid # 0 THEN "away" ELSE st
    /\ at' = <<at[1], at[2] + 1>>
    /\ UNCHANGED case

\* Where a branch leads, and where its code does.
Target(i) ==
    CASE i.op = "br" -> i.to[1]
      [] i.op = "condbr" -> IF Op(i, 1) # 0 THEN i.to[1] ELSE i.to[2]
      [] i.op = "cmpbr" -> IF Holds(i.cmp, Op(i, 1), Op(i, 2)) THEN i.to[1] ELSE i.to[2]
Landed(s, bb) == IF s.to = <<"", 0>> THEN NextInOrder(fn, bb) ELSE s.to[1]

Branch ==
    LET i == At(fn, at)
        moves == PhiMoves(fn, at[1], Target(i))
    IN
    /\ st = "run"
    /\ i.op \in {"br", "condbr", "cmpbr"}
    /\ emitted' = generateInstructionCode(F, at[1], i, {})
    /\ env' = [v \in {moves[n].target.v : n \in DOMAIN moves} |->
                 Operand(moves[CHOOSE n \in DOMAIN moves : moves[n].target.v = v].source)] @@ env
    /\ q' = LET s == Run(emitted', q) IN [s EXCEPT !.to = <<Landed(s, at[1]), 0>>]
    /\ at' = <<Target(i), 1>>
    /\ UNCHANGED <<case, st, imem>>

Return ==
    LET i == At(fn, at) IN
    /\ st = "run"
    /\ i.op = "ret"
    /\ emitted' = generateInstructionCode(F, at[1], i, {})
    /\ q' = Run(emitted', q)
    /\ st' = "end"
    /\ UNCHANGED <<case, at, env, imem>>

Stopped == st \in {"end", "away"} /\ UNCHANGED vars

Next == Enter \/ Straight \/ Branch \/ Return \/ Stopped

Spec == Init /\ [][Next]_vars

-----------------------------------------------------------------------------
(* Properties *)

\* The slot of a value for the thread that is followed.
SlotOf(v, p) ==
    q.r[sp] + F.stk[v]
      + (IF v \in DOMAIN F.env THEN case.tid * 2 ^ F.thread_stack_bits ELSE 0)

\* Where the saved registers end: main has moved its stack.
base == IF fn.name = "main" THEN heap + enlarge_stack_size - 4 ELSE top

\* Before every instruction, each value that is still needed is where the
\* allocation has put it: no instruction's temporaries, no call, no move at a
\* branch and no thread's frame has overwritten it, and every memory word of
\* the program is what the IR has written; and branches lead where they should.
ValuesInPlace ==
    st = "run" =>
      /\ \A v \in case.live[at] \ F.allocated :
           env[v] = IF v \in DOMAIN F.reg THEN q.r[F.reg[v]] ELSE MemAt(q, SlotOf(v, at))
      /\ \A v \in case.live[at] \cap F.allocated \cap DOMAIN F.reg : env[v] = q.r[F.reg[v]]
      /\ \A a \in DOMAIN imem : imem[a] = MemAt(q, a)
      /\ q.to[1] \in {"", at[1]}
      /\ q.r[sp] = base - F.stack_size - 4 * (Cardinality(getCalleeSaveRegisters(F)) + 1)

Restored ==
    LET i == At(fn, at) IN
    /\ q.back = <<ReturnTo>>
    /\ q.r[sp] = top
    /\ \A r \in callee_save_regs : q.r[r] = CallerHas(r)
    /\ i.ops # <<>> => q.r[0] = Op(i, 1)

\* The caller of a function other than main gets the result, and its stack and
\* registers back.
CallerKept == st = "end" /\ fn.name # "main" => Restored

\* All parts of the frame are apart: the slots of every thread and the
\* variables, all of them below the saved registers.
FrameIsDisjoint ==
    LET threads == IF F.mt_enabled THEN 0 .. mt_num_threads - 1 ELSE {0}
        slots == {<<v, t>> : v \in DOMAIN F.stk \ F.allocated, t \in threads}
        bytes(s) == IF s[1] \in F.allocated
                    THEN F.stk[s[1]] .. F.stk[s[1]] + (CHOOSE i \in ToSet(Insts(fn)) : i.id = s[1]).n - 1
                    ELSE F.stk[s[1]] + s[2] * 2 ^ F.thread_stack_bits
                           .. F.stk[s[1]] + s[2] * 2 ^ F.thread_stack_bits + 3
        parts == slots \cup {<<v, 0>> : v \in F.allocated}
    IN  st = "call" =>
          /\ \A s, t \in parts : s = t \/ bytes(s) \cap bytes(t) = {}
          /\ \A s \in parts : bytes(s) \subseteq 0 .. F.stack_size - 1

\* Everything emitted can be assembled, for a constant has to fit into its
\* instruction, and the compiler does not stop.
Fits(i) ==
    /\ i.op # "abort"
    /\ i.src.k = "imm" =>
         CASE i.op \in {"mov", "movt"} -> i.src.n \in 0 .. imm_16_max
           [] i.op \in {"ldr", "str"} -> i.src.n \in -imm_12_max .. imm_12_max
           [] i.op \in {"lsl", "lsr", "asr"} -> i.src.n \in 0 .. W - 1
           [] i.op \in {"mvn", "add", "sub", "rsb", "and", "orr", "eor", "cmp"} -> i.src.n \in 0 .. imm_8_max
           [] OTHER -> TRUE
    /\ i.src.k = "reg" => i.src.n \in 0 .. W - 1

CodeFits == \A n \in DOMAIN emitted : Fits(emitted[n])

-----------------------------------------------------------------------------
(* Finite instances for TLC *)

MCDataStart == -128
MCHeap == -96
MCArity == [malloc |-> 1, memset |-> 3, h |-> 6, k |-> 1]
MCGlobals == << [name |-> "g", init |-> <<5, -9, 20>>], [name |-> "z", init |-> <<0>>] >>

I(id, op, ops) == [id |-> id, op |-> op, ops |-> ops, cmp |-> "", to |-> <<>>, n |-> 4, f |-> ""]
Cmp(id, rel, ops) == [I(id, "cmp", ops) EXCEPT !.cmp = rel]
Call(id, f, ops, n) == [I(id, "call", ops) EXCEPT !.f = f, !.n = n]
Alloca(id, n, init) == [I(id, "alloca", <<>>) EXCEPT !.n = n, !.f = init]
Br(to) == [I("br" \o to, "br", <<>>) EXCEPT !.to = <<to>>]
CondBr(c, t, e) == [I("br" \o t \o e, "condbr", <<c>>) EXCEPT !.to = <<t, e>>]
CmpBr(rel, x, y, t, e) == [I("br" \o t \o e, "cmpbr", <<x, y>>) EXCEPT !.cmp = rel, !.to = <<t, e>>]
Phi(id, ops, from) == [I(id, "phi", ops) EXCEPT !.to = from]
Ret(o) == I("ret", "ret", <<o>>)

Function(name, args, order, code) == [name |-> name, args |-> args, order |-> order, code |-> code]
Line(args, code) == Function("f", args, <<"E">>, [E |-> code])

CasesOf(f, registers, ins, tids) == {[fn |-> f, registers |-> registers, ins |-> ins, tids |-> tids]}

-----------------------------------------------------------------------------
(* One operation, with a value that is needed after it *)

Operation(i) == Line(<<"a", "b", "c">>, <<i, I("s", "sub", <<V("r"), V("c")>>), Ret(V("s"))>>)

Seconds == {V("b"), C(5), C(-3), C(77)}
Operations ==
    {I("r", op, <<V("a"), o>>) : op \in {"add", "sub", "rsub", "and", "or", "mul", "div", "rem", "gep"}, o \in Seconds}
      \cup {I("r", op, <<V("a"), V("b"), C(2)>>) : op \in {"add", "sub", "rsub", "and", "or"}}
      \cup {I("r", op, <<V("a"), o>>) : op \in {"shl", "ashr", "lshr"}, o \in {V("b"), C(5)}}
      \cup {Cmp("r", rel, <<V("a"), o>>) : rel \in {"eq", "ne", "gt", "ge", "lt", "le"}, o \in {V("b"), C(-3)}}
      \cup {I("r", "neg", <<V("a")>>), I("r", "not", <<V("a")>>), I("r", "zext", <<V("a")>>),
            I("r", "muladd", <<V("a"), V("b"), V("c")>>), I("r", "muladd", <<C(3), C(20), V("b")>>)}

OperationCases ==
    UNION {CasesOf(Operation(i), {0, 4}, {<<-37, 6, 2>>}, {0}) : i \in Operations}

-----------------------------------------------------------------------------
(* Products and quotients with every constant *)

ByConstant(op, d) == Line(<<"a">>, <<I("r", op, <<V("a"), C(d)>>), Ret(V("r"))>>)
Extreme(d) == LET k == (2 ^ (W - 1) - 1) \div Abs(d)
              IN  {<<-(2 ^ (W - 1))>>, <<k * Abs(d)>>, <<k * Abs(d) - 1>>, <<-k * Abs(d)>>, <<1 - k * Abs(d)>>}
ConstantCases ==
    UNION {CasesOf(ByConstant("div", d), {0}, Extreme(d), {0}) : d \in (Word \ {0, -(2 ^ (W - 1))})}
      \cup UNION {CasesOf(ByConstant("mul", d), {0}, {<<3>>}, {0}) : d \in Word}

-----------------------------------------------------------------------------
(* Memory *)

Accesses ==
    Line(<<"a", "i">>,
         << Alloca("A", 12, "init"), Alloca("B", 8, "none"),
            I("s1", "store", <<V("a"), V("A"), V("i"), C(2)>>),
            I("s2", "store", <<C(-70), V("B"), C(1), C(2)>>),
            I("l1", "load", <<G("g"), V("i"), C(2)>>),
            I("l2", "load", <<V("B"), C(4)>>),
            I("s3", "store", <<V("l1"), G("z")>>),
            I("l3", "load", <<G("z")>>),
            I("t", "add", <<V("l2"), V("l3")>>),
            I("l4", "load", <<V("A"), V("i"), C(2)>>),
            I("u", "sub", <<V("t"), V("l4")>>),
            Ret(V("u")) >>)
AccessCases == CasesOf(Accesses, {4}, {<<7, 2>>}, {0})

-----------------------------------------------------------------------------
(* Calls *)

Caller == Line(<<"a", "b", "c", "d", "e", "o">>,
               << Call("r", "h", <<V("b"), V("a"), C(50), V("e"), V("o"), V("b")>>, 4),
                  Call("v", "k", <<V("a")>>, 0),
                  I("s", "add", <<V("r"), V("o")>>),
                  Ret(V("s")) >>)
Main == Function("main", <<>>, <<"E">>,
                 [E |-> << Call("r", "k", <<C(3)>>, 4), Alloca("A", 8, "init"),
                           I("st", "store", <<V("r"), V("A"), C(4)>>),
                           I("l", "load", <<V("A"), C(4)>>), Ret(V("l")) >>])
MainCases == CasesOf(Main, {1, 5}, {<<>>}, {0})

CallCases == MainCases \cup UNION {CasesOf(Caller, registers, {<<3, -4, 10, 11, 12, 13>>}, {0}) : registers \in {{0, 1}, {1, 5}}}

-----------------------------------------------------------------------------
(* Branches *)

Diamond(order, branch) ==
    Function("f", <<"a", "b">>, <<"E">> \o order,
      [E |-> <<branch>>,
       T |-> <<I("x", "add", <<V("a"), C(1)>>), Br("J")>>,
       J |-> <<Phi("p", <<V("x"), V("b"), C(9)>>, <<"T", "E", "U">>),
               Phi("q", <<V("b"), V("a"), V("a")>>, <<"T", "E", "U">>),
               I("s", "sub", <<V("p"), V("q")>>), Ret(V("s"))>>,
       U |-> <<Br("J")>>])
Loop == Function("f", <<"a", "n">>, <<"E", "H", "B", "X">>,
      [E |-> <<Br("H")>>,
       H |-> <<Phi("i", <<C(0), V("j")>>, <<"E", "B">>), Phi("s", <<V("a"), V("t")>>, <<"E", "B">>),
               Cmp("c", "lt", <<V("i"), V("n")>>), CondBr(V("c"), "B", "X")>>,
       B |-> <<I("j", "add", <<V("i"), C(1)>>), I("t", "sub", <<V("i"), V("s")>>), Br("H")>>,
       X |-> <<Ret(V("s"))>>])
Orders == {<<"T", "J", "U">>, <<"J", "T", "U">>, <<"U", "T", "J">>}
BranchCases ==
    UNION {CasesOf(Diamond(o, CmpBr("lt", V("a"), V("b"), t[1], t[2])), {4}, {<<3, 8>>, <<8, 3>>}, {0})
             : o \in Orders, t \in {<<"T", "J">>, <<"J", "T">>, <<"U", "J">>}}
      \cup UNION {CasesOf(Diamond(o, CondBr(V("a"), "T", "U")), {0}, {<<0, 8>>, <<8, 3>>}, {0}) : o \in Orders}
      \cup CasesOf(Diamond(<<"J", "T", "U">>, CmpBr("ge", V("a"), V("b"), "U", "J")), {0, 4}, {<<3, 8>>, <<8, 3>>}, {0})
      \cup CasesOf(Loop, {0, 1}, {<<3, 2>>}, {0})

-----------------------------------------------------------------------------
(* Regions *)

Parallel ==
    Function("f", <<"a", "b">>, <<"E", "R", "X">>,
      [E |-> <<I("x", "add", <<V("a"), V("b")>>), Call("t", "__mtstart", <<>>, 4), Br("R")>>,
       R |-> <<Phi("p", <<V("x")>>, <<"E">>),
               I("y", "add", <<V("p"), V("t")>>), I("w", "mul", <<V("y"), V("a")>>),
               I("st", "store", <<V("w"), G("g"), V("t"), C(2)>>),
               Call("me", "__mtend", <<V("t")>>, 0), Br("X")>>,
       X |-> <<I("s", "sub", <<V("x"), V("w")>>), Ret(V("s"))>>])
RegionCases == UNION {CasesOf(Parallel, {r}, {<<3, 2>>}, {0, 1}) : r \in {0, 4}}

-----------------------------------------------------------------------------
MCCases == OperationCases \cup ConstantCases \cup AccessCases \cup CallCases
             \cup BranchCases \cup RegionCases
=============================================================================
