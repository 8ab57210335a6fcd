------------------------------- MODULE RegAlloc -------------------------------
(***************************************************************************)
(* CodeGen::regAlloc for one function, and the function run on what it     *)
(* returns.                                                                *)
(*                                                                         *)
(* The allocator computes for every block the values that may reach it     *)
(* (live_in) and those used after it (live_out), walks every block once,   *)
(* counting for each value the uses that remain, to find which values      *)
(* interfere and which are live across a call, and colours the values one  *)
(* by one with registers that no coloured neighbour has.                   *)
(*                                                                         *)
(* The run that follows keeps for every register and stack slot the value  *)
(* it holds, along any path through the function, with calls that destroy  *)
(* the caller-saved registers generateFunctionCall does not push.          *)
(*                                                                         *)
(* A function is a record: args, a set of values; code, the instructions   *)
(* of each block, blocks numbered in list order from the entry, 1; succ,   *)
(* the successors of each block; tid, the thread id that __mtstart defines *)
(* and __mtend uses if there is a parallel region in it, or NoValue; and   *)
(* order, its values by descending weight.  An instruction has def, its    *)
(* value or NoValue; ops, its operands; from, the incoming block of each   *)
(* operand of a phi; and call, which __mtstart is not: it restores what it *)
(* uses.  Which of the allowed registers has the best bonus is left open.  *)
(***************************************************************************)
EXTENDS Integers, Sequences, FiniteSets

CONSTANTS Value, NoValue,
          allocate_regs, caller_save_regs, thread_id_reg,
          Functions

ASSUME RegAssumption == /\ NoValue \notin Value
                        /\ (allocate_regs \cup caller_save_regs) \cap Value = {}
                        /\ thread_id_reg \in allocate_regs

Instruction == [def : Value \cup {NoValue}, ops : Seq(Value), from : Seq(Nat), call : BOOLEAN]

ASSUME FunctionAssumption ==
    \A g \in Functions : /\ g.args \subseteq Value
                         /\ g.order \in Seq(Value)
                         /\ g.code \in Seq(Seq(Instruction))
                         /\ g.tid \in Value \cup {NoValue}
                         /\ \A b \in DOMAIN g.code : \A i \in DOMAIN g.code[b] :
                              g.code[b][i].from # <<>> => g.code[b][i].def \in Value

\* A control flow graph: nothing jumps to the entry, which no pass forwards, and
\* phis come first (IRCheck).  A phi has an operand for every predecessor: it
\* lacks one where a path leads to it on which its variable was never set.
ASSUME GraphAssumption ==
    \A g \in Functions :
      /\ g.code # <<>> /\ DOMAIN g.succ = DOMAIN g.code
      /\ \A b \in DOMAIN g.code : g.succ[b] \subseteq DOMAIN g.code \ {1}
      /\ \A b \in DOMAIN g.code : \A i \in DOMAIN g.code[b] :
           LET inst == g.code[b][i] IN
           inst.from # <<>> =>
             /\ ~inst.call
             /\ DOMAIN inst.from = DOMAIN inst.ops
             /\ \A j \in DOMAIN inst.from : /\ inst.from[j] \in DOMAIN g.code
                                            /\ b \in g.succ[inst.from[j]]
             /\ \A p \in DOMAIN g.code : b \in g.succ[p] => \E j \in DOMAIN inst.from : inst.from[j] = p
             /\ \A h \in 1 .. i : g.code[b][h].from # <<>>

\* What a search reaches from start along edges, in a graph of n blocks.
Search(n, start, edges) ==
    LET reached[m \in 0 .. n] ==
          IF m = 0 THEN start
          ELSE reached[m - 1] \cup {e[2] : e \in {d \in edges : d[1] \in reached[m - 1]}}
    IN  reached[n]

DefsOf(g, b) == {g.code[b][i].def : i \in DOMAIN g.code[b]} \ {NoValue}

\* The blocks of g that can be reached without a definition of v on the way.
Without(g, v) ==
    Search(Len(g.code), {1},
           {e \in (DOMAIN g.code) \X (DOMAIN g.code) : e[2] \in g.succ[e[1]] /\ v \notin DefsOf(g, e[1])})

\* v has a definition on every path to the end of block b, if it has one before
\* instruction i of it.
DefinedAt(g, v, b, i) == \/ v \in g.args \/ b \notin Without(g, v)
                         \/ \E h \in 1 .. i - 1 : g.code[b][h].def = v

\* Static single assignment: a value has one definition, and it is on every
\* path to a use.
ASSUME SSAAssumption ==
    \A g \in Functions : \A b \in DOMAIN g.code : \A i \in DOMAIN g.code[b] :
      LET inst == g.code[b][i] IN
      /\ inst.def # NoValue =>
           /\ inst.def \notin g.args
           /\ \A c \in DOMAIN g.code : \A h \in DOMAIN g.code[c] :
                g.code[c][h].def = inst.def => c = b /\ h = i
      /\ \A j \in DOMAIN inst.ops :
           IF inst.from = <<>> THEN DefinedAt(g, inst.ops[j], b, i)
           ELSE DefinedAt(g, inst.ops[j], inst.from[j], Len(g.code[inst.from[j]]) + 1)

VARIABLES f,          \* the function
          stage,      \* "live", "block", "inst", "colour", "stack" or "run"
          bb, k,      \* the block and the instruction at hand
          live_in, live_out,
          living,     \* the values seen on the way to the instruction
          remain,     \* how many uses of each are to come
          IG,         \* interference graph: a set of ordered pairs
          context,    \* context_active_vars: a value set for each call seen
          list,       \* inst_list from the value to colour next
          mapping,    \* register_mapping: a register for each value coloured
          val         \* the value in every register and slot during the run

vars == <<f, stage, bb, k, live_in, live_out, living, remain, IG, context,
          list, mapping, val>>

-----------------------------------------------------------------------------
(* Functions *)

\* The map g with an entry for x.
With(g, x, y) == [w \in DOMAIN g \cup {x} |-> IF w = x THEN y ELSE g[w]]

Blocks == DOMAIN f.code
Index(b) == DOMAIN f.code[b]
Preds(b) == {p \in Blocks : b \in f.succ[p]}
IsPhi(inst) == inst.from # <<>>
Uses(inst, v) == IF IsPhi(inst) THEN {} ELSE {i \in DOMAIN inst.ops : inst.ops[i] = v}
Defs(b) == DefsOf(f, b)
Defines(b, v) == v \in Defs(b)
Phis(b) == {f.code[b][i].def : i \in {j \in Index(b) : IsPhi(f.code[b][j])}}
Values == f.args \cup UNION {Defs(b) : b \in Blocks}

-----------------------------------------------------------------------------
(* Liveness *)

Edges == {e \in Blocks \X Blocks : e[2] \in f.succ[e[1]]}

\* Where v may have been defined before: from the entry for an argument, from
\* the successors of its block for an instruction.
LiveIn(v) == LET start == IF v \in f.args THEN {1}
                          ELSE UNION {f.succ[b] : b \in {x \in Blocks : Defines(x, v)}}
             IN  Search(Len(f.code), start, Edges)

\* The uses of v the search backwards starts from: the incoming block of a phi,
\* the predecessors of a block that uses v before it defines it.
UsedFrom(b, i, v) ==
    LET inst == f.code[b][i] IN
    CASE IsPhi(inst) -> {inst.from[j] : j \in {n \in DOMAIN inst.ops : inst.ops[n] = v}}
      [] Uses(inst, v) # {} /\ (\A h \in 1 .. i - 1 : f.code[b][h].def # v) -> Preds(b)
      [] OTHER -> {}
UsedAfter(v) == UNION {UNION {UsedFrom(b, i, v) : i \in Index(b)} : b \in Blocks}

\* The search goes to predecessors and stops at the block that defines v.
LiveOut(v) == Search(Len(f.code), UsedAfter(v),
                     {<<e[2], e[1]>> : e \in {d \in Edges : ~Defines(d[2], v)}})

FindLive ==
    /\ stage = "live"
    /\ live_in' = [b \in Blocks |-> {v \in Values : b \in LiveIn(v)}]
    /\ live_out' = [b \in Blocks |-> {v \in Values : b \in LiveOut(v)}]
    /\ IG' = {x \in f.args \X f.args : x[1] # x[2]}
    /\ stage' = "block"
    /\ UNCHANGED <<f, bb, k, living, remain, context, list, mapping, val>>

-----------------------------------------------------------------------------
(* Interference *)

\* Uses of v by the instructions of b from i to j.
UsesWithin(b, v, i, j) ==
    Cardinality(UNION {{n} \X Uses(f.code[b][n], v) : n \in i .. j})

LeftOver(b, v) == IF v \in live_out[b] THEN 1 ELSE 0

\* Uses of a value that comes from outside, until the block redefines it.
InitialRemain(b, v) ==
    IF v \notin live_in[b] THEN 0
    ELSE IF Defines(b, v)
         THEN UsesWithin(b, v, 1, CHOOSE i \in Index(b) : f.code[b][i].def = v)
         ELSE UsesWithin(b, v, 1, Len(f.code[b])) + LeftOver(b, v)

\* Slip: as if phis were assigned one after the other.
CliqueSlip(S) == {}

Clique(S) == {x \in S \X S : x[1] # x[2]}

StartBlock ==
    /\ stage = "block"
    /\ bb <= Len(f.code)
    /\ living' = live_in[bb]
    /\ remain' = [v \in Value |-> InitialRemain(bb, v)]
    /\ IG' = IG \cup Clique(Phis(bb))
    /\ k' = 1
    /\ stage' = "inst"
    /\ UNCHANGED <<f, bb, live_in, live_out, context, list, mapping, val>>

\* remain once the operands of the instruction have been read.
Read(inst) == [v \in Value |->
                 LET n == Cardinality(Uses(inst, v))
                 IN  IF remain[v] <= n THEN 0 ELSE remain[v] - n]

Active(rest) == {v \in living : rest[v] > 0}

\* Slip: the edge is entered for the instruction only.
ProcessInstSlip ==
    /\ stage = "inst"
    /\ k <= Len(f.code[bb])
    /\ LET inst == f.code[bb][k]
           v    == inst.def
           rest == Read(inst)
       IN  IF v = NoValue
           THEN /\ remain' = rest
                /\ UNCHANGED <<context, IG, living>>
           ELSE /\ context' = IF inst.call THEN With(context, v, Active(rest)) ELSE context
                /\ IG' = IG \cup ({v} \X Active(rest))
                /\ living' = living \cup {v}
                /\ remain' = [rest EXCEPT ![v] =
                                @ + UsesWithin(bb, v, k + 1, Len(f.code[bb])) + LeftOver(bb, v)]
    /\ k' = k + 1
    /\ UNCHANGED <<f, stage, bb, live_in, live_out, list, mapping, val>>

ProcessInst ==
    /\ stage = "inst"
    /\ k <= Len(f.code[bb])
    /\ LET inst == f.code[bb][k]
           v    == inst.def
           rest == Read(inst)
       IN  IF v = NoValue
           THEN /\ remain' = rest
                /\ UNCHANGED <<context, IG, living>>
           ELSE /\ context' = IF inst.call THEN With(context, v, Active(rest)) ELSE context
                /\ IG' = IG \cup ({v} \X Active(rest)) \cup (Active(rest) \X {v})
                /\ living' = living \cup {v}
                /\ remain' = [rest EXCEPT ![v] =
                                @ + UsesWithin(bb, v, k + 1, Len(f.code[bb])) + LeftOver(bb, v)]
    /\ k' = k + 1
    /\ UNCHANGED <<f, stage, bb, live_in, live_out, list, mapping, val>>

EndBlock ==
    /\ stage = "inst"
    /\ k > Len(f.code[bb])
    /\ bb' = bb + 1
    /\ stage' = "block"
    /\ UNCHANGED <<f, k, live_in, live_out, living, remain, IG, context, list, mapping, val>>

StartColour ==
    /\ stage = "block"
    /\ bb > Len(f.code)
    /\ list' = f.order
    /\ stage' = "colour"
    /\ UNCHANGED <<f, bb, k, live_in, live_out, living, remain, IG, context, mapping, val>>

-----------------------------------------------------------------------------
(* Colouring *)

\* is_mt_inside
mt_inside == f.tid # NoValue

Allowed(v) == (IF mt_inside THEN allocate_regs \ {thread_id_reg} ELSE allocate_regs)
                \ {mapping[w] : w \in {u \in DOMAIN mapping : <<v, u>> \in IG}}

\* A value without an allowed register is spilled.
Colour ==
    /\ stage = "colour"
    /\ list # <<>>
    /\ LET v == Head(list) IN
       IF v \in DOMAIN mapping \/ Allowed(v) = {} THEN mapping' = mapping
       ELSE \E r \in Allowed(v) : mapping' = With(mapping, v, r)
    /\ list' = Tail(list)
    /\ UNCHANGED <<f, stage, bb, k, live_in, live_out, living, remain, IG, context, val>>

\* allocateStackSpace moves the thread id, whatever its colour, to the register
\* in which __mtstart returns it.
AllocateStackSpace ==
    /\ stage = "colour"
    /\ list = <<>>
    /\ mapping' = IF mt_inside THEN With(mapping, f.tid, thread_id_reg) ELSE mapping
    /\ stage' = "stack"
    /\ UNCHANGED <<f, bb, k, live_in, live_out, living, remain, IG, context, list, val>>

-----------------------------------------------------------------------------
(* The function at run time *)

Loc(v) == IF v \in DOMAIN mapping THEN mapping[v] ELSE v
Place == allocate_regs \cup Value

\* Function entry moves all arguments at once to where they live.
StartRun ==
    /\ stage = "stack"
    /\ stage' = "run"
    /\ bb' = 1
    /\ k' = 1
    /\ val' = [p \in Place |-> IF \E a \in f.args : Loc(a) = p
                               THEN CHOOSE a \in f.args : Loc(a) = p ELSE NoValue]
    /\ UNCHANGED <<f, live_in, live_out, living, remain, IG, context, list, mapping>>

\* generateFunctionCall pushes the registers of the values known to be active,
\* except the one of the result; without that knowledge, all that are used.
Saved(inst) ==
    IF inst.def \in DOMAIN context
    THEN {mapping[v] : v \in context[inst.def] \cap DOMAIN mapping} \ {Loc(inst.def)}
    ELSE {mapping[v] : v \in DOMAIN mapping} \cap caller_save_regs

\* A call destroys the caller-saved registers that are not pushed.
AfterCall(inst) == [p \in Place |-> IF p \in caller_save_regs \ Saved(inst)
                                    THEN NoValue ELSE val[p]]

Execute ==
    /\ stage = "run"
    /\ k <= Len(f.code[bb])
    /\ LET inst == f.code[bb][k]
           before == IF inst.call THEN AfterCall(inst) ELSE val
       IN  val' = IF IsPhi(inst) \/ inst.def = NoValue THEN before
                  ELSE [before EXCEPT ![Loc(inst.def)] = inst.def]
    /\ k' = k + 1
    /\ UNCHANGED <<f, stage, bb, live_in, live_out, living, remain, IG, context, list, mapping>>

\* The operand of phi i of block s on the edge from block b.
Incoming(b, s, i) == LET inst == f.code[s][i]
                     IN  inst.ops[CHOOSE j \in DOMAIN inst.ops : inst.from[j] = b]

\* A branch carries out the moves for the phis of the successor at once;
\* virtualRegMove does not accept two into the same register.
Branch(s) ==
    /\ stage = "run"
    /\ k > Len(f.code[bb])
    /\ s \in f.succ[bb]
    /\ LET phis == {i \in Index(s) : IsPhi(f.code[s][i])}
           into(p) == {i \in phis : Loc(f.code[s][i].def) = p}
       IN  val' = [p \in Place |->
                     IF into(p) = {} THEN val[p]
                     ELSE LET i == CHOOSE i \in into(p) : TRUE
                              op == Incoming(bb, s, i)
                          IN  IF into(p) = {i} /\ val[Loc(op)] = op
                              THEN f.code[s][i].def ELSE NoValue]
    /\ bb' = s
    /\ k' = 1
    /\ UNCHANGED <<f, stage, live_in, live_out, living, remain, IG, context, list, mapping>>

Return == stage = "run" /\ k > Len(f.code[bb]) /\ f.succ[bb] = {} /\ UNCHANGED vars

-----------------------------------------------------------------------------
Init == /\ f \in Functions
        /\ stage = "live"
        /\ bb = 1 /\ k = 1
        /\ live_in = <<>> /\ live_out = <<>>
        /\ living = {} /\ remain = [v \in Value |-> 0]
        /\ IG = {} /\ context = <<>>
        /\ list = <<>> /\ mapping = <<>> /\ val = <<>>

Next == \/ FindLive \/ StartBlock \/ ProcessInst \/ EndBlock
        \/ StartColour \/ Colour \/ AllocateStackSpace
        \/ StartRun \/ Execute \/ (\E s \in Blocks : Branch(s)) \/ Return

Spec == Init /\ [][Next]_vars

-----------------------------------------------------------------------------
(* Properties *)

TypeOK ==
    /\ f \in Functions
    /\ stage \in {"live", "block", "inst", "colour", "stack", "run"}
    /\ bb \in Nat \ {0} /\ k \in Nat \ {0}
    /\ living \subseteq Value
    /\ remain \in [Value -> Nat]
    /\ IG \subseteq Value \X Value
    /\ list \in Seq(Value)
    /\ DOMAIN mapping \subseteq Value
    /\ \A v \in DOMAIN mapping : mapping[v] \in allocate_regs

\* Two values that interfere never get the same register, whatever the order
\* of the weights and the bonuses, and wherever the thread id is moved.
ProperColouring ==
    \A e \in IG : e[1] # e[2] /\ e[1] \in DOMAIN mapping /\ e[2] \in DOMAIN mapping
                    => mapping[e[1]] # mapping[e[2]]

\* The assertion of the walk: no value is still to be used when the walk comes
\* to its definition, so a use is never counted for another round of a loop.
DefNotActive ==
    stage = "inst" /\ k <= Len(f.code[bb])
      => LET inst == f.code[bb][k]
         IN  inst.def \notin Active(Read(inst))

\* Along every path, through every loop and call, an instruction and a phi find
\* each operand where its definition put it, __mtend the thread id included:
\* nothing that is still needed was given to another value or lost in a call; and
\* in no block an instruction is found active before it is defined, at which the
\* compiler would stop.
UsesSeeDefs ==
    /\ DefNotActive
    /\ stage = "run" =>
      IF k <= Len(f.code[bb])
      THEN LET inst == f.code[bb][k] IN
           ~IsPhi(inst) => \A j \in DOMAIN inst.ops : val[Loc(inst.ops[j])] = inst.ops[j]
      ELSE \A s \in f.succ[bb] : \A i \in Index(s) :
             IsPhi(f.code[s][i]) => LET op == Incoming(bb, s, i) IN val[Loc(op)] = op

-----------------------------------------------------------------------------
(* Finite instances for TLC *)

Op(d, ops) == [def |-> d, ops |-> ops, from |-> <<>>, call |-> FALSE]
Call(d, ops) == [Op(d, ops) EXCEPT !.call = TRUE]
Phi(d, ops, from) == [Op(d, ops) EXCEPT !.from = from]

\* A while loop, in a parallel region or not.  Both phis take any value that
\* dominates the end of the body, each other included; the body may have a call.
Loop(p, q, u, w, inst, tid, order) ==
    [args |-> {"a", "b"}, tid |-> tid,
     order |-> SelectSeq(order, LAMBDA v : v # "t" \/ tid = "t"),
     succ |-> <<{2}, {3, 4}, {2}, {}>>,
     code |-> <<IF tid = NoValue THEN <<>> ELSE <<Op(tid, <<>>)>>,
                <<Phi("p", <<"a", p>>, <<1, 3>>), Phi("q", <<"b", q>>, <<1, 3>>),
                  Op(NoValue, <<"p">>)>>,
                <<inst, Op(NoValue, <<"x", u>>)>>,
                <<Op(NoValue, <<w>>)>>
                  \o (IF tid = NoValue THEN <<>> ELSE <<Op(NoValue, <<tid>>)>>)>>]

\* A branch whose ends meet in two phis, with a value needed only past the
\* call in one arm, and a void call in the other.  One phi may be unused.
Diamond(p, q, u, w, end, order) ==
    [args |-> {"a", "b"}, tid |-> NoValue, order |-> order,
     succ |-> <<{2, 3}, {4}, {4}, {}>>,
     code |-> <<<<Op("x", <<"a", u>>), Op(NoValue, <<"a">>)>>,
                <<Call("y", <<"x">>), Op(NoValue, <<w>>)>>,
                <<Call(NoValue, <<u>>)>>,
                <<Phi("p", <<"y", p>>, <<2, 3>>), Phi("q", <<q, w>>, <<2, 3>>),
                  Op(NoValue, end)>>>>]

Orders == {<<"p", "x", "q", "a", "b", "t">>, <<"t", "b", "q", "a", "x", "p">>}
MCLoops == {Loop(p, q, u, w, inst, tid, order) :
              p \in {"a", "p", "q", "x"}, q \in {"b", "p", "x"}, u \in {"a", "q"},
              w \in {"q", "b"},
              inst \in {Op("x", <<"p", "q">>), Call("x", <<"p">>)},
              tid \in {NoValue, "t"}, order \in Orders}
MCDiamonds == {Diamond(p, q, u, w, end, order) :
                 end \in {<<"p", "q">>, <<"q">>}, p \in {"a", "x"}, q \in {"b", "x"}, u \in {"a", "b"}, w \in {"a", "x"},
                 order \in {<<"p", "x", "y", "q", "a", "b">>, <<"b", "q", "a", "y", "x", "p">>}}
MCFunctions == MCLoops \cup MCDiamonds
=============================================================================
