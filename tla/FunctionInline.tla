--------------------------- MODULE FunctionInline ---------------------------
(***************************************************************************)
(* The pass FunctionInline.  Before the IR is in SSA form the calls of     *)
(* main are inlined, of functions without nested loops and without         *)
(* recursion; in SSA form the calls of every function that is kept, of     *)
(* functions with a single small block.  A function all of whose callers   *)
(* were inlined or inlined into is removed from the module.                *)
(***************************************************************************)
EXTENDS ProgramCode

CONSTANTS LoopLevelMax,     \* INLINE_LOOP_LEVEL_MAX, 1
          SmallMax          \* the instructions of a function inlined in SSA form, 5

VARIABLES P,
          level,            \* "MIR_MEM" or "MIR_SSA"
          todo,             \* the passes to come, the one at work first
          phase,            \* what the pass at work does next
          ignored, recursive_func, inlined, has_inline,
          left              \* the functions a pass has still to visit, in order

fivars == <<ignored, recursive_func, inlined, has_inline>>

At(pass, ph) == todo # <<>> /\ Head(todo) = pass /\ phase = ph

-----------------------------------------------------------------------------
\* The loops around a block; LoopFind finds the natural loops.
NestedLevel(f, b) ==
    LET g == FlowOf(P, f)
    IN  Cardinality({h \in LoopsOf(g, Entry(P, f)) : b \in NaturalLoop(g, Entry(P, f), h)})

Ignored == {f \in Functions(P) :
              External(P, f) \/ \E b \in Blocks(P, f) : NestedLevel(f, b) > LoopLevelMax}

\* createFuncSucc
FuncSucc(g, but) == {f \in Functions(P) \ but : g \in Callers(P, f)}

\* Slip: a function that is met again is known only while its caller is at work.
RECURSIVE visitFuncSlip(_, _, _)
visitFuncSlip(entry, visited, but) ==
    LET succ == FuncSucc(entry, but)
    IN  (succ \cap {entry}) \cup
        UNION {visitFuncSlip(f, visited \cup {entry}, but) : f \in succ \ (visited \cup {entry})}

\* visitFunc: the functions met again on a path from entry, that is the first
\* of each cycle.
RECURSIVE visitFunc(_, _, _)
visitFunc(entry, visited, but) ==
    LET path == visited \cup {entry}
        succ == FuncSucc(entry, but)
    IN  (succ \cap path) \cup UNION {visitFunc(f, path, but) : f \in succ \ path}

CanBeInlined(i) ==
    /\ IsA("call", i)
    /\ IF level = "MIR_SSA"
       THEN Len(P.order[i.fn]) = 1 /\ Len(P.code[Entry(P, i.fn)]) <= SmallMax
       ELSE i.fn \notin ignored \cup recursive_func

-----------------------------------------------------------------------------
(* One call *)

Copy(x, n) == x \o "_" \o ToString(n)

\* copyBasicBlocks: the blocks of the function called, renamed, with the
\* operands of the call for its parameters.
CopiedOperand(call, n, v) ==
    IF ~IsValue(v) THEN v
    ELSE IF Contains(P.args[call.fn], v[2])
         THEN call.ops[CHOOSE k \in DOMAIN call.ops : P.args[call.fn][k] = v[2]]
         ELSE V(Copy(v[2], n))

CopiedInst(call, n, i) ==
    [i EXCEPT !.id = Copy(@, n),
              !.ops = [k \in DOMAIN @ |-> CopiedOperand(call, n, @[k])],
              !.to = [k \in DOMAIN @ |-> Copy(@[k], n)]]

CopiedCode(call, n, b) == [k \in DOMAIN P.code[b] |-> CopiedInst(call, n, P.code[b][k])]

\* The instructions a return becomes: handleReturns, handleVoidReturn and
\* handlePHIReturns.
Returns(code, n, space) ==
    IF ~IsA("ret", Last(code)) THEN code
    ELSE Front(code)
           \o (IF space = "" THEN <<>> ELSE <<StoreTo(Copy("result", n), Last(code).ops[1], V(space))>>)
           \o <<Br(Copy("split", n))>>

\* splitBasicBlock: a phi that is given the value of an instruction moved by
\* b has the new block for a label.  One that is given a constant, or a value
\* from before the call, keeps b, from where no edge comes any more.
Relabelled(i, b, n, moved) ==
    IF ~IsA("phi", i) THEN i
    ELSE [i EXCEPT !.to = [k \in DOMAIN @ |->
            IF @[k] = b /\ IsValue(i.ops[k]) /\ i.ops[k][2] \in moved THEN Copy("split", n) ELSE @[k]]]

\* What stands for the call, and at the head of the block behind it.
Result(call, n, copies, space) ==
    LET rets == SelectSeq(copies, LAMBDA b : IsA("ret", Terminator(P, b)))
        vals == [k \in DOMAIN rets |-> CopiedOperand(call, n, Terminator(P, rets[k]).ops[1])]
        id == Copy("value", n)
    IN  IF Terminator(P, Head(rets)).ops = <<>> THEN [val |-> C(0), head |-> <<>>]
        ELSE IF space # "" THEN [val |-> V(id), head |-> <<Inst(id, "load", <<V(space)>>)>>]
        ELSE IF Len(vals) = 1 THEN [val |-> vals[1], head |-> <<>>]
        ELSE [val |-> V(id), head |-> <<Phi(id, vals, [k \in DOMAIN rets |-> Copy(rets[k], n)])>>]

\* The call at position k of block b of the function f.
Inlined(f, b, k) ==
    LET call == P.code[b][k]
        callee == P.order[call.fn]
        n == P.copies + 1
        split == Copy("split", n)
        isVoid == \A c \in ToSet(callee) : Terminator(P, c).op = "ret" => Terminator(P, c).ops = <<>>
        space == IF level = "MIR_SSA" \/ isVoid THEN "" ELSE Copy("space", n)
        result == Result(call, n, callee, space)
        behind == SubSeq(P.code[b], k + 1, Len(P.code[b]))
        moved == {behind[m].id : m \in DOMAIN behind}
        at == CHOOSE m \in DOMAIN P.order[f] : P.order[f][m] = b
        Entered(c, code) == IF c = Head(callee) /\ space # ""
                            THEN <<Inst(space, "alloca", <<C(1)>>)>> \o code ELSE code
        copied == [c \in {Copy(callee[m], n) : m \in DOMAIN callee} |->
                     LET old == CHOOSE o \in ToSet(callee) : Copy(o, n) = c
                     IN  Entered(old, Returns(CopiedCode(call, n, old), n, space))]
        cut == b :> Append(SubSeq(P.code[b], 1, k - 1), Br(Copy(Head(callee), n)))
        rest == split :> (result.head \o behind)
        Q == [P EXCEPT
                !.order[f] = SubSeq(@, 1, at) \o [m \in DOMAIN callee |-> Copy(callee[m], n)]
                               \o <<split>> \o SubSeq(@, at + 1, Len(@)),
                !.code = copied @@ rest @@ cut @@ @,
                !.erased = @ \cup {<<f, call.fn>>},
                !.nest = [c \in DOMAIN copied |-> Append(@[b], call.fn)] @@ With(@, split, @[b]),
                !.copies = n]
        R == ReplaceAllUse(Q, f, V(call.id), result.val)
    IN  [R EXCEPT !.code = [c \in DOMAIN @ |->
           IF c \in ToSet(R.order[f]) THEN [m \in DOMAIN @[c] |-> Relabelled(@[c][m], b, n, moved)]
           ELSE @[c]]]

Sites(f) == {<<m, k>> \in (DOMAIN P.order[f]) \X (1 .. 20) :
               /\ k \in DOMAIN P.code[P.order[f][m]]
               /\ CanBeInlined(P.code[P.order[f][m]][k])}

-----------------------------------------------------------------------------
(* The steps of the pass *)

\* init, createFuncSucc, detectRecursive
BeginInline ==
    /\ At("inline", "begin")
    /\ ignored' = Ignored
    /\ recursive_func' = visitFunc("main", {}, Ignored)
    /\ inlined' = {} /\ has_inline' = {}
    /\ left' = IF level = "MIR_SSA"
               THEN <<"main">> \o SelectSeq(P.funcs, LAMBDA f : f # "main")
               ELSE <<"main">>
    /\ phase' = "calls"
    /\ UNCHANGED <<P, level, todo>>

\* inlining: the walk over the blocks goes on with the first of the copies.
InlineCall ==
    /\ At("inline", "calls")
    /\ left # <<>> /\ Head(left) \notin inlined
    /\ LET f == Head(left) IN
       /\ Sites(f) # {}
       /\ LET first == CHOOSE s \in Sites(f) : \A t \in Sites(f) :
                         s[1] < t[1] \/ (s[1] = t[1] /\ s[2] <= t[2])
              b == P.order[f][first[1]]
          IN  /\ P' = Inlined(f, b, first[2])
              /\ inlined' = inlined \cup {P.code[b][first[2]].fn}
              /\ has_inline' = has_inline \cup {f}
    /\ UNCHANGED <<level, todo, phase, ignored, recursive_func, left>>

NextFunction ==
    /\ At("inline", "calls")
    /\ left # <<>> /\ (Head(left) \in inlined \/ Sites(Head(left)) = {})
    /\ left' = Tail(left)
    /\ UNCHANGED <<P, level, todo, phase, fivars>>

\* Slip: a function is removed as soon as it was inlined somewhere.
RemovableSlip == inlined

\* The functions go one by one, and their uses with them.  Those are uses by members
\* of inlined_, which never keep another function, so the set can be found at once.
Removable == {f \in inlined : Callers(P, f) \subseteq has_inline \cup inlined}

\* The functions leave the module, and their instructions the use lists.
Without(Q, gone) ==
    [Q EXCEPT !.funcs = SelectSeq(@, LAMBDA f : f \notin gone),
              !.order = [f \in DOMAIN @ \ gone |-> @[f]]]

RemoveInlineFunc ==
    /\ At("inline", "calls")
    /\ left = <<>>
    /\ P' = Without(P, Removable)
    /\ phase' = "end"
    /\ UNCHANGED <<level, todo, left, fivars>>

FunctionInlineStep == BeginInline \/ InlineCall \/ NextFunction \/ RemoveInlineFunc

-----------------------------------------------------------------------------
\* No function is inlined into a copy of itself: recursion that was not seen
\* would have the pass copy for ever.
NeverIntoItself == \A b \in DOMAIN P.nest : IsInjective(P.nest[b])
=============================================================================
