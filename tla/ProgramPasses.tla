---------------------------- MODULE ProgramPasses ----------------------------
(***************************************************************************)
(* The passes over whole programs, run one after the other as main runs    *)
(* them: FunctionOptimization, FunctionInline, GlobalVariableLocal, the    *)
(* parts of DeadCodeEliminate that look at functions, the merging of       *)
(* blocks of SimplifyCFG, RefactorPartIns and LoopInvariant, with IRCheck  *)
(* after each.                                                             *)
(***************************************************************************)
EXTENDS FunctionOptimization

CONSTANTS Cases,       \* programs, [prog, level, passes]
          LocalMax     \* the globals with which GlobalVariableLocal gives up, 10 in the code

VARIABLE meaning       \* what the program did before the first pass

vars == <<P, level, todo, phase, fivars, left, livars, hazards, fault, meaning>>

Rest == <<level, todo, fivars, livars, hazards, fault>>

Init == /\ \E c \in Cases : /\ P = c.prog /\ level = c.level /\ todo = c.passes
                            /\ meaning = Outcome(c.prog)
        /\ phase = "begin" /\ left = <<>>
        /\ ignored = {} /\ recursive_func = {} /\ inlined = {} /\ has_inline = {}
        /\ loops = <<>> /\ loop = "" /\ needDefinedInLoop = {} /\ invariant = <<>>
        /\ sweep = [blocks |-> {}, change |-> FALSE] /\ hazards = {} /\ fault = "none"

\* After each pass IRCheck; what it finds stops the compiler.
NextPass ==
    /\ todo # <<>> /\ phase = "end" /\ fault = "none"
    /\ todo' = Tail(todo)
    /\ phase' = "begin"
    /\ fault' = IF CallsExist(P) THEN "none" ELSE "exit"
    /\ UNCHANGED <<P, level, fivars, left, livars, hazards>>

-----------------------------------------------------------------------------
(* GlobalVariableLocal *)

UsersOfGlobal(name) ==
    {f \in DOMAIN P.order : \E i \in InstsOf(P, f) : G(name) \in ToSet(i.ops)}
      \cup {e[1] : e \in {e \in P.erased : e[2] = name}}

\* genArrayInitStores: an element 0 has no store.
InitStores(name, init) ==
    LET nonzero == SelectSeq([n \in DOMAIN init |-> n], LAMBDA n : init[n] # 0)
        Place(n) == Inst(name \o "_at" \o ToString(n), "gep", <<V(name), C(n - 1)>>)
    IN  FoldLeft(LAMBDA code, n :
                   code \o <<Place(n), StoreTo(name \o "_set" \o ToString(n), C(init[n]), V(Place(n).id))>>,
                 <<>>, nonzero)

LocalCode(g) ==
    IF Len(g.init) > 1
    THEN <<Inst(g.name, "allocaInit", <<C(Len(g.init))>>)>> \o InitStores(g.name, g.init)
    ELSE <<Inst(g.name, "alloca", <<C(1)>>), StoreTo(g.name \o "_set", C(g.init[1]), V(g.name))>>

\* localGlobalVariable: the variable becomes a local one of f, with its first
\* value stored at the entry.
LocalGlobalVariable(g, f) ==
    ReplaceAllUse([P EXCEPT !.code[Entry(P, f)] = LocalCode(g) \o @], f, G(g.name), V(g.name))

RecursiveMain == "main" \in visitFunc("main", {}, {})

BeginLocal ==
    /\ At("local", "begin")
    /\ left' = IF Len(P.globals) > LocalMax THEN <<>> ELSE P.globals
    /\ phase' = "globals"
    /\ UNCHANGED <<P, Rest, meaning>>

LocalGlobal ==
    /\ At("local", "globals")
    /\ left # <<>>
    /\ LET g == Head(left)
           users == UsersOfGlobal(g.name)
           Erased(Q) == [Q EXCEPT !.globals = SelectSeq(@, LAMBDA k : k.name # g.name)]
       IN  P' = CASE users = {} -> Erased(P)
                  [] users = {"main"} /\ ~RecursiveMain -> Erased(LocalGlobalVariable(g, "main"))
                  [] OTHER -> P
    /\ left' = Tail(left)
    /\ UNCHANGED <<phase, Rest, meaning>>

EndLocal == /\ At("local", "globals") /\ left = <<>>
            /\ phase' = "end"
            /\ UNCHANGED <<P, left, Rest, meaning>>

-----------------------------------------------------------------------------
(* DeadCodeEliminate *)

\* deleteDeadFunc: what the function dropped calls keeps it as a user.
DeleteDeadFunc ==
    /\ At("dce", "begin")
    /\ LET Dead(f) == ~External(P, f) /\ f # "main" /\ Callers(P, f) = {}
       IN  P' = [P EXCEPT !.funcs = SelectSeq(@, LAMBDA f : ~Dead(f))]
    /\ left' = SelectSeq(P'.funcs, LAMBDA f : f # "main" /\ ~External(P, f))
    /\ phase' = "returns"
    /\ UNCHANGED <<Rest, meaning>>

ResultUsed(f) ==
    \E g \in DOMAIN P.order : \E i \in InstsOf(P, g) : IsA("call", i) /\ i.fn = f /\ Used(P, g, i.id)

\* deleteDeadRet: a result nobody uses is 0.
DeleteDeadRet ==
    /\ At("dce", "returns")
    /\ left # <<>>
    /\ LET f == Head(left)
           Zero(i) == IF IsA("ret", i) /\ i.ops # <<>> THEN Ret(<<C(0)>>) ELSE i
       IN  P' = IF ResultUsed(f) THEN P
                ELSE [P EXCEPT !.code = [b \in DOMAIN @ |->
                        IF b \in Blocks(P, f) THEN [k \in DOMAIN @[b] |-> Zero(@[b][k])] ELSE @[b]]]
    /\ left' = Tail(left)
    /\ UNCHANGED <<phase, Rest, meaning>>

\* getFirstAddr
RECURSIVE FirstAddr(_, _)
FirstAddr(f, ptr) ==
    IF \E i \in InstsOf(P, f) : V(i.id) = ptr /\ IsA("gep", i)
    THEN FirstAddr(f, (CHOOSE i \in InstsOf(P, f) : V(i.id) = ptr).ops[1])
    ELSE ptr

IsLocalStore(f, i) ==
    \E a \in InstsOf(P, f) : a.op \in {"alloca", "allocaInit"} /\ V(a.id) = FirstAddr(f, i.ops[2])

\* detectNotSideEffectFunc
SideEffectFunc(f) ==
    \/ External(P, f) \/ f = "main"
    \/ \E i \in InstsOf(P, f) :
         \/ IsA("call", i)
         \/ IsA("store", i) /\ ~(level = "MIR_SSA" /\ IsLocalStore(f, i))

\* markUse
RECURSIVE Marked(_, _)
Marked(f, live) ==
    LET needed == {i \in InstsOf(P, f) \ live : \E u \in live : V(i.id) \in ToSet(u.ops)}
    IN  IF needed = {} THEN live ELSE Marked(f, live \cup needed)

DeleteDeadInst ==
    /\ At("dce", "returns")
    /\ left = <<>>
    /\ LET Roots(f) == {i \in InstsOf(P, f) :
                          \/ i.op \in {"ret", "br", "store"}
                          \/ IsA("call", i) /\ SideEffectFunc(i.fn)}
           live == [f \in Functions(P) |-> Marked(f, Roots(f))]
           Live(b, i) == \A f \in Functions(P) : b \in Blocks(P, f) => i \in live[f]
       IN  P' = [P EXCEPT !.code = [b \in DOMAIN @ |-> SelectSeq(@[b], LAMBDA i : Live(b, i))]]
    /\ phase' = "end"
    /\ UNCHANGED <<left, Rest, meaning>>

-----------------------------------------------------------------------------
(* MergeSinglePredecessorBB of SimplifyCFG: a block that only one other     *)
(* goes to, and always, becomes its end.  Labels of phis follow.            *)

Mergeable(f) == {b \in Blocks(P, f) :
                   /\ b # Entry(P, f)
                   /\ Len(Preds(P, f, b)) = 1
                   /\ Len(Targets(P, Head(Preds(P, f, b)))) = 1}

MergeInto(f, p, b) ==
    LET Label(i) == IF IsA("phi", i) THEN [i EXCEPT !.to = Replace(@, b, p)] ELSE i
    IN  [P EXCEPT !.order[f] = SelectSeq(@, LAMBDA c : c # b),
                  !.code = [c \in DOMAIN @ \ {b} |->
                      LET own == IF c = p THEN Front(@[c]) \o @[b] ELSE @[c]
                      IN  IF c \in Blocks(P, f) THEN [k \in DOMAIN own |-> Label(own[k])] ELSE own],
                  !.nest = [c \in DOMAIN @ \ {b} |-> @[c]]]

MergeBlock ==
    /\ At("simplify", "begin")
    /\ \E f \in Functions(P) :
         /\ Mergeable(f) # {}
         /\ LET b == CHOOSE b \in Mergeable(f) : TRUE IN P' = MergeInto(f, Head(Preds(P, f, b)), b)
    /\ UNCHANGED <<phase, left, Rest, meaning>>

EndMerge == /\ At("simplify", "begin")
            /\ \A f \in Functions(P) : Mergeable(f) = {}
            /\ phase' = "end"
            /\ UNCHANGED <<P, left, Rest, meaning>>

-----------------------------------------------------------------------------
(* RefactorPartIns: constants come second. *)

Swapped(i) == [i EXCEPT !.ops = <<@[2], @[1]>>]
Mirror == [lt |-> "gt", gt |-> "lt", le |-> "ge", ge |-> "le"]

\* The pairs of a phi with a constant change places with those behind that
\* have none.
RECURSIVE PhiSwapped(_, _, _)
PhiSwapped(i, l, r) ==
    LET Exchanged(s) == [s EXCEPT ![l] = s[r], ![r] = s[l]]
    IN  CASE l >= r -> i
          [] l < r /\ ~IsConst(i.ops[l]) -> PhiSwapped(i, l + 1, r)
          [] l < r /\ IsConst(i.ops[l]) /\ IsConst(i.ops[r]) -> PhiSwapped(i, l, r - 1)
          [] OTHER -> PhiSwapped([i EXCEPT !.ops = Exchanged(@), !.to = Exchanged(@)], l + 1, r - 1)

Refactored(i) ==
    IF i.ops = <<>> \/ ~IsConst(i.ops[1]) THEN i
    ELSE CASE i.op = "phi" -> PhiSwapped(i, 1, Len(i.ops))
           [] i.op \in DOMAIN Mirror -> [Swapped(i) EXCEPT !.op = Mirror[i.op]]
           [] i.op = "sub" -> [Swapped(i) EXCEPT !.op = "rsub"]
           [] i.op \in {"mul", "add", "eq", "ne"} -> Swapped(i)
           [] OTHER -> i

Refactor ==
    /\ At("refactor", "begin")
    /\ P' = [P EXCEPT !.code = [b \in DOMAIN @ |-> [k \in DOMAIN @[b] |-> Refactored(@[b][k])]]]
    /\ phase' = "end"
    /\ UNCHANGED <<left, Rest, meaning>>

-----------------------------------------------------------------------------
Stopped == (todo = <<>> \/ fault # "none") /\ UNCHANGED vars

Next == \/ FunctionInlineStep /\ UNCHANGED <<livars, hazards, fault, meaning>>
        \/ LoopInvariantStep /\ UNCHANGED meaning
        \/ Optimize /\ UNCHANGED meaning
        \/ NextPass /\ UNCHANGED meaning
        \/ BeginLocal \/ LocalGlobal \/ EndLocal
        \/ DeleteDeadFunc \/ DeleteDeadRet \/ DeleteDeadInst
        \/ MergeBlock \/ EndMerge \/ Refactor
        \/ Stopped

Spec == Init /\ [][Next]_vars

-----------------------------------------------------------------------------
\* Between FunctionInline in SSA form and the merging of blocks behind it the
\* labels of some phis are those of blocks that were cut.
Cut == level = "MIR_SSA" /\ has_inline # {} /\ todo # <<>> /\ Head(todo) # "invariant"
         /\ ~(Head(todo) = "simplify" /\ phase = "end") /\ Contains(todo, "simplify")

\* The passes do not change what the program reads, passes on and returns,
\* whichever functions are inlined, emptied and removed, wherever its variables
\* come to live and whatever leaves a loop; moves LoopInvariant does not guard
\* against apart.
MeaningKept == CallsExist(P) /\ ~Cut /\ hazards = {} => Outcome(P) = meaning

\* In SSA form a phi has one pair for each edge, and a value is defined on
\* every path to its use: after a split the labels are right again as soon as
\* the blocks are merged; a block put before a loop takes over all edges.
StaysSSA ==
    ~Cut /\ "area" \notin hazards =>
      \A f \in Functions(P) : PhisFollowEdges(P, f) /\ ValuesAvailable(P, f)

\* The compiler stops for two reasons only.  A function was inlined into main
\* but kept for a caller that was not, and a function it calls was removed all
\* the same; or a phi at the head of a loop gets one value from two blocks.
ComesThrough ==
    ~CallsExist(P) \/ fault = "exit" =>
      \/ \E f \in Functions(P) \cap inlined :
           /\ \E i \in InstsOf(P, f) : IsA("call", i) /\ i.fn \notin Functions(P)
           /\ \E g \in Callers(P, f) : g \notin has_inline \cup inlined
      \/ \E b \in DOMAIN loops : \E i \in ToSet(P.code[b]) : IsA("phi", i) /\ ~IsInjective(i.ops)
=============================================================================
