------------------------------ MODULE FrontEnd ------------------------------
(***************************************************************************)
(* A program from its syntax tree to the end of the high-level IR, as main *)
(* takes it: SYSYCBuilder, HighIRsimplyCFG, LoopMerge, AccumulatePattern,  *)
(* HighIRsimplyCFG.  What a program means must stay what its text means.   *)
(*                                                                         *)
(* LoopMerge and AccumulatePattern do not ask for all that would make them *)
(* right; hazards holds what a step took for granted, and a program whose  *)
(* hazards are not empty is promised nothing.                              *)
(***************************************************************************)
EXTENDS LoopPatterns

CONSTANT Cases      \* programs, [text, input]

VARIABLES case,     \* the program
          phase,
          P,        \* its HIR, with the state of the builder
          todo,     \* what the phase still has to look at
          scan,     \* what a pass remembers
          hazards,
          meaning   \* what the text means

vars == <<case, phase, P, todo, scan, hazards, meaning>>

\* A pattern: the loop, its iterator, start and end, what it stores to.
NoPattern == [while |-> 0, iter |-> Null, start |-> Null, end |-> Null, vars |-> {}]

Init == /\ case \in Cases
        /\ phase = "build"
        /\ P = Builder
        /\ todo = case.text
        /\ scan = <<>>
        /\ hazards = {}
        /\ meaning = TextMeaning(case.text, case.input)

\* The compiler stops, or goes on.
Become(p, next) == /\ P' = p
                   /\ phase' = IF p.fault # "" THEN "stopped" ELSE next
                   /\ UNCHANGED <<case, meaning>>

-----------------------------------------------------------------------------
(* SYSYCBuilder *)

\* An operand of && that is not 0 or 1, and a call that && and || would not
\* always make.
IsTruth(p, v) == IsOp(p, "zext", v) \/ IsOp(p, "and", v)
BuilderHazards(p) ==
    LET logical == {i \in DOMAIN p.ins : p.ins[i].op \in {"and", "or"}}
        right(i) == p.ins[i].ops[2]
    IN  {h \in {"bitwise", "eager", "initialiser"} :
           \/ h = "bitwise" /\ \E i \in logical : p.ins[i].op = "and"
                                 /\ \E n \in {1, 2} : ~IsTruth(p, p.ins[i].ops[n])
           \/ h = "eager" /\ \E i \in logical : IsIns(right(i))
                               /\ \E j \in Needed(p, right(i)[2]) : p.ins[j].op = "call"
           \/ h = "initialiser" /\ p.padded}

BuildDeclDef ==
    /\ phase = "build"
    /\ Become(Visit(P, Head(todo)), IF Len(todo) = 1 THEN "simplify" ELSE "build")
    /\ todo' = Tail(todo)
    /\ hazards' = BuilderHazards(P')
    /\ UNCHANGED scan

-----------------------------------------------------------------------------
(* HighIRsimplyCFG *)

Moved(p, code, b) ==
    [p EXCEPT !.ins = [i \in DOMAIN @ |-> IF i \in ToSet(code) THEN [@[i] EXCEPT !.at = b] ELSE @[i]]]

MergeBasicBlock(p, b, succ) ==
    [Moved(p, p.blk[succ].code, b) EXCEPT !.blk[b].code = @ \o p.blk[succ].code]

RECURSIVE MergeList(_, _)

\* MergeIfBB and MergeWhileBB
MergeNested(p, b) == FoldLeft(LAMBDA q, list : MergeList(q, list), p, ListsOf(p, b))

MergeList(p, list) ==
    LET Basic(b) == p.blk[b].kind = "basic"
        all == FoldLeft(LAMBDA acc, b :
                 IF Basic(b) /\ acc.list # <<>> /\ Basic(IF acc.list = <<>> THEN b ELSE Last(acc.list))
                 THEN [acc EXCEPT !.p = MergeBasicBlock(@, Last(acc.list), b)]
                 ELSE [p |-> MergeNested(acc.p, b), list |-> Append(acc.list, b)],
               [p |-> p, list |-> <<>>], p.lists[list])
    IN  [all.p EXCEPT !.lists[list] = all.list]

MergeSinglePredecessorBB(p) == FoldLeft(LAMBDA q, f : MergeList(q, <<"fn", f>>), p, p.fns)

SimplifyCFG ==
    /\ phase \in {"simplify", "simplify again"}
    /\ Become(MergeSinglePredecessorBB(P), IF phase = "simplify" THEN "merge" ELSE "done")
    /\ todo' = <<>>
    /\ scan' = <<>>
    /\ UNCHANGED hazards

-----------------------------------------------------------------------------
(* What a pass relies on *)

\* Arrays that may be one: a parameter may be any array.
IsParam(p, v) == TypeOf(p, v) = PtrPtr
MayAlias(p, v, w) == \/ RootOf(p, v) = RootOf(p, w)
                     \/ \E q \in {<<v, w>>, <<w, v>>} : /\ IsParam(p, RootOf(p, q[1]))
                                                       /\ IsOp(p, "gep", q[2])
                                                       /\ IsOp(p, "gep", q[1])

OpsIn(p, b, op) == SelectSeq(p.blk[b].code, LAMBDA i : p.ins[i].op = op)
ReadBy(p, b) == {p.ins[i].ops[1] : i \in {j \in ToSet(OpsIn(p, b, "load")) : p.ins[j].ty = I32}}
WrittenBy(p, b) == {p.ins[i].ops[2] : i \in ToSet(OpsIn(p, b, "store"))}
Same(p, v, w) == v = w \/ isSameAddr(p, v, w) = "yes"

\* As often as a block stores to an address it loads from it, for the sum it
\* stores.
OnlySums(p, b, v) ==
    Len(SelectSeq(OpsIn(p, b, "load"), LAMBDA i : Same(p, v, p.ins[i].ops[1])))
      = Len(SelectSeq(OpsIn(p, b, "store"), LAMBDA i : Same(p, v, p.ins[i].ops[2])))

-----------------------------------------------------------------------------
(* LoopMerge *)

Body(p, w) == p.lists[<<"body", w>>]
IsBasic(p, b) == p.blk[b].kind = "basic"

isSimpleAccuPat(p, exps, w) ==
    LET cond == LoopCond(p, exps, w)
        body == Body(p, w)
    IN  IF cond = <<>> \/ Len(body) # 1 THEN "no"
        ELSE IF ~IsBasic(p, body[1]) THEN "no"
        ELSE IterFrom(p, Stores(p, exps[body[1]]), cond[1], FALSE)

checkSetCurStart(p, es, iter) ==
    IF es = <<>> THEN "stop"
    ELSE IF Last(es).addr = Null THEN "no"
    ELSE And(isSameAddr(p, Last(es).addr, iter), Answer(Last(es).exp.level = "nop"))

allAccu(p, es) ==
    All([n \in DOMAIN es |-> IF p.ins[es[n].ins].op # "store" THEN "no" ELSE isAssignPlus(p, es[n])])

\* What comes of comparing the variables of one loop with those of the other
\* and with what that one loads.  They are in a hash set: of several answers
\* but "yes", any may come first.
Unrelated(p, these, others, b) ==
    LET same(v) == {isSameAddr(p, w, v) : w \in others}
        loads == OpsIn(p, b, "load")
        answer(v) == IF "stop" \in same(v) THEN "stop"
                     ELSE IF "yes" \in same(v) THEN "yes"
                     ELSE All([n \in DOMAIN loads |-> Not(isSameAddr(p, v, p.ins[loads[n]].ops[1]))])
    IN  {answer(v) : v \in these} \ {"yes"}

isSameAccuPattern(p, exps, last, cur) ==
    LET from == Body(p, last.while)[1]
        to == Body(p, cur.while)[1]
        accu == And(allAccu(p, exps[from]), allAccu(p, exps[to]))
        one == Unrelated(p, last.vars, cur.vars, to)
        two == Unrelated(p, cur.vars, last.vars, from)
    IN  IF accu # "yes" THEN {accu} ELSE IF one # {} THEN one ELSE IF two # {} THEN two ELSE {"yes"}

SameBound(p, v, w, cur, last) ==
    IF IsConst(v) \/ IsConst(w) THEN Answer(v = w)
    ELSE And(isSameAddr(p, v, w), Answer(v \notin cur.vars /\ w \notin last.vars))

mergeAble(p, exps, last, cur) ==
    LET bounds == And(isSameAddr(p, cur.iter, last.iter),
                      And(SameBound(p, cur.start, last.start, cur, last),
                          SameBound(p, cur.end, last.end, cur, last)))
    IN  IF last.while = 0 THEN {"no"}
        ELSE IF bounds # "yes" THEN {bounds} ELSE isSameAccuPattern(p, exps, last, cur)

\* The first load of the iterator.
InsertPoint(p, code, iter) ==
    SelectInSeq(code, LAMBDA i : p.ins[i].op = "load" /\ isSameAddr(p, p.ins[i].ops[1], iter) # "no")

\* Slip: the iterator is stepped by both loops.
CopiedSlip(p, es, iter) ==
    [before |-> FlattenSeq([n \in DOMAIN es |-> getRelatedIns(p, es[n].ins)]), after |-> <<>>]

\* The instructions of the first loop go before that load, and those after
\* its step of the iterator behind the rest; its iterator is not stepped.
Copied(p, es, iter) ==
    FoldLeft(LAMBDA acc, e :
               LET code == getRelatedIns(p, e.ins)
               IN  IF e.addr # Null /\ isSameAddr(p, e.addr, iter) = "yes" THEN [acc EXCEPT !.stepped = TRUE]
                   ELSE IF acc.stepped THEN [acc EXCEPT !.after = @ \o code]
                   ELSE [acc EXCEPT !.before = @ \o code],
             [before |-> <<>>, after |-> <<>>, stepped |-> FALSE], es)

\* The first loop goes, and the block behind it.
WithoutLoop(list, w) ==
    LET n == SelectInSeq(list, LAMBDA b : b = w) IN SubSeq(list, 1, n - 1) \o SubSeq(list, n + 2, Len(list))

Merged(p, exps, list, last, cur) ==
    LET from == Body(p, last.while)[1]
        to == Body(p, cur.while)[1]
        code == p.blk[to].code
        at == InsertPoint(p, code, cur.iter)
        copy == Copied(p, exps[from], last.iter)
        stops == \E e \in ToSet(exps[from]) : e.addr # Null /\ isSameAddr(p, e.addr, last.iter) = "stop"
    IN  CASE list[1] # "fn" /\ p.blk[IF list[1] = "fn" THEN to ELSE list[2]].kind = "if" ->
               Stop(p, "in a branch")
          [] at = 0 -> Stop(p, "no insert point")
          [] at > 0 /\ (isSameAddr(p, p.ins[code[at]].ops[1], cur.iter) = "stop" \/ stops) ->
               Stop(p, "address")
          [] OTHER ->
               [Moved(p, copy.before \o copy.after, to) EXCEPT
                  !.blk[to].code = SubSeq(@, 1, at - 1) \o copy.before \o SubSeq(@, at, Len(@)) \o copy.after,
                  !.lists[list] = WithoutLoop(@, last.while)]

\* What two loops have to do with each other, and what merging them may lose.
StepIsLast(p, es, iter) == isSameAddr(p, Last(es).addr, iter) = "yes"
OwnElement(p, v, iter) == IF ~IsOp(p, "gep", v) THEN FALSE
                          ELSE LET n == Inst(p, v).ops[2] IN IsOp(p, "load", n) /\ Inst(p, n).ops[1] = iter
Independent(p, exps, from, to, iter, v, w) ==
    \/ ~MayAlias(p, v, w)
    \/ RootOf(p, v) = iter
    \/ /\ Same(p, v, w)
       /\ \/ OwnElement(p, v, iter) /\ StepIsLast(p, exps[from], iter) /\ StepIsLast(p, exps[to], iter)
          \/ OnlySums(p, from, v) /\ OnlySums(p, to, v)

MergeHazards(p, exps, list, last, cur) ==
    LET from == Body(p, last.while)[1]
        to == Body(p, cur.while)[1]
        code == p.blk[to].code
        at == InsertPoint(p, code, cur.iter)
        init == p.lists[list][SelectInSeq(p.lists[list], LAMBDA b : b = cur.while) - 1]
        known(b) == UNION {Needed(p, e.ins) : e \in ToSet(exps[b])}
        pairs == (WrittenBy(p, from) \X (ReadBy(p, to) \cup WrittenBy(p, to)))
                   \cup (ReadBy(p, from) \X WrittenBy(p, to))
        written == WrittenBy(p, from) \cup WrittenBy(p, to)
        early == {p.ins[i].ops[1] : i \in {j \in ToSet(SubSeq(code, 1, at - 1)) : p.ins[j].op = "load"}}
    IN  {h \in {"entangled", "lost update", "stale expressions", "init block", "end moves"} :
           \/ h = "entangled" /\ \E q \in pairs : ~Independent(p, exps, from, to, cur.iter, q[1], q[2])
           \/ h = "lost update" /\ \E v \in early, w \in WrittenBy(p, from) : MayAlias(p, v, w)
           \/ h = "stale expressions" /\ ToSet(p.blk[from].code) # known(from)
           \/ h = "init block" /\ ToSet(p.blk[init].code) # known(init)
           \/ h = "end moves" /\ \E v \in {cur.start, cur.end} \ {Const(n) : n \in 0 .. 9}, w \in written :
                                   ~IsConst(v) /\ MayAlias(p, v, w)}

\* The lists with two loops or more, in the order in which they are stacked;
\* the last is looked at first.
RECURSIVE ListsToCheck(_, _)
ListsToCheck(p, stack) ==
    IF stack = <<>> THEN <<>>
    ELSE LET list == p.lists[Last(stack)]
             whiles == SelectSeq(list, LAMBDA b : p.blk[b].kind = "while")
             inner == FlattenSeq([n \in DOMAIN list |->
                        SelectSeq(ListsOf(p, list[n]), LAMBDA l : l[1] # "cond")])
         IN  (IF Len(whiles) > 1 THEN <<Last(stack)>> ELSE <<>>)
               \o ListsToCheck(p, Front(stack) \o inner)

MergeStart ==
    LET exps == BBExps(P)
    IN  /\ phase = "merge"
        /\ phase' = IF runFailed(exps) THEN "accumulate" ELSE "merge lists"
        /\ todo' = ListsToCheck(P, [n \in DOMAIN P.fns |-> <<"fn", P.fns[n]>>])
        /\ scan' = [exps |-> exps, at |-> 1, last |-> NoPattern, curVar |-> {}]
        /\ UNCHANGED <<case, P, hazards, meaning>>

\* The loop at scan.at and the block before it, which must be a basic one.
ThisList == P.lists[Last(todo)]
ThisBlock == ThisList[scan.at]
BlockBefore == ThisList[scan.at - 1]
IsCandidate == IF P.blk[ThisBlock].kind = "while" /\ scan.at > 1 THEN IsBasic(P, BlockBefore) ELSE FALSE

Scanning == phase = "merge lists" /\ todo # <<>>

\* The next block of the list; last is the pattern before it.
GoOn(last, curVar) == /\ scan' = [scan EXCEPT !.at = @ + 1, !.last = last, !.curVar = curVar]
                      /\ UNCHANGED <<case, phase, P, todo, hazards, meaning>>

PassOver == /\ Scanning
            /\ scan.at <= Len(ThisList)
            /\ ~IsCandidate
            /\ GoOn(scan.last, scan.curVar)

\* What the loop stores to, its iterator excepted.
NewVars(w, iter) == {e.addr : e \in {x \in ToSet(Stores(P, scan.exps[Body(P, w)[1]])) :
                                       isSameAddr(P, iter, x.addr) = "no"}}

CurPattern ==
    LET cond == LoopCond(P, scan.exps, ThisBlock)
    IN  [while |-> ThisBlock, iter |-> cond[1], end |-> cond[2],
         start |-> Last(scan.exps[BlockBefore]).exp.lval,
         vars |-> scan.curVar \cup NewVars(ThisBlock, cond[1])]

Refuse(why) == Become(Stop(P, why), phase) /\ UNCHANGED <<todo, scan, hazards>>

\* The loop before stands before the block in front of this one, and that
\* block has nothing to do but set the iterator.
Adjacent == /\ Len(scan.exps[BlockBefore]) = 1
            /\ scan.at > 2
            /\ ThisList[IF scan.at > 2 THEN scan.at - 2 ELSE scan.at] = scan.last.while

\* A loop that is no pattern is forgotten, but not what it stores to.
NotPattern(simple) == GoOn(NoPattern, IF simple = "yes" THEN CurPattern.vars ELSE scan.curVar)

TryMerge(cur) ==
    \E answer \in mergeAble(P, scan.exps, scan.last, cur) :
      \/ answer = "stop" /\ Refuse("address")
      \/ answer = "no" /\ GoOn(cur, {})
      \/ answer = "yes" /\ ~Adjacent /\ GoOn(cur, {})
      \/ /\ answer = "yes"
         /\ Adjacent
         /\ Become(Merged(P, scan.exps, Last(todo), scan.last, cur), phase)
         /\ scan' = [scan EXCEPT !.at = 1, !.curVar = cur.vars]
         /\ hazards' = hazards \cup MergeHazards(P, scan.exps, Last(todo), scan.last, cur)
         /\ UNCHANGED todo

ScanLoop ==
    LET exps == scan.exps
        simple == isSimpleAccuPat(P, exps, ThisBlock)
        start == checkSetCurStart(P, exps[BlockBefore], LoopCond(P, exps, ThisBlock)[1])
    IN  /\ Scanning
        /\ scan.at <= Len(ThisList)
        /\ IsCandidate
        /\ CASE simple = "stop" -> Refuse("address")
             [] simple = "yes" /\ exps[BlockBefore] = <<>> -> Refuse("nothing before")
             [] simple = "yes" /\ exps[BlockBefore] # <<>> ->
                  CASE start = "stop" -> Refuse("address")
                    [] start = "yes" -> TryMerge(CurPattern)
                    [] OTHER -> NotPattern(simple)
             [] OTHER -> NotPattern(simple)

NextList == /\ Scanning
            /\ scan.at > Len(ThisList)
            /\ todo' = Front(todo)
            /\ scan' = [scan EXCEPT !.at = 1]
            /\ UNCHANGED <<case, phase, P, hazards, meaning>>

MergeEnd == /\ phase = "merge lists"
            /\ todo = <<>>
            /\ phase' = "accumulate"
            /\ scan' = <<>>
            /\ UNCHANGED <<case, P, todo, hazards, meaning>>

-----------------------------------------------------------------------------
(* AccumulatePattern *)

RECURSIVE nestedLoop(_, _)
nestedLoop(p, b) ==
    \E l \in ToSet(ListsOf(p, b)) :
      /\ l[1] # "cond"
      /\ \E c \in ToSet(p.lists[l]) : \/ p.blk[c].kind = "while"
                                      \/ p.blk[c].kind = "if" /\ nestedLoop(p, c)

LoopsAmong(p, list) ==
    SelectSeq(list, LAMBDA b : p.blk[b].kind = "while" \/ (p.blk[b].kind = "if" /\ nestedLoop(p, b)))

\* The innermost loops, the last first.
RECURSIVE NotNestedWhiles(_, _)
NotNestedWhiles(p, stack) ==
    IF stack = <<>> THEN <<>>
    ELSE LET b == Last(stack)
             inner == FlattenSeq([n \in DOMAIN ListsOf(p, b) |->
                        IF ListsOf(p, b)[n][1] = "cond" THEN <<>>
                        ELSE LoopsAmong(p, p.lists[ListsOf(p, b)[n]])])
         IN  (IF p.blk[b].kind = "while" /\ inner = <<>> THEN <<b>> ELSE <<>>)
               \o NotNestedWhiles(p, Front(stack) \o inner)

\* The basic blocks of a body: first its own, then those of its branches, of
\* the last if first; and not their conditions.
RECURSIVE BranchBlocks(_, _)
BranchBlocks(p, ifs) ==
    IF ifs = <<>> THEN <<>>
    ELSE LET all == p.lists[<<"body", Last(ifs)>>] \o p.lists[<<"else", Last(ifs)>>]
         IN  SelectSeq(all, LAMBDA b : IsBasic(p, b))
               \o BranchBlocks(p, Front(ifs) \o SelectSeq(all, LAMBDA b : ~IsBasic(p, b)))

BasicBBs(p, w) == SelectSeq(Body(p, w), LAMBDA b : IsBasic(p, b))
                    \o BranchBlocks(p, SelectSeq(Body(p, w), LAMBDA b : ~IsBasic(p, b)))

StoresOf(p, exps, bbs) == FlattenSeq([n \in DOMAIN bbs |-> Stores(p, exps[bbs[n]])])

isSimpleIterPattern(p, exps, bbs, cond) ==
    IF cond = <<>> THEN "no" ELSE IterFrom(p, StoresOf(p, exps, bbs), cond[1], FALSE)

\* What is stored to, up to the block in which the pattern fails.
NewCurVar(p, exps, bbs, cond) ==
    {e.addr : e \in UNION {ToSet(Stores(p, exps[bbs[n]])) :
                n \in {m \in DOMAIN bbs : isSimpleIterPattern(p, exps, SubSeq(bbs, 1, m), cond) = "yes"}}}

RECURSIVE isInvariant(_, _, _)
isInvariant(p, v, curVar) ==
    IF ~IsIns(v) THEN TRUE
    ELSE v \notin curVar /\ \A n \in DOMAIN Inst(p, v).ops : isInvariant(p, Inst(p, v).ops[n], curVar)

\* An element whose indices do not move.
RECURSIVE FixedElement(_, _, _)
FixedElement(p, v, curVar) ==
    IF ~IsOp(p, "gep", v) THEN TRUE
    ELSE isInvariant(p, Inst(p, v).ops[2], curVar) /\ FixedElement(p, Inst(p, v).ops[1], curVar)

\* The first element that something is added to; what is stored after that
\* must add to it as well, or do without it.
hasSimpleAccuPattern(p, exps, bbs, curVar) ==
    FoldLeft(LAMBDA acc, e :
        LET same == isSameAddr(p, acc.addr, e.addr)
            plus == isAssignPlus(p, e)
            candidate == IsOp(p, "gep", e.addr) /\ FixedElement(p, e.addr, curVar)
        IN  CASE acc.answer # "yes" -> acc
              [] acc.answer = "yes" /\ acc.addr = Null ->
                   IF candidate THEN [answer |-> IF plus = "stop" THEN "stop" ELSE "yes",
                                      addr |-> IF plus = "yes" THEN e.addr ELSE Null]
                   ELSE acc
              [] OTHER -> [acc EXCEPT !.answer =
                             CASE same = "stop" -> "stop"
                               [] same = "yes" -> plus
                               [] OTHER -> All([n \in DOMAIN e.exp.sub |->
                                                  hasNot(p, e.exp.sub[n].exp, acc.addr)])],
      [answer |-> "yes", addr |-> Null], StoresOf(p, exps, bbs))

\* A block before or behind the loop, in whatever list the loop is.
ListOf(p, w) == CHOOSE l \in DOMAIN p.lists : l[1] # "cond" /\ w \in ToSet(p.lists[l])
NewBlockAt(p, w, behind) ==
    LET list == ListOf(p, w)
        n == SelectInSeq(p.lists[list], LAMBDA b : b = w) + (IF behind THEN 1 ELSE 0)
        new == Len(p.blk) + 1
    IN  [p EXCEPT !.blk = Append(@, [kind |-> "basic", code |-> <<>>, father |-> p.blk[w].father]),
                  !.lists[list] = InsertAt(@, n, new), !.cur = new]
getNewPreBasicBlock(p, w) == NewBlockAt(p, w, FALSE)
getNewPostBasicBlock(p, w) == NewBlockAt(p, w, TRUE)

\* A copy of what an address is computed from; tmp_val is the new address.
CopyOf(p, v) ==
    LET Renamed(ops, map) == [n \in DOMAIN ops |-> IF ops[n] \in DOMAIN map THEN map[ops[n]] ELSE ops[n]]
        all == FoldLeft(LAMBDA acc, i :
                 LET x == acc.p.ins[i]
                     new == Emit(acc.p, x.op, Renamed(x.ops, acc.map), x.ty)
                 IN  [p |-> new, map |-> With(acc.map, Ins(i), new.tmp_val)],
               [p |-> p, map |-> <<>>], getRelatedIns(p, v[2]))
    IN  [all.p EXCEPT !.tmp_val = all.map[v]]

\* a[i] = a[i] + ans
PostCode(p, addr, ans) ==
    LET addr1 == CopyOf(p, addr)
        addr2 == CopyOf(addr1, addr)
        val == Load(addr2, addr1.tmp_val)
        sum == Load(val, ans)
        res == Emit(sum, "add", <<val.tmp_val, sum.tmp_val>>, I32)
    IN  Emit(res, "store", <<res.tmp_val, addr2.tmp_val>>, VoidTy)

\* The element is ans in the loop, and nothing computes its address.
Replaced(p, b, addr, ans) ==
    LET these == {i \in ToSet(OpsIn(p, b, "gep")) : isSameAddr(p, Ins(i), addr) = "yes"}
        gone == UNION {ToSet(getRelatedIns(p, i)) : i \in these}
        New(v) == IF v \in {Ins(i) : i \in these} THEN ans ELSE v
        rest == SelectSeq(p.blk[b].code, LAMBDA i : i \notin gone)
    IN  [p EXCEPT !.blk[b].code = rest,
                  !.ins = [i \in DOMAIN @ |->
                             IF i \in ToSet(rest) THEN [@[i] EXCEPT !.ops = [n \in DOMAIN @ |-> New(@[n])]]
                             ELSE @[i]]]

moveAccuOut(p, w, bbs, addr) ==
    LET pre == Emit(getNewPreBasicBlock(p, w), "alloca", <<>>, Ptr(<<>>))
        ans == pre.tmp_val
        zero == Emit(pre, "store", <<Const(0), ans>>, VoidTy)
        post == PostCode(getNewPostBasicBlock(zero, w), addr, ans)
        geps == UNION {ToSet(OpsIn(p, b, "gep")) : b \in ToSet(bbs)}
    IN  IF \E i \in geps : isSameAddr(p, Ins(i), addr) = "stop" THEN Stop(p, "address")
        ELSE FoldLeft(LAMBDA q, b : Replaced(q, b, addr, ans), post, bbs)

\* What may see the element while the sum is kept apart.
AccuHazards(p, w, addr) ==
    LET all == BasicsIn(p, p.lists[<<"cond", w>>] \o Body(p, w))
        sums == ToSet(BasicBBs(p, w))
        uses == UNION {ToSet(p.blk[b].code) : b \in ToSet(all)}
        indices == {p.ins[i].ops[1] : i \in {j \in Needed(p, addr[2]) : p.ins[j].op = "load" /\ p.ins[j].ty = I32}}
        written == UNION {WrittenBy(p, b) : b \in ToSet(all)}
        other(v) == MayAlias(p, v, addr) /\ isSameAddr(p, v, addr) # "yes"
    IN  {h \in {"read", "written", "called", "left", "index"} :
           \/ h = "read" /\ \E b \in ToSet(all) : \/ \E v \in ReadBy(p, b) : other(v)
                                                  \/ b \in sums /\ ~OnlySums(p, b, addr)
                                                  \/ b \notin sums /\ \E v \in ReadBy(p, b) : Same(p, v, addr)
           \/ h = "written" /\ \E v \in written : other(v)
           \/ h = "called" /\ \E i \in uses : p.ins[i].op = "call" /\ p.ins[i].ops[1][2] \notin DOMAIN Runtime
           \/ h = "left" /\ \E i \in uses : p.ins[i].op = "ret"
           \/ h = "index" /\ \E v \in indices, x \in written : MayAlias(p, v, x)}

AccuStart ==
    LET exps == BBExps(P)
        top == FlattenSeq([n \in DOMAIN P.fns |-> LoopsAmong(P, P.lists[<<"fn", P.fns[n]>>])])
    IN  /\ phase = "accumulate"
        /\ phase' = IF runFailed(exps) THEN "simplify again" ELSE "accumulate loops"
        /\ todo' = NotNestedWhiles(P, top)
        /\ scan' = [exps |-> exps, curVar |-> {}]
        /\ UNCHANGED <<case, P, hazards, meaning>>

\* The next loop; after a sum was taken out, the same one again.
AccuLoop ==
    LET w == Head(todo)
        bbs == BasicBBs(P, w)
        cond == LoopCond(P, scan.exps, w)
        curVar == scan.curVar \cup NewCurVar(P, scan.exps, bbs, cond)
        simple == isSimpleIterPattern(P, scan.exps, bbs, cond)
        accu == IF simple = "yes" THEN hasSimpleAccuPattern(P, scan.exps, bbs, curVar)
                ELSE [answer |-> simple, addr |-> Null]
    IN  /\ phase = "accumulate loops"
        /\ todo # <<>>
        /\ \/ /\ accu.answer = "stop"
              /\ Refuse("address")
           \/ /\ accu.answer # "stop"
              /\ accu.answer = "yes" => accu.addr = Null
              /\ todo' = Tail(todo)
              /\ scan' = [scan EXCEPT !.curVar = curVar]
              /\ UNCHANGED <<case, phase, P, hazards, meaning>>
           \/ /\ accu.answer = "yes"
              /\ accu.addr # Null
              /\ Become(moveAccuOut(P, w, bbs, accu.addr), phase)
              /\ scan' = [exps |-> BBExps(P'), curVar |-> curVar]
              /\ hazards' = hazards \cup AccuHazards(P, w, accu.addr)
              /\ UNCHANGED todo

AccuEnd == /\ phase = "accumulate loops"
           /\ todo = <<>>
           /\ phase' = "simplify again"
           /\ UNCHANGED <<case, P, todo, scan, hazards, meaning>>

-----------------------------------------------------------------------------
Stopped == phase \in {"done", "stopped"} /\ UNCHANGED vars

Next == \/ BuildDeclDef
        \/ SimplifyCFG
        \/ MergeStart \/ PassOver \/ ScanLoop \/ NextList \/ MergeEnd
        \/ AccuStart \/ AccuLoop \/ AccuEnd
        \/ Stopped

Spec == Init /\ [][Next]_vars

-----------------------------------------------------------------------------
(* Properties *)

\* From the tree of blocks that SYSYCBuilder makes to the last of the passes
\* over it, a program does what its text means, unless a step took something
\* for granted that is not so.
MeaningKept == (phase \notin {"build", "stopped"} /\ hazards = {}) =>
                 Meaning(P, case.input) = meaning

\* An instruction is behind those it uses: a variable in an earlier block or
\* in its own, any other in its own block.  The block that LoopMerge takes
\* away with a loop may hold variables.
UsesFollowDefs ==
    (phase # "build" /\ "init block" \notin hazards) =>
      LET blocks == BasicBlocks(P)
          Before(n, k) == ToSet(SubSeq(P.blk[blocks[n]].code, 1, k - 1))
          Earlier(n) == UNION {ToSet(P.blk[blocks[m]].code) : m \in 1 .. n - 1}
      IN  \A n \in DOMAIN blocks : \A k \in DOMAIN P.blk[blocks[n]].code :
            \A v \in {x \in ToSet(P.ins[P.blk[blocks[n]].code[k]].ops) : IsIns(x)} :
               \/ v[2] \in Before(n, k)
               \/ IsOp(P, "alloca", v) /\ v[2] \in Earlier(n)

\* The compiler stops only where it is known to: at ! of a truth value; at the
\* value of a global variable or constant with a call, a ! or a variable in
\* it; and in the passes over loops, at a call in a value, a condition that
\* begins with a constant, an element beside a global variable, two loops to
\* be merged in a branch, and a loop with a block before it that does nothing.
RECURSIVE Within(_)
Within(e) == {e} \cup CASE e[1] = "num" -> {}
                        [] e[1] \in {"lval", "call"} -> UNION {Within(e[3][n]) : n \in DOMAIN e[3]}
                        [] OTHER -> UNION {Within(e[n]) : n \in 2 .. Len(e)}

GlobalValues(text) ==
    UNION {{d.init[2] : d \in {x \in ToSet(item[2]) : x.init[1] = "exp"}} :
             item \in {x \in ToSet(text) : x[1] = "decl"}}

KnownToStop(p, text) ==
    LET Uses(Q(_)) == \E i \in DOMAIN p.ins : Q(p.ins[i])
        notOfTruth(x) == x.op = "eq" /\ x.ops[2] = Const(0) /\ TypeOf(p, x.ops[1]) = I1
        callInValue(x) == x.op = "call" /\ x.ty = I32
        constFirst(x) == x.op = "lt" /\ IsConst(x.ops[1])
        element(x) == x.op = "gep"
        whiles == {b \in DOMAIN p.blk : p.blk[b].kind = "while"}
        branch(b) == IF p.blk[b].father = 0 THEN FALSE ELSE p.blk[p.blk[b].father].kind = "if"
        idle(b) == p.blk[b].kind = "basic" /\ analysisExps(p, b) = <<>>
    IN  {why \in {"compared", "not constant", "address", "nothing before", "in a branch"} :
           \/ why = "compared" /\ Uses(notOfTruth)
           \/ why = "not constant" /\ \E v \in GlobalValues(text) : \E e \in Within(v) : e[1] \in {"not", "call", "lval"}
           \/ why = "address" /\ (\/ Uses(callInValue) \/ Uses(constFirst)
                                  \/ Uses(element) /\ DOMAIN p.globals # {})
           \/ why = "nothing before" /\ \E l \in DOMAIN p.lists : \E n \in 2 .. Len(p.lists[l]) :
                                          p.lists[l][n] \in whiles /\ idle(p.lists[l][n - 1])
           \/ why = "in a branch" /\ Cardinality({b \in whiles : branch(b)}) > 1}

ComesThrough == P.fault # "" => P.fault \in KnownToStop(P, case.text)
=============================================================================
