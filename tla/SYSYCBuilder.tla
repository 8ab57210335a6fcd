----------------------------- MODULE SYSYCBuilder -----------------------------
(***************************************************************************)
(* From a SysY program to the high-level IR.  Every visit(node) of the     *)
(* builder is an operator from builder state to builder state: a program   *)
(* of HIR together with                                                    *)
(*   scopes, array_param   the names of each scope, the innermost last     *)
(*   cur                   the block instructions are added to             *)
(*   layer                 base_layer with BL_types: the lists that blocks *)
(*                         are added to, the innermost last                *)
(*   tmp_val, array_init, require_address                                  *)
(*   fault                 why the compiler stopped, or ""                 *)
(*   padded                whether a list of initial values was filled up  *)
(*                         in front of a list in it                        *)
(***************************************************************************)
EXTENDS SysY

Builder ==
    [NoProgram EXCEPT !.sig = Runtime] @@
    [scopes |-> <<[f \in DOMAIN Runtime |-> Fn(f)]>>, array_param |-> << <<>> >>, cur |-> 0,
     layer |-> <<>>, tmp_val |-> Null, array_init |-> <<>>, require_address |-> FALSE,
     fault |-> "", padded |-> FALSE]

Stop(b, why) == [b EXCEPT !.fault = IF @ = "" THEN why ELSE @]

Emit(b, op, ops, ty) ==
    LET i == Len(b.ins) + 1
    IN  [b EXCEPT !.ins = Append(@, [op |-> op, ops |-> ops, ty |-> ty, at |-> b.cur, init |-> FALSE]),
                  !.blk[b.cur].code = Append(@, i), !.tmp_val = Ins(i)]

NewBlock(b, kind) ==
    LET n == Len(b.blk) + 1
        list == Last(b.layer)
        with == [b EXCEPT !.blk = Append(@, [kind |-> kind, code |-> <<>>,
                                             father |-> IF list[1] = "fn" THEN 0 ELSE list[2]]),
                          !.lists[list] = Append(@, n)]
    IN  IF kind = "basic" THEN [with EXCEPT !.cur = n]
        ELSE [with EXCEPT !.lists = [l \in ToSet(ListsOf(with, n)) |-> <<>>] @@ @]

Into(b, list) == [b EXCEPT !.layer = Append(@, list)]
OutOf(b) == [b EXCEPT !.layer = Front(@)]

-----------------------------------------------------------------------------
(* Scope *)

in_global(b) == Len(b.scopes) = 1
Enter(b) == [b EXCEPT !.scopes = Append(@, <<>>), !.array_param = Append(@, <<>>)]
Exit(b) == [b EXCEPT !.scopes = Front(@), !.array_param = Front(@)]

\* A name that is in the scope keeps its value.
Push(b, x, v) == [b EXCEPT !.scopes[Len(b.scopes)] = @ @@ (x :> v)]
PushParams(b, x, vs) == [b EXCEPT !.array_param[Len(b.array_param)] = @ @@ (x :> vs)]

FindIn(scopes, x) ==
    LET n == CHOOSE k \in DOMAIN scopes : x \in DOMAIN scopes[k]
                                          /\ \A j \in k + 1 .. Len(scopes) : x \notin DOMAIN scopes[j]
    IN  scopes[n][x]

-----------------------------------------------------------------------------
(* Expressions that must be constants: computed at once, with use_int *)

\* Neither a call nor ! may stand in one, and what is not a constant is
\* taken for one.
RECURSIVE IsConstExp(_, _)
IsConstExp(b, e) ==
    CASE e[1] = "num" -> TRUE
      [] e[1] = "lval" -> e[3] = <<>> /\ IsConst(FindIn(b.scopes, e[2]))
      [] e[1] = "neg" -> IsConstExp(b, e[2])
      [] e[1] \in {"not", "call"} -> FALSE
      [] OTHER -> IsConstExp(b, e[2]) /\ IsConstExp(b, e[3])

RECURSIVE ConstValue(_, _)
ConstValue(b, e) ==
    CASE e[1] = "num" -> e[2]
      [] e[1] = "lval" -> FindIn(b.scopes, e[2])[2]
      [] e[1] = "neg" -> 0 - ConstValue(b, e[2])
      [] OTHER -> Computed(e[1], ConstValue(b, e[2]), ConstValue(b, e[3]))

ConstExp(b, e) == IF IsConstExp(b, e) THEN [b EXCEPT !.tmp_val = Const(ConstValue(b, e))]
                  ELSE [Stop(b, "not constant") EXCEPT !.tmp_val = Const(0)]

-----------------------------------------------------------------------------
(* Expressions *)

RECURSIVE Visit(_, _)

GEP(b, ptr, index) ==
    LET dims == TypeOf(b, ptr)[2]
    IN  Emit(b, "gep", <<ptr, index>>, Ptr(IF dims = <<>> THEN <<>> ELSE Tail(dims)))

Load(b, ptr) == Emit(b, "load", <<ptr>>, IF TypeOf(b, ptr) = PtrPtr THEN Ptr(<<>>) ELSE I32)

\* A parameter is a pointer to its first word: an index is multiplied by the
\* dimensions after it.
ParamIndex(b, params, n) ==
    FoldLeft(LAMBDA c, j : Emit(c, "mul", <<c.tmp_val, params[j]>>, I32),
             b, [k \in 1 .. Len(params) - n |-> n + k])

LVal(b, e) ==
    LET var == FindIn(b.scopes, e[2])
        array == TypeOf(b, var) # PtrPtr
        start == IF array THEN [b EXCEPT !.tmp_val = var] ELSE Load(b, var)
        params == FindIn(b.array_param, e[2])
        index(c, n) == LET i == Visit(c, e[3][n])
                       IN  IF array THEN i ELSE ParamIndex(i, params, n)
    IN  CASE TypeOf(b, var) \in {I32, Ptr(<<>>)} /\ e[3] = <<>> -> [b EXCEPT !.tmp_val = var]
          [] array /\ TypeOf(b, var)[2] # <<>> /\ e[3] = <<>> -> GEP(b, var, Const(0))
          [] OTHER -> FoldLeft(LAMBDA c, n : LET i == index(c, n) IN GEP(i, c.tmp_val, i.tmp_val),
                               start, [n \in DOMAIN e[3] |-> n])

\* Where an address is required an array becomes the address of its first word.
PrimaryExp(b, e) ==
    LET v == LVal([b EXCEPT !.require_address = FALSE], e)
        ty == TypeOf(v, v.tmp_val)
    IN  CASE e[1] = "num" -> [b EXCEPT !.tmp_val = Const(e[2])]
          [] e[1] = "lval" /\ b.require_address ->
               FoldLeft(LAMBDA c, d : GEP(c, c.tmp_val, Const(0)), v, ty[2])
          [] e[1] = "lval" /\ ~b.require_address -> IF ty = I32 THEN v ELSE Load(v, v.tmp_val)

Callee(b, e) ==
    LET types == b.sig[e[2]].args
        all == FoldLeft(LAMBDA acc, n :
                          LET c == Visit([acc.b EXCEPT !.require_address = types[n] # I32], e[3][n])
                          IN  [b |-> [c EXCEPT !.require_address = FALSE],
                               args |-> Append(acc.args, c.tmp_val)],
                        [b |-> b, args |-> <<>>], [n \in DOMAIN e[3] |-> n])
    IN  Emit(all.b, "call", <<Fn(e[2])>> \o all.args, b.sig[e[2]].ret)

\* CmpInst::assertValid: both sides must have as many bits.
Cmp(b, op, v, w) ==
    IF TypeOf(b, v) = TypeOf(b, w) THEN Emit(b, op, <<v, w>>, I1)
    ELSE Stop(Emit(b, op, <<v, w>>, I1), "compared")

UnaryExp(b, e) ==
    LET c == Visit(b, e[2])
    IN  CASE e[1] = "neg" -> Emit(c, "sub", <<Const(0), c.tmp_val>>, I32)
          [] e[1] = "not" -> Cmp(c, "eq", c.tmp_val, Const(0))
          [] e[1] = "call" -> Callee(b, e)
          [] OTHER -> PrimaryExp(b, e)

\* Slip: a truth value is left as it is.
ZextSlip(b, v) == [b EXCEPT !.tmp_val = v]

Zext(b, v) == IF TypeOf(b, v) = I1 THEN Emit(b, "zext", <<v>>, I32) ELSE [b EXCEPT !.tmp_val = v]

\* Both operands, the left one first, and both as integers.
Both(b, l, r) ==
    LET left == Zext(r, l.tmp_val)
        right == Zext(left, r.tmp_val)
    IN  [b |-> right, ops |-> <<left.tmp_val, right.tmp_val>>]

Operands(b, e) == LET l == Visit(b, e[2]) IN Both(b, l, Visit(l, e[3]))

MulExp(b, e) == LET o == Operands(b, e) IN Emit(o.b, e[1], o.ops, I32)
AddExp(b, e) == LET o == Operands(b, e) IN Emit(o.b, e[1], o.ops, I32)
RelExp(b, e) == LET o == Operands(b, e) IN Cmp(o.b, e[1], o.ops[1], o.ops[2])
EqExp(b, e) == LET o == Operands(b, e) IN Cmp(o.b, e[1], o.ops[1], o.ops[2])

\* Both sides are always computed, and an integer is taken as it is.
LAndExp(b, e) == LET o == Operands(b, e) IN Emit(o.b, "and", o.ops, I32)

\* A condition is a value of one bit.
AsBool(b) == IF TypeOf(b, b.tmp_val) = I32 THEN Cmp(b, "ne", b.tmp_val, Const(0)) ELSE b

LOrExp(b, e) ==
    LET l == AsBool(Visit(b, e[2]))
        o == Both(b, l, Visit(l, e[3]))
    IN  AsBool(Emit(o.b, "or", o.ops, I32))

Cond(b, e) == AsBool(Visit(b, e))

-----------------------------------------------------------------------------
(* Definitions *)

Zeros(n) == IF n <= 0 THEN <<>> ELSE [k \in 1 .. n |-> Const(0)]

\* What gives an element its value: at once, where it must be a constant.
InitLeaf(b, e, const) == IF const \/ in_global(b) THEN ConstExp(b, e) ELSE Visit(b, e)

\* A list within a list begins at the next part of the whole length of one of
\* its lists.
RECURSIVE InitVal(_, _, _, _)
InitVal(b, inits, bounds, const) ==
    LET d_length == Words(Tail(bounds))
        all == FoldLeft(LAMBDA acc, x :
                 LET pos == Len(acc.list)
                     leaf == InitLeaf(acc.b, x[2], const)
                     part == InitVal(acc.b, x[2], Tail(bounds), const)
                     gap == (d_length - (pos % d_length)) % d_length
                 IN  IF x[1] = "exp" THEN [b |-> leaf, list |-> Append(acc.list, leaf.tmp_val)]
                     ELSE [b |-> [part EXCEPT !.padded = @ \/ gap > 0],
                           list |-> acc.list \o Zeros(gap) \o part.array_init],
                 [b |-> b, list |-> <<>>], inits)
    IN  [all.b EXCEPT !.array_init = all.list \o Zeros(Words(bounds) - Len(all.list))]

ArrayBounds(b, dims) == [n \in DOMAIN dims |-> ConstValue(b, dims[n])]
BoundsFault(b, dims) == FoldLeft(LAMBDA c, e : ConstExp(c, e), b, dims)

\* Every value but a constant 0 is stored, each at its own address.
StoreInits(b, array, bounds) ==
    LET first == FoldLeft(LAMBDA c, n : GEP(c, c.tmp_val, Const(0)),
                          [b EXCEPT !.tmp_val = array], bounds)
    IN  FoldLeft(LAMBDA c, n :
                   LET v == b.array_init[n]
                       p == IF n = 1 THEN [c EXCEPT !.tmp_val = first.tmp_val]
                            ELSE GEP(c, first.tmp_val, Const(n - 1))
                   IN  IF v = Const(0) THEN c ELSE Emit(p, "store", <<v, p.tmp_val>>, VoidTy),
                 first, [n \in DOMAIN b.array_init |-> n])

GlobalVariable(b, d, bounds, init) ==
    Push([b EXCEPT !.globals = With(@, d.id, [dims |-> bounds, init |-> [n \in DOMAIN init |-> init[n][2]]])],
         d.id, Global(d.id))

ArrayDefinition(b, d) ==
    LET bounds == ArrayBounds(b, d.dims)
        alloca == Emit(b, "alloca", <<>>, Ptr(bounds))
        array == alloca.tmp_val
        pushed == Push(alloca, d.id, array)
        inits(c) == InitVal(c, d.init[2], bounds, d.const)
    IN  CASE BoundsFault(b, d.dims).fault # "" -> BoundsFault(b, d.dims)
          [] in_global(b) /\ d.init = NoInit -> GlobalVariable(b, d, bounds, Zeros(Words(bounds)))
          [] in_global(b) /\ d.init # NoInit -> GlobalVariable(inits(b), d, bounds, inits(b).array_init)
          [] ~in_global(b) /\ d.init = NoInit -> pushed
          [] OTHER -> StoreInits(inits([pushed EXCEPT !.ins[array[2]].init = TRUE]), array, bounds)

\* A constant that is no array has no place: its name stands for its value.
ConstDef(b, d) ==
    IF d.dims # <<>> THEN ArrayDefinition(b, d)
    ELSE LET c == ConstExp(b, d.init[2]) IN Push(c, d.id, c.tmp_val)

VarDef(b, d) ==
    LET alloca == Emit(b, "alloca", <<>>, Ptr(<<>>))
        pushed == Push(alloca, d.id, alloca.tmp_val)
        value == Visit(pushed, d.init[2])
    IN  CASE d.dims # <<>> -> ArrayDefinition(b, d)
          [] d.dims = <<>> /\ in_global(b) ->
               IF d.init = NoInit THEN GlobalVariable(b, d, <<>>, Zeros(1))
               ELSE LET c == ConstExp(b, d.init[2]) IN GlobalVariable(c, d, <<>>, <<c.tmp_val>>)
          [] OTHER -> IF d.init = NoInit THEN pushed
                      ELSE Emit(value, "store", <<value.tmp_val, alloca.tmp_val>>, VoidTy)

Decl(b, defs) == FoldLeft(LAMBDA c, d : IF d.const THEN ConstDef(c, d) ELSE VarDef(c, d), b, defs)

-----------------------------------------------------------------------------
(* Statements *)

AssignStmt(b, s) ==
    LET lval == LVal(b, s[2])
        rval == Visit(lval, s[3])
    IN  Emit(rval, "store", <<rval.tmp_val, lval.tmp_val>>, VoidTy)

ReturnStmt(b, s) == IF s[1] = "ret void" THEN Emit(b, "ret", <<>>, VoidTy)
                    ELSE LET v == Visit(b, s[2]) IN Emit(v, "ret", <<v.tmp_val>>, VoidTy)

Simple == {"assign", "break", "continue", "exp", "ret", "ret void"}

\* Under an if or a while, a simple statement gets a block of its own.
SubStmt(b, s, list) ==
    LET in == Into(b, list)
    IN  OutOf(Visit(IF s[1] \in Simple THEN NewBlock(in, "basic") ELSE in, s))

SelectStmt(b, s) ==
    LET if == NewBlock(b, "if")
        n == Len(if.blk)
        cond == OutOf(Cond(NewBlock(Into(if, <<"cond", n>>), "basic"), s[2]))
    IN  SubStmt(SubStmt(cond, s[3], <<"body", n>>), s[4], <<"else", n>>)

IterationStmt(b, s) ==
    LET while == NewBlock(b, "while")
        n == Len(while.blk)
        cond == OutOf(Cond(NewBlock(Into(while, <<"cond", n>>), "basic"), s[2]))
    IN  SubStmt(cond, s[3], <<"body", n>>)

\* A definition begins a block.  So does a simple statement within another
\* statement; at the top it goes on in the block before, if that is at the
\* top too.
BlockItem(b, item) ==
    LET top == Last(b.layer)[1] = "fn"
        joins == top /\ b.blk[b.cur].father = 0
    IN  CASE item[1] = "decl" -> Decl(NewBlock(b, "basic"), item[2])
          [] item[1] \in Simple -> Visit(IF joins THEN b ELSE NewBlock(b, "basic"), item)
          [] OTHER -> Visit(b, item)

Block(b, items) == FoldLeft(LAMBDA c, item : IF c.fault # "" THEN c ELSE BlockItem(c, item), b, items)

\* The dimensions of a parameter after the first, preceded by a 0.
Params(b, p) == FoldLeft(LAMBDA acc, e : LET c == Visit(acc.b, e)
                                         IN  [b |-> c, dims |-> Append(acc.dims, c.tmp_val)],
                         [b |-> b, dims |-> <<Const(0)>>], p.dims)

FuncFParam(b, p, n) ==
    LET ty == IF p.array THEN Ptr(<<>>) ELSE I32
        alloca == Emit(b, "alloca", <<>>, IF p.array THEN PtrPtr ELSE Ptr(<<>>))
        stored == Emit(alloca, "store", <<Arg(n, ty), alloca.tmp_val>>, VoidTy)
        params == Params(stored, p)
    IN  IF p.array THEN PushParams(Push(params.b, p.id, alloca.tmp_val), p.id, params.dims)
        ELSE Push(stored, p.id, alloca.tmp_val)

FuncDef(b, f) ==
    LET types == [n \in DOMAIN f[4] |-> IF f[4][n].array THEN Ptr(<<>>) ELSE I32]
        known == Push([b EXCEPT !.fns = Append(@, f[2]),
                                !.sig = With(@, f[2], [args |-> types, ret |-> f[3]]),
                                !.lists = With(@, <<"fn", f[2]>>, <<>>), !.layer = << <<"fn", f[2]>> >>],
                      f[2], Fn(f[2]))
        entry == NewBlock(Enter(known), "basic")
        params == FoldLeft(LAMBDA c, n : FuncFParam(c, f[4][n], n), entry, [n \in DOMAIN f[4] |-> n])
    IN  [Exit(Block(params, f[5])) EXCEPT !.layer = <<>>]

-----------------------------------------------------------------------------
(* Node by node *)

Visit(b, e) ==
    CASE e[1] = "func" -> FuncDef(b, e)
      [] e[1] = "decl" -> Decl(b, e[2])
      [] e[1] = "assign" -> AssignStmt(b, e)
      [] e[1] = "exp" -> Visit(b, e[2])
      [] e[1] \in {"ret", "ret void"} -> ReturnStmt(b, e)
      [] e[1] \in {"break", "continue"} -> Emit(b, e[1], <<>>, VoidTy)
      [] e[1] = "if" -> SelectStmt(b, e)
      [] e[1] = "while" -> IterationStmt(b, e)
      [] e[1] = "block" -> Exit(Block(Enter(b), e[2]))
      [] e[1] = "none" -> b
      [] e[1] \in {"mul", "div", "rem"} -> MulExp(b, e)
      [] e[1] \in {"add", "sub"} -> AddExp(b, e)
      [] e[1] \in {"lt", "le", "gt", "ge"} -> RelExp(b, e)
      [] e[1] \in {"eq", "ne"} -> EqExp(b, e)
      [] e[1] = "and" -> LAndExp(b, e)
      [] e[1] = "or" -> LOrExp(b, e)
      [] OTHER -> UnaryExp(b, e)
=============================================================================
