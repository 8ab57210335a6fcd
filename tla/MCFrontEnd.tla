----------------------------- MODULE MCFrontEnd -----------------------------
(* Finite instances of FrontEnd: small programs. *)
EXTENDS FrontEnd

Plus(a, b) == <<"add", a, b>>
Lt(a, b) == <<"lt", a, b>>
Asg(l, e) == <<"assign", l, e>>
AddTo(l, e) == Asg(l, Plus(l, e))
Inc(x) == AddTo(Var(x), Num(1))
Blk(items) == <<"block", items>>
While(c, items) == <<"while", c, Blk(items)>>
If(c, items) == <<"if", c, Blk(items), <<"none">> >>
IfElse(c, s, t) == <<"if", c, s, t>>
Put(e) == <<"exp", CallOf("putint", <<e>>)>>
Get == CallOf("getint", <<>>)
Return(e) == <<"ret", e>>
Decls(defs) == <<"decl", defs>>
IntVar(x, n) == IntDef(x, InitExp(Num(n)))
Ints(ns) == <<"list", [k \in DOMAIN ns |-> InitExp(Num(ns[k]))]>>
Array(x, ns) == ArrayDef(x, <<Num(Len(ns))>>, Ints(ns))
Elem2(x, e, f) == <<"lval", x, <<e, f>>>>
Func(f, ret, params, items) == <<"func", f, ret, params, items>>
Scalar(x) == [id |-> x, array |-> FALSE, dims |-> <<>>]
ArrayOf(x, dims) == [id |-> x, array |-> TRUE, dims |-> dims]
Main(items) == Func("main", I32, <<>>, items)
Given(text, input) == [text |-> text, input |-> input]

x == Var("x")
y == Var("y")
i == Var("i")
j == Var("j")
n == Var("n")
s == Var("s")
t == Var("t")
a(e) == Elem("a", e)
b(e) == Elem("b", e)

-----------------------------------------------------------------------------
(* Conditions, in an if and in a while that is left in several ways *)

Conditions ==
    {x, Num(1), <<"not", x>>, <<"neg", x>>, Lt(x, y), <<"ge", x, y>>, <<"eq", x, Num(2)>>,
     <<"and", x, y>>, <<"and", Lt(x, Num(2)), <<"ne", y, Num(0)>> >>, <<"or", x, y>>,
     <<"or", <<"not", x>>, Lt(y, x)>>, <<"or", <<"and", Lt(x, y), <<"le", y, Num(2)>> >>, <<"gt", x, Num(1)>> >>,
     <<"and", <<"not", x>>, <<"eq", Get, Num(7)>> >>, <<"or", x, Get>>, <<"not", <<"not", x>> >>,
     <<"eq", Lt(x, y), Num(1)>>, Lt(Num(0), x), <<"not", Lt(x, y)>>}

AfterIf == {Put(x), While(Lt(y, Num(3)), <<Inc("y")>>)}

ConditionText(c, last) ==
    <<Main(<<Decls(<<IntDef("x", InitExp(Get)), IntDef("y", InitExp(Get))>>),
             IfElse(c, Put(Num(1)), Blk(<<Put(Num(2)), Decls(<<IntVar("x", 9)>>), Inc("x"), Put(x)>>)),
             last,
             While(c, <<Asg(x, <<"sub", x, Num(1)>>), Inc("y"),
                        If(Lt(Num(4), y), <<(<<"break">>)>>),
                        If(<<"eq", y, Num(3)>>, <<(<<"continue">>)>>),
                        Put(y)>>),
             Put(Get), Return(Plus(x, y))>>)>>

ConditionCases ==
    {Given(ConditionText(c, l), in) : c \in Conditions, l \in AfterIf, in \in {<<0, 0, 7>>, <<2, 1, 5>>, <<1, 2>>}}

-----------------------------------------------------------------------------
(* Lists of initial values, constants, scopes and parameters *)

L(items) == <<"list", items>>
V(k) == InitExp(Num(k))
TwoByTwo == {L(<<>>), L(<<V(1), V(2), V(3)>>), L(<<L(<<V(1)>>), L(<<V(2), V(3)>>)>>),
             L(<<L(<<V(1)>>), V(2), V(3)>>), L(<<V(1), L(<<V(2)>>)>>)}
TwoByTwoByTwo == {L(<<V(1), V(2), L(<<V(3)>>), L(<<L(<<V(4)>>)>>)>>),
                  L(<<L(<<V(1), V(2), L(<<V(3)>>)>>), V(4), V(5), V(6)>>),
                  L(<<L(<<L(<<V(1)>>), V(2)>>), L(<<V(3)>>)>>)}
Wheres == {"global", "local", "const"}

PutAll(dims) == IF Len(dims) = 2
                THEN [k \in 1 .. 4 |-> Put(Elem2("m", Num((k - 1) \div 2), Num((k - 1) % 2)))]
                ELSE [k \in 1 .. 8 |-> Put(<<"lval", "m", <<Num((k - 1) \div 4), Num(((k - 1) \div 2) % 2),
                                                         Num((k - 1) % 2)>> >>)]

InitText(init, dims, where) ==
    LET def == Decls(<<[ArrayDef("m", dims, init) EXCEPT !.const = where = "const"]>>)
        body == PutAll(dims) \o <<Return(Num(0))>>
    IN  IF where = "local" THEN <<Main(<<def>> \o body)>> ELSE <<def, Main(body)>>

InitCases ==
    {Given(InitText(l, <<Num(2), Num(2)>>, w), <<>>) : l \in TwoByTwo, w \in Wheres}
      \cup {Given(InitText(l, <<Num(2), Num(2), Num(2)>>, w), <<>>) : l \in TwoByTwoByTwo, w \in Wheres}

\* A function with a row of a matrix, or all of it; its parameter is shadowed.
Passed == {<<"lval", "m", <<Num(1)>> >>, Var("m")}
Sum2 == Func("sum", I32, <<ArrayOf("p", <<>>), Scalar("k")>>,
             <<Decls(<<IntVar("r", 0)>>),
               While(Lt(Num(0), Var("k")),
                     <<Asg(Var("k"), <<"sub", Var("k"), Num(1)>>), AddTo(Var("r"), Elem("p", Var("k")))>>),
               Return(Var("r"))>>)
Change == Func("change", VoidTy, <<ArrayOf("q", <<Var("N")>>), Scalar("k")>>,
               <<Blk(<<Decls(<<IntDef("k", InitExp(Num(5)))>>), Asg(Elem2("q", Num(0), Num(1)), Var("k"))>>),
                 Asg(Elem2("q", Num(1), Var("k")), <<"mul", Plus(Var("k"), Num(2)), Var("N")>>),
                 If(Var("k"), <<(<<"exp", CallOf("change", <<Var("q"), Num(0)>>)>>)>>),
                 <<"ret void">> >>)
Sizes == Decls(<<ConstOf(IntDef("N", InitExp(Plus(Num(1), Num(1)))))>>)
Matrix == ArrayDef("m", <<Var("N"), <<"div", Num(5), Var("N")>> >>, Ints(<<1, 2, 3>>))

PassText(arg, global) ==
    <<Sizes>> \o (IF global THEN <<Decls(<<Matrix, IntVar("g", -1)>>)>> ELSE <<>>) \o
    <<Sum2, Change,
      Main((IF global THEN <<>> ELSE <<Decls(<<Matrix>>), Decls(<<IntVar("g", 2)>>)>>) \o
           <<Put(CallOf("sum", <<arg, Num(2)>>)),
             <<"exp", CallOf("change", <<Var("m"), Num(1)>>)>>,
             <<"exp", CallOf("sum", <<arg, Num(1)>>)>>,
             Return(<<"rem", CallOf("sum", <<Var("m"), Num(4)>>), Plus(Var("g"), Num(5))>>)>>)>>

NotConstants == {<<"not", Num(0)>>, CallOf("getint", <<>>), Var("g")}

PassCases == {Given(PassText(arg, g), <<>>) : arg \in Passed, g \in BOOLEAN}
               \cup {Given(<<Decls(<<IntVar("g", 3)>>), Decls(<<IntDef("h", InitExp(e))>>),
                            Main(<<Return(Var("h"))>>)>>, <<>>) : e \in NotConstants}

-----------------------------------------------------------------------------
(* Loops one after the other *)

Sums == {AddTo(a(i), Num(2)), AddTo(a(i), b(i)), AddTo(b(i), a(i)), AddTo(s, a(i)), AddTo(s, t),
         AddTo(t, s), AddTo(a(Num(1)), b(i)), Asg(a(i), <<"sub", Plus(b(i), a(i)), s>>),
         AddTo(a(Plus(i, Num(1))), Num(3))}
Others == {Asg(b(i), a(i)), AddTo(a(i), CallOf("getint", <<>>)), Put(s), Asg(a(i), Plus(Num(1), Num(1)))}

Bodies == {<<f, Inc("i")>> : f \in Sums} \cup {<<Inc("i"), f>> : f \in {AddTo(s, b(i)), AddTo(a(i), Num(1))}}
MoreBodies == {<<f, Inc("i")>> : f \in Others}
                \cup {<<AddTo(s, Num(3)), AddTo(a(i), s), Inc("i")>>, <<AddTo(s, t), AddTo(b(i), a(i)), Inc("i")>>}

LocalVars == <<Decls(<<IntDef("i", NoInit), IntVar("n", 3), IntVar("s", 1), IntVar("t", 2)>>),
               Decls(<<Array("a", <<1, 2, 3, 4>>), Array("b", <<5, 6, 7, 8>>)>>)>>
Shown == <<Put(a(Num(0))), Put(a(Num(1))), Put(a(Num(2))), Put(a(Num(3))),
           Put(b(Num(1))), Put(b(Num(2))), Put(b(Num(3))), Put(s), Put(t), Return(i)>>

Start(k) == <<Asg(i, Num(k))>>
Loop3(body) == <<While(Lt(i, n), body)>>

MergeText(between, one, two, ends) ==
    <<Main(LocalVars \o Start(0) \o <<While(Lt(i, ends[1]), one)>> \o between
             \o <<While(Lt(i, ends[2]), two)>> \o Shown)>>

Starts == {Start(0), Start(1), <<Asg(s, Num(0)), Asg(i, Num(0))>>, <<Decls(<<IntVar("z", 7)>>), Asg(i, Num(0))>>,
           <<Decls(<<IntDef("z", NoInit)>>), Asg(i, Num(0))>>, <<(<<"exp", Get>>), Asg(i, Num(0))>>,
           <<Put(t), Asg(i, t)>>, <<>>, <<(<<"exp", Get>>)>>, <<Asg(i, <<"neg", Num(1)>>)>>}
Ends == {<<n, n>>, <<n, Num(3)>>, <<Num(3), Num(3)>>, <<n, t>>, <<a(Num(2)), a(Num(2))>>}

MergeCases ==
    {Given(MergeText(Start(0), one, two, <<n, n>>), <<4>>) : one \in Bodies \cup MoreBodies, two \in Bodies}
      \cup {Given(MergeText(st, <<AddTo(b(i), s), Inc("i")>>, two, e), <<4>>) :
              st \in Starts, e \in Ends, two \in {<<AddTo(t, b(i)), Inc("i")>>, <<AddTo(a(i), t), Inc("i")>>}}

\* The same with global variables, within a branch or another loop, with
\* another loop behind them, with conditions that are no patterns.
Pair == Loop3(<<AddTo(a(i), Num(1)), Inc("i")>>) \o Start(0) \o Loop3(<<AddTo(b(i), s), Inc("i")>>)
Third == Start(0) \o Loop3(<<AddTo(t, s), Inc("i")>>)
GlobalVars == <<Decls(<<IntVar("n", 3), IntVar("s", 1), IntVar("t", 2)>>), Decls(<<Array("a", <<1, 2, 3, 4>>), Array("b", <<5, 6, 7, 8>>)>>)>>
Places == { Start(0) \o Pair, Start(0) \o Pair \o Third, Start(0) \o Pair \o Third \o <<Put(i)>> \o Third,
            <<If(Lt(s, t), Start(0) \o Pair)>>,
            <<If(Lt(s, t), Start(0) \o Loop3(<<Inc("i")>>))>> \o Start(0) \o Pair,
            <<Decls(<<IntVar("k", 0)>>), While(Lt(Var("k"), Num(2)), Start(0) \o Pair \o <<Inc("k")>>)>>,
            Start(0) \o Loop3(<<AddTo(a(i), Num(1)), Inc("i")>>) \o <<Decls(<<IntDef("z", NoInit)>>)>> \o Start(0)
              \o Loop3(<<AddTo(b(i), s), Inc("i")>>) \o <<Asg(Var("z"), i), Put(Var("z"))>>,
            Pair, <<While(Lt(Num(0), s), <<Asg(s, <<"sub", s, Num(1)>>)>>)>> \o Start(0) \o Pair,
            Start(0) \o <<While(<<"and", Lt(i, n), Lt(i, Num(2))>>, <<Inc("i")>>)>> \o Start(0) \o Pair,
            <<Asg(i, <<"not", s>>), Put(i)>> \o Start(0) \o Pair,
            <<Asg(i, <<"not", s>>)>> \o Start(0) \o Pair,
            Start(0) \o <<While(Lt(a(i), Num(4)), <<Inc("i")>>)>> \o Start(0) \o Pair,
            Start(0) \o <<While(Lt(i, n), <<Asg(i, Plus(Num(2), i))>>)>> \o Start(0) \o Pair,
            Start(0) \o <<While(Lt(i, n), <<Asg(i, Plus(Num(1), i)), Inc("i")>>)>> \o Start(0) \o Pair }

PlaceCases ==
    {Given(<<Main(LocalVars \o p \o Shown)>>, <<>>) : p \in Places}
      \cup {Given(GlobalVars \o <<Main(<<Decls(<<IntVar("i", 0)>>)>> \o p \o Shown)>>, <<>>) : p \in Places}

-----------------------------------------------------------------------------
(* Sums in a place of their own *)

SumBodies ==
    {AddTo(a(i), b(j)), AddTo(a(i), a(j)), AddTo(a(Num(0)), Num(2)), AddTo(b(i), a(i)), AddTo(s, a(i)),
     Asg(a(i), Num(0)), AddTo(a(t), Num(1)), AddTo(Elem("a", Plus(i, Num(1))), b(j)), AddTo(a(j), b(i)),
     If(Lt(j, Num(1)), <<AddTo(a(i), b(j))>>), If(Lt(a(i), Num(3)), <<AddTo(a(i), Num(5))>>),
     If(Lt(Num(1), j), <<(<<"break">>)>>), If(Lt(Num(1), j), <<Return(a(i))>>), Inc("t"),
     Asg(t, a(i)), AddTo(Elem2("m", i, Num(1)), b(j)), AddTo(Elem2("m", i, Num(1)), Elem2("m", Num(0), j)),
     AddTo(Elem("a", Elem2("m", Num(0), Num(0))), b(j)), AddTo(Elem2("m", Num(0), Num(0)), Num(1)),
     <<"exp", CallOf("show", <<>>)>>, Asg(b(j), <<"mul", b(j), a(i)>>), Asg(a(i), <<"sub", Plus(b(j), a(i)), Num(1)>>)}

OtherBodies == {AddTo(a(i), b(j)), AddTo(a(Num(0)), Num(2)), AddTo(s, a(i)), Asg(a(i), Num(0)),
                Inc("t"), Asg(t, a(i)), AddTo(Elem2("m", i, Num(1)), b(j)),
                AddTo(Elem2("m", Num(0), Num(0)), Num(1)), AddTo(Elem("c", Num(0)), Num(2)),
                Asg(b(j), <<"mul", b(j), a(i)>>)}

SumLoop(stmts) ==
    <<While(Lt(i, Num(2)), <<Asg(j, Num(0)), While(Lt(j, n), stmts \o <<Inc("j")>>), Inc("i")>>)>>

Show == Func("show", VoidTy, <<>>, <<Put(Elem("c", Num(0))), <<"ret void">> >>)
SumVars == <<Decls(<<IntVar("i", 0), IntVar("j", 0), IntVar("n", 3), IntVar("s", 1), IntVar("t", 1)>>),
             Decls(<<Array("a", <<1, 2, 3, 4>>), Array("b", <<5, 6, 7, 8>>)>>),
             Decls(<<ArrayDef("m", <<Num(2), Num(3)>>, Ints(<<1, 1, 2, 3, 5, 8>>))>>)>>
SumShown == <<Put(Elem2("m", Num(0), Num(1))), Put(Elem2("m", Num(1), Num(1)))>> \o Shown

SumCases ==
    {Given(<<Decls(<<Array("c", <<3>>)>>), Show, Main(SumVars \o SumLoop(<<one, two>>) \o SumShown)>>, <<>>) :
       one \in SumBodies, two \in OtherBodies}

\* The arrays are parameters, perhaps of one array.
ParamSum(stmts) ==
    Func("f", VoidTy, <<Scalar("n"), ArrayOf("a", <<>>), ArrayOf("b", <<>>)>>,
         <<Decls(<<IntVar("i", 0), IntVar("j", 0), IntVar("t", 1)>>)>> \o SumLoop(stmts) \o <<(<<"ret void">>)>>)
ParamCases ==
    {Given(<<ParamSum(stmts), Main(SumVars \o <<(<<"exp", CallOf("f", <<n, Var("a"), Var(arg)>>)>>)>> \o SumShown)>>, <<>>) :
       arg \in {"a", "b"}, stmts \in {<<AddTo(a(i), n), If(Lt(Num(1), j), <<(<<"ret void">>)>>)>>, <<AddTo(a(i), b(j))>>,
                        <<AddTo(a(i), n), AddTo(b(j), t)>>, <<AddTo(a(i), n)>>}}

MCCases == ConditionCases \cup InitCases \cup PassCases \cup MergeCases \cup PlaceCases
             \cup SumCases \cup ParamCases
=============================================================================
