--------------------------- MODULE MCProgramPasses ---------------------------
(***************************************************************************)
(* Programs for ProgramPasses.                                             *)
(***************************************************************************)
EXTENDS ProgramPasses

Number == [ptr |-> FALSE, row |-> 0]
Array(row) == [ptr |-> TRUE, row |-> row]

\* A program of functions <<name, args, blocks>>, a block <<name, code>>, with
\* the types of the arguments behind if one of them is an array.
Program(defs, globals, input) ==
    LET all == defs \o << <<"putint", <<>>, <<>>>>, <<"getint", <<>>, <<>>>> >>
        code == FoldLeft(LAMBDA c, d : FoldLeft(LAMBDA e, b : (b[1] :> b[2]) @@ e, c, d[3]), <<>>, all)
    IN  [funcs |-> [n \in DOMAIN all |-> all[n][1]],
         args |-> [f \in {d[1] : d \in ToSet(all)} |-> (CHOOSE d \in ToSet(all) : d[1] = f)[2]],
         order |-> [f \in {d[1] : d \in ToSet(all)} |->
                      LET bs == (CHOOSE d \in ToSet(all) : d[1] = f)[3]
                      IN  [n \in DOMAIN bs |-> bs[n][1]]],
         code |-> code, globals |-> globals, erased |-> {},
         types |-> [f \in {d[1] : d \in ToSet(all)} |->
                      LET d == CHOOSE d \in ToSet(all) : d[1] = f
                      IN  IF Len(d) = 4 THEN d[4] ELSE [n \in DOMAIN d[2] |-> Number]],
         multi |-> {},
         nest |-> [b \in DOMAIN code |-> <<>>], copies |-> 0, input |-> input]

Case(prog, lvl, passes) == [prog |-> prog, level |-> lvl, passes |-> passes]
Put(v) == CallTo("", "putint", <<v>>)
Global(name, base, init) == [name |-> name, base |-> base, init |-> init]

-----------------------------------------------------------------------------
(* Before SSA form.  Bodies for the functions f, g and h, each with one    *)
(* parameter; they call one another in different ways.                     *)

\* return x + 1
Leaf(f, x) == <<f, <<x>>, << <<f \o "1", <<Inst(f \o "a", "add", <<V(x), C(1)>>),
                                            Ret(<<V(f \o "a")>>)>>>> >> >>

\* if (x < 2) return x; return callee(x - 1) + y;
Choice(f, x, callee) ==
    <<f, <<x>>, << <<f \o "1", <<Inst(f \o "c", "lt", <<V(x), C(2)>>), CondBr(V(f \o "c"), f \o "2", f \o "3")>>>>,
                   <<f \o "2", <<Ret(<<V(x)>>)>>>>,
                   <<f \o "3", <<Inst(f \o "m", "sub", <<V(x), C(1)>>),
                                 CallTo(f \o "r", callee, <<V(f \o "m")>>),
                                 Inst(f \o "s", "add", <<V(f \o "r"), V(x)>>),
                                 Ret(<<V(f \o "s")>>)>>>> >> >>

\* y = x; the global is counted up; putint(y); return callee(y)
Counting(f, x, callee) ==
    <<f, <<x>>, << <<f \o "1", <<Inst(f \o "y", "alloca", <<C(1)>>), StoreTo(f \o "i", V(x), V(f \o "y")),
                                 Inst(f \o "l", "load", <<G("n")>>), Inst(f \o "p", "add", <<V(f \o "l"), C(1)>>),
                                 StoreTo(f \o "w", V(f \o "p"), G("n")),
                                 Inst(f \o "z", "load", <<V(f \o "y")>>), Put(V(f \o "z")),
                                 CallTo(f \o "r", callee, <<V(f \o "z")>>), Ret(<<V(f \o "r")>>)>>>> >> >>

\* Two loops, one in the other, around a call; the result is not the call's.
Nested(f, x, callee) ==
    <<f, <<x>>,
      << <<f \o "1", <<Inst(f \o "i", "alloca", <<C(1)>>), StoreTo(f \o "s1", C(0), V(f \o "i")), Br(f \o "2")>>>>,
         <<f \o "2", <<Inst(f \o "l1", "load", <<V(f \o "i")>>), Inst(f \o "c1", "lt", <<V(f \o "l1"), V(x)>>),
                       CondBr(V(f \o "c1"), f \o "3", f \o "6")>>>>,
         <<f \o "3", <<Inst(f \o "l2", "load", <<V(f \o "i")>>), Inst(f \o "c2", "lt", <<V(f \o "l2"), C(1)>>),
                       CondBr(V(f \o "c2"), f \o "4", f \o "5")>>>>,
         <<f \o "4", <<CallTo(f \o "r", callee, <<V(f \o "l2")>>), Put(V(f \o "r")),
                       Inst(f \o "a", "add", <<V(f \o "l2"), C(1)>>),
                       StoreTo(f \o "s2", V(f \o "a"), V(f \o "i")), Br(f \o "3")>>>>,
         <<f \o "5", <<Inst(f \o "l3", "load", <<V(f \o "i")>>), Inst(f \o "b", "add", <<V(f \o "l3"), C(1)>>),
                       StoreTo(f \o "s3", V(f \o "b"), V(f \o "i")), Br(f \o "2")>>>>,
         <<f \o "6", <<Ret(<<C(3)>>)>>>> >> >>

\* A function without result.
Void(f, x) == <<f, <<x>>, << <<f \o "1", <<StoreTo(f \o "s", V(x), G("n")), Ret(<<>>)>>>> >> >>

MainCalls(used, first, second) ==
    LET End(v) == <<Inst("ml", "load", <<G("n")>>), Put(V("ml")), Ret(<<v>>)>>
    IN  <<"main", <<>>, << <<"m1", <<CallTo("mi", "getint", <<>>), CallTo("mr", first, <<V("mi")>>),
                                     Put(IF used THEN V("mr") ELSE V("mi")),
                                     CallTo("mq", second, <<V("mi")>>)>> \o End(IF used THEN V("mq") ELSE C(0))>> >> >>

\* A main that calls itself through f, with a variable only main knows.
MainAgain(callee) ==
    <<"main", <<>>, << <<"m1", <<Inst("ml", "load", <<G("k")>>), Inst("mp", "add", <<V("ml"), C(1)>>),
                                 StoreTo("ms", V("mp"), G("k")), Put(V("ml")),
                                 Inst("mc", "lt", <<V("ml"), C(2)>>), CondBr(V("mc"), "m2", "m3")>>>>,
                       <<"m2", <<CallTo("mr", callee, <<V("ml")>>), Br("m3")>>>>,
                       <<"m3", <<Ret(<<C(0)>>)>>>> >> >>
ViaMain(f, x) == <<f, <<x>>, << <<f \o "1", <<CallTo(f \o "r", "main", <<>>), Ret(<<V(f \o "r")>>)>>>> >> >>

MemPasses == <<"dce", "inline", "local", "dce", "simplify">>
Counter == <<Global("n", 100, <<0>>), Global("t", 200, <<0, 4, 0>>)>>


\* f, g and h call one another in all ways; the results are used or not.
Bodies(f, x, callees) ==
    {Leaf(f, x)} \cup {Choice(f, x, c) : c \in callees} \cup {Counting(f, x, c) : c \in callees}
      \cup {Nested(f, x, c) : c \in callees}

MemCases ==
    {Case(Program(<<f, g, Leaf("h", "z"), MainCalls(used, first, "g")>>, Counter, 3), "MIR_MEM", MemPasses) :
       f \in Bodies("f", "x", {"f", "g", "h"}), g \in Bodies("g", "y", {"f", "h"}),
       used \in BOOLEAN, first \in {"f", "g"}}
    \cup {Case(Program(<<ViaMain("f", "x"), Void("g", "y"), MainAgain(c)>>, <<Global("k", 100, <<v>>)>> \o Counter, 0),
               "MIR_MEM", <<"local", "inline", "dce">>) : c \in {"f", "main"}, v \in {0, 1}}
    \cup {Case(Program(<<Void("g", "y"),
                         <<"main", <<>>, << <<"m1", <<CallTo("mg", "g", <<C(6)>>), CallTo("mh", "g", <<C(7)>>),
                           Inst("ml", "load", <<G("n")>>), Put(V("ml")),
                           Inst("ma", "gep", <<G("t"), C(1)>>), Inst("mb", "load", <<V("ma")>>), Put(V("mb")),
                           Inst("md", "gep", <<G("t"), C(2)>>), Inst("me", "load", <<V("md")>>),
                           Ret(<<V("me")>>)>>>> >> >> >>, Counter, 0), "MIR_MEM", passes) :
           passes \in {MemPasses, <<"local", "dce">>, <<"inline", "local", "dce", "inline">>}}

-----------------------------------------------------------------------------
(* In SSA form.  A function f that is kept, for it calls itself, and a     *)
(* small one it calls in a block whose values meet those of another.       *)

Small == {Leaf("s", "y"), Void("s", "y"),
          <<"s", <<"y">>, << <<"s1", <<Put(V("y")), Inst("sa", "load", <<G("n")>>),
                                       Inst("sb", "add", <<V("sa"), V("y")>>), StoreTo("sc", V("sb"), G("n")),
                                       Ret(<<V("sa")>>)>>>> >> >>,
          <<"s", <<"y">>, << <<"s1", <<Put(V("y")), Put(V("y")), Put(V("y")), Put(V("y")), Put(V("y")),
                                       Ret(<<C(2)>>)>>>> >> >>,
          <<"s", <<"y">>, << <<"s1", <<CallTo("sr", "h", <<V("y")>>), Ret(<<V("sr")>>)>>>> >> >>}

Meeting(v, w) ==
    <<"f", <<"x">>, << <<"f1", <<Inst("fc", "lt", <<V("x"), C(2)>>), CondBr(V("fc"), "f2", "f3")>>>>,
                       <<"f2", <<Inst("fi", "add", <<V("x"), C(1)>>), CallTo("fr", "s", <<V("fi")>>),
                                 Inst("fj", "add", <<V("x"), C(5)>>), CallTo("ft", "s", <<V("fj")>>), Br("f4")>>>>,
                       <<"f3", <<Inst("fm", "sub", <<V("x"), C(1)>>), CallTo("fq", "f", <<V("fm")>>), Br("f4")>>>>,
                       <<"f4", <<Phi("fp", <<v, V("fq")>>, <<"f2", "f3">>),
                                 Phi("fu", <<V("fm"), w>>, <<"f3", "f2">>),
                                 Inst("fs", "add", <<V("fp"), V("fu")>>), Ret(<<V("fs")>>)>>>> >> >>

MainOnce == <<"main", <<>>, << <<"m1", <<CallTo("mi", "getint", <<>>), CallTo("mr", "f", <<V("mi")>>), Put(V("mr")),
                                        CallTo("mt", "s", <<V("mr")>>), Inst("ml", "load", <<G("n")>>),
                                        Ret(<<V("ml")>>)>>>> >> >>

NoResult(s) == Last(s[3][1][2]).ops = <<>>
SSACases ==
    {Case(Program(<<Leaf("h", "z"), s, Meeting(v, w), MainOnce>>, Counter, input), "MIR_SSA",
          <<"inline", "dce", "simplify">>) :
       s \in Small, input \in {0, 3},
       v \in {C(5), V("x"), V("fj"), V("fi")} \cup (IF NoResult(CHOOSE t \in Small : TRUE) THEN {} ELSE {V("fr"), V("ft")}),
       w \in {C(0), V("fj")}}

-----------------------------------------------------------------------------
(* Constants that come first, and phis with constants in all places. *)

RefactorCases ==
    {Case(Program(<< <<"main", <<>>,
        << <<"m1", <<CallTo("mi", "getint", <<>>), Inst("ma", op, <<C(2), V("mi")>>), Put(V("ma")),
                     Inst("mb", op, <<C(2), C(1)>>), Put(V("mb")),
                     Inst("mc", "lt", <<C(0), V("mi")>>), CondBr(V("mc"), "m2", "m3")>>>>,
           <<"m2", <<Inst("md", "lt", <<C(1), V("mi")>>), CondBr(V("md"), "m4", "m5")>>>>,
           <<"m3", <<Br("m6")>>>>, <<"m4", <<Br("m6")>>>>, <<"m5", <<Br("m6")>>>>,
           <<"m6", <<Phi("mp", vals, <<"m3", "m4", "m5">>), Ret(<<V("mp")>>)>>>> >> >> >>, <<>>, input),
        "MIR_SSA", <<"refactor">>) :
      op \in {"add", "sub", "mul", "div", "lt", "le", "gt", "ge", "eq", "ne"},
      vals \in [1 .. 3 -> {C(8), V("mi")}], input \in {0, 1, 3}}

-----------------------------------------------------------------------------
(* Loops.  The body of one loop of two blocks, its head reached from one   *)
(* block or two, and what follows it.                                      *)

W == <<"w", <<"y">>, << <<"w1", <<StoreTo("ws", V("y"), G("n")), Ret(<<>>)>>>> >> >>

Bodies2 ==
    LET Load == <<Inst("l", "load", <<G("n")>>), Put(V("l"))>>
        Sum == <<Inst("q", "mul", <<V("mi"), C(4)>>), Inst("u", "gep", <<G("t"), C(1)>>),
                 Inst("v", "load", <<V("u")>>), Inst("z", "add", <<V("q"), V("v")>>), Put(V("z"))>>
        Varies == <<StoreTo("sv", V("i"), G("n"))>>
        Fixes == <<StoreTo("sf", V("mi"), G("n"))>>
        Places == <<Inst("pu", "gep", <<G("t"), C(1)>>), StoreTo("sp", V("i"), V("pu"))>>
        Calls == <<CallTo("", "w", <<V("mi")>>)>>
    IN  {Sum, Load, Load \o Varies, Varies \o Load, Load \o Fixes, Load \o Calls, Sum \o Places,
         Sum \o Varies, Sum \o Calls, Varies, <<Inst("dv", "div", <<C(9), V("mi")>>), Put(V("dv"))>>}

OneLoop(body, out, in, twice, bound) ==
    <<"main", <<>>,
      << <<"m1", <<CallTo("mi", "getint", <<>>), Inst("mc", "gt", <<V("mi"), C(1)>>),
                   IF twice THEN CondBr(V("mc"), "m2", "m3") ELSE Br("m3")>>>>,
         <<"m2", <<Br("h")>>>>, <<"m3", <<Br("h")>>>>,
         <<"h", <<Phi("i", <<C(0), V("i1")>> \o (IF twice THEN <<V("mi")>> ELSE <<>>),
                      <<"m3", "b">> \o (IF twice THEN <<"m2">> ELSE <<>>)),
                  Phi("p", <<out, in>> \o (IF twice THEN <<C(4)>> ELSE <<>>),
                      <<"m3", "b">> \o (IF twice THEN <<"m2">> ELSE <<>>)),
                  Inst("k", "lt", <<V("i"), C(bound)>>), CondBr(V("k"), "b", "e")>>>>,
         <<"b", body \o <<Inst("i1", "add", <<V("i"), C(1)>>), Br("h")>>>>,
         <<"e", <<Put(V("p")), Inst("el", "load", <<G("n")>>), Ret(<<V("el")>>)>>>> >> >>

\* Without m2 where nothing goes to it.
Reached(def) ==
    LET seen == UNION {ToSet(Last(def[3][n][2]).to) : n \in DOMAIN def[3]}
    IN  [def EXCEPT ![3] = SelectSeq(@, LAMBDA b : b[1] = "m1" \/ b[1] \in seen)]

\* A loop in a loop, that ends inside of its first block, and one behind it.
TwoInOne(use, first) ==
    <<"main", <<>>,
      << <<"m1", <<CallTo("mi", "getint", <<>>), Br("o")>>>>,
         <<"o", <<Phi("i", <<C(0), V("i1")>>, <<"m1", "ol">>), Inst("k", "lt", <<V("i"), C(3)>>),
                  CondBr(V("k"), "p", "e")>>>>,
         <<"p", <<Br("h")>>>>,
         <<"h", <<Phi("j", <<C(0), V("j1")>>, <<"p", "b">>), first,
                  Inst("j1", "add", <<V("j"), C(1)>>), Inst("hc", "le", <<V("j1"), V("t4")>>),
                  CondBr(V("hc"), "b", "x")>>>>,
         <<"b", <<Put(V("j")), Br("h")>>>>,
         <<"x", <<Br("h2")>>>>,
         <<"h2", <<Phi("r", <<C(0), V("r1")>>, <<"x", "b2">>), Inst("rc", "lt", <<V("r"), C(1)>>),
                   CondBr(V("rc"), "b2", "ol")>>>>,
         <<"b2", <<Inst("r1", "add", <<V("r"), C(1)>>), Br("h2")>>>>,
         <<"ol", <<use, Put(V("y")), Inst("i1", "add", <<V("i"), C(1)>>), Br("o")>>>>,
         <<"e", <<Ret(<<C(0)>>)>>>> >> >>

LoopCases ==
    {Case(Program(<<W, Reached(OneLoop(body, out, in, twice, bound))>>, Counter, input), "MIR_SSA", <<"invariant">>) :
       body \in Bodies2, out \in {C(1), V("mi")}, in \in {V("mi"), V("i1")}, twice \in BOOLEAN,
       bound \in {2}, input \in {0, 2}}
    \cup {Case(Program(<<TwoInOne(Inst("y", "add", <<u, C(1)>>), Inst("t4", op, <<v, C(2)>>))>>, <<>>, 1),
               "MIR_SSA", <<"invariant">>) : u \in {V("t4"), V("mi"), V("i")}, v \in {V("i"), V("mi")}, op \in {"mul", "div"}}

-----------------------------------------------------------------------------
(* Functions that FunctionOptimization may know, and main that calls them. *)

Set(x, val, var) == StoreTo(x, val, V(var))
Kept(args, kept) ==
    FlattenSeq([n \in DOMAIN args |-> <<Local(kept[n], 1), StoreTo(kept[n] \o "s", V(args[n]), V(kept[n]))>>])

\* for (; b > 0; b = b - 1) x = x / 4; what is done with the rest is last.
Groups(last) ==
    <<"f", <<"x", "b">>,
      << <<"f1", Kept(<<"x", "b">>, <<"fx", "fb">>) \o <<Br("f2")>> >>,
         <<"f2", <<LoadOf("l", "fb"), Inst("c", "gt", <<V("l"), C(0)>>), CondBr(V("c"), "f3", "f4")>> >>,
         <<"f3", <<LoadOf("m", "fx"), Inst("d", "div", <<V("m"), C(4)>>), Set("s1", V("d"), "fx"),
                   LoadOf("n1", "fb"), Inst("e", "sub", <<V("n1"), C(1)>>), Set("s2", V("e"), "fb"), Br("f2")>> >>,
         <<"f4", <<LoadOf("r", "fx"), Inst("t1", "rem", <<V("r"), C(4)>>)>> \o last>> >> >>

\* The same by calling itself.
GroupsAgain ==
    <<"f", <<"x", "b">>,
      << <<"f1", Kept(<<"x", "b">>, <<"fx", "fb">>)
                  \o <<LoadOf("l", "fb"), Inst("c", "gt", <<V("l"), C(0)>>), CondBr(V("c"), "f3", "f4")>> >>,
         <<"f3", <<LoadOf("m", "fx"), Inst("d", "div", <<V("m"), C(4)>>), LoadOf("n1", "fb"),
                   Inst("e", "sub", <<V("n1"), C(1)>>), CallTo("r1", "f", <<V("d"), V("e")>>), Ret(<<V("r1")>>)>> >>,
         <<"f4", <<LoadOf("r", "fx"), Inst("t1", "rem", <<V("r"), C(4)>>), Ret(<<V("t1")>>)>> >> >> >>

GroupEnds == {<<Ret(<<V("t1")>>)>>,
              <<Set("s3", V("t1"), "fx"), StoreTo("s4", V("t1"), G("n")), Ret(<<V("t1")>>)>>,
              <<Inst("t2", "div", <<C(3), V("t1")>>), Ret(<<V("t1")>>)>>,
              <<Put(V("t1")), Ret(<<V("t1")>>)>>}

\* p = 1; for (i = pos % 6; i > 0; i = i - 1) p = p * 2; a[pos / 6] gets bit p.
Bit(last) ==
    <<"f", <<"a", "pos", "d">>,
      << <<"f1", Kept(<<"a", "pos", "d">>, <<"fa", "fpos", "fd">>)
                  \o <<Local("fp", 1), Local("fi", 1), Set("s1", C(1), "fp"), LoadOf("l", "fpos"),
                       Inst("o", "rem", <<V("l"), C(6)>>), Set("s2", V("o"), "fi"), Br("f2")>> >>,
         <<"f2", <<LoadOf("m", "fi"), Inst("c", "gt", <<V("m"), C(0)>>), CondBr(V("c"), "f3", "f4")>> >>,
         <<"f3", <<LoadOf("q", "fp"), Inst("q2", "mul", <<V("q"), C(2)>>), Set("s3", V("q2"), "fp"),
                   LoadOf("i", "fi"), Inst("i2", "sub", <<V("i"), C(1)>>), Set("s4", V("i2"), "fi"), Br("f2")>> >>,
         <<"f4", <<LoadOf("pp", "fpos"), Inst("k", "div", <<V("pp"), C(6)>>), LoadOf("aa", "fa"),
                   Inst("at", "gep", <<V("aa"), V("k")>>), LoadOf("w", "at"), LoadOf("p", "fp"),
                   Inst("w1", "div", <<V("w"), V("p")>>), Inst("w2", "rem", <<V("w1"), C(2)>>), LoadOf("dd", "fd"),
                   Inst("w3", "sub", <<V("dd"), V("w2")>>), Inst("w4", "mul", <<V("w3"), V("p")>>),
                   Inst("w5", "add", <<V("w"), V("w4")>>), StoreTo("s5", V("w5"), V("at"))>> \o last>> >>,
      <<Array(0), Number, Number>> >>

BitEnds == {<<Ret(<<C(0)>>)>>, <<Ret(<<V("w2")>>)>>,
            <<Inst("o1", "gep", <<V("aa"), C(2)>>), StoreTo("s6", C(9), V("o1")), Ret(<<C(0)>>)>>}

MainGroups(x, b) ==
    <<"main", <<>>, << <<"m1", <<CallTo("ma", "f", <<C(x), C(b)>>), Put(V("ma")), CallTo("mb", "f", <<C(99), C(2)>>),
                                 Put(V("mb")), Inst("ml", "load", <<G("n")>>), Ret(<<V("ml")>>)>> >> >> >>

MainBits(pos, d) ==
    <<"main", <<>>, << <<"m1", <<CallTo("ma", "f", <<G("t"), C(pos), C(d)>>), Put(V("ma")),
                                 CallTo("mb", "f", <<G("t"), C(1), C(1)>>),
                                 Inst("m3", "load", <<G("t")>>), Put(V("m3")),
                                 Inst("m4", "gep", <<G("t"), C(1)>>), Inst("m5", "load", <<V("m4")>>), Put(V("m5")),
                                 Inst("m6", "gep", <<G("t"), C(2)>>), Inst("m7", "load", <<V("m6")>>),
                                 Ret(<<V("m7")>>)>> >> >> >>

\* for i, for j: y[i] = y[i] + a[i][j] * x[j]; or y[i] is a sum of its own.
Rows(row, start) ==
    <<"f", <<"n", "a", "x", "y">>,
      << <<"f1", Kept(<<"n", "a", "x", "y">>, <<"fn", "fa", "fx", "fy">>)
                   \o <<Local("fi", 1), Local("fj", 1), Set("s1", C(0), "fi"), Br("f2")>> >>,
         Test("f2", "fi", "fn", 0, "f3", "f7"),
         <<"f3", <<LoadOf("y1", "fy"), LoadOf("i1", "fi"), Inst("e1", "gep", <<V("y1"), V("i1")>>)>>
                   \o (IF start THEN <<StoreTo("s2", C(0), V("e1"))>> ELSE <<>>)
                   \o <<Set("s3", C(0), "fj"), Br("f4")>> >>,
         Test("f4", "fj", "fn", 0, "f5", "f6"),
         <<"f5", <<LoadOf("y2", "fy"), LoadOf("i2", "fi"), Inst("e2", "gep", <<V("y2"), V("i2")>>), LoadOf("v", "e2")>>
                   \o ElementAt("z", "fa", "fi", C(row), "fj")
                   \o <<LoadOf("z1", "ze"), LoadOf("x1", "fx"), LoadOf("j1", "fj"), Inst("e3", "gep", <<V("x1"), V("j1")>>),
                        LoadOf("z2", "e3"), Inst("z3", "mul", <<V("z1"), V("z2")>>), Inst("z4", "add", <<V("v"), V("z3")>>),
                        StoreTo("s4", V("z4"), V("e2"))>> \o Count("f5", "fj", 1, "f4")>>,
         <<"f6", Count("f6", "fi", 1, "f2")>>,
         <<"f7", <<Ret(<<>>)>> >> >>,
      <<Number, Array(row), Array(0), Array(0)>> >>

\* for i, for j, for k: c[i][j] = c[i][j] + a[i][k] * b[k][j]; or all three
\* become 0, which is a product too.
Matrices(row, rowB, zero) ==
    <<"f", <<"n", "a", "b", "c">>,
      << <<"f1", Kept(<<"n", "a", "b", "c">>, <<"fn", "fa", "fb", "fc">>)
                   \o <<Local("fi", 1), Local("fj", 1), Local("fk", 1), Set("s1", C(0), "fi"), Br("f2")>> >>,
         Test("f2", "fi", "fn", 0, "f3", "f9"),
         <<"f3", <<Set("s2", C(0), "fj"), Br("f4")>> >>,
         Test("f4", "fj", "fn", 0, "f5", "f8"),
         <<"f5", ElementAt("u", "fc", "fi", C(row), "fj") \o <<StoreTo("s3", C(0), V("ue"))>>
                   \o (IF zero THEN ElementAt("u1", "fa", "fi", C(row), "fj") \o <<StoreTo("s5", C(0), V("u1e"))>>
                                      \o Count("f5", "fj", 1, "f4")
                       ELSE <<Set("s4", C(0), "fk"), Br("f6")>>)>> >>
         \o (IF zero THEN <<>> ELSE
      << Test("f6", "fk", "fn", 0, "f7", "f8a"),
         <<"f7", ElementAt("x", "fc", "fi", C(row), "fj") \o <<LoadOf("x1", "xe")>>
                   \o ElementAt("y", "fa", "fi", C(row), "fk") \o <<LoadOf("y1", "ye")>>
                   \o ElementAt("z", "fb", "fk", C(row), "fj") \o <<LoadOf("z1", "ze")>>
                   \o <<Inst("p1", "mul", <<V("y1"), V("z1")>>), Inst("p2", "add", <<V("x1"), V("p1")>>),
                        StoreTo("s6", V("p2"), V("xe"))>> \o Count("f7", "fk", 1, "f6")>>,
         <<"f8a", Count("f8a", "fj", 1, "f4")>> >>)
         \o << <<"f8", Count("f8", "fi", 1, "f2")>>, <<"f9", <<Ret(<<>>)>> >> >>,
      <<Number, Array(row), Array(rowB), Array(row)>> >>

\* Calls f and prints what became of one element and another.
MainArrays(n, places, seen) ==
    <<"main", <<>>,
      << <<"m1", <<CallTo("", "f", <<C(n), G(places[1]), G(places[2]), G(places[3])>>)>>
                   \o FlattenSeq([k \in DOMAIN seen |->
                        <<Inst("g" \o ToString(k), "gep", <<G(places[3]), C(seen[k])>>),
                          LoadOf("h" \o ToString(k), "g" \o ToString(k)), Put(V("h" \o ToString(k)))>>])
                   \o <<Ret(<<C(0)>>)>> >> >> >>

Grids == <<Global("n", 90, <<0>>),
           Global("A", 100, [k \in 1 .. 20 |-> (k % 4) + 1]), Global("B", 200, [k \in 1 .. 20 |-> (k * k) % 5]),
           Global("D", 300, [k \in 1 .. 20 |-> 50 + k])>>

SampledCases ==
    {Case(Program(<<f, MainGroups(c[1], c[2])>>, Counter, 0), "MIR_MEM", <<"optimize", "dce", "inline", "local", "dce">>) :
       f \in {Groups(last) : last \in GroupEnds} \cup {GroupsAgain},
       c \in {<<37, 1>>, <<6, 3>>, <<-37, 1>>, <<5, -1>>}}
    \cup {Case(Program(<<Bit(last), MainBits(c[1], c[2])>>, Counter, 0), "MIR_MEM", <<"optimize", "dce">>) :
            last \in BitEnds, c \in {<<2, 0>>, <<8, 1>>, <<0, 2>>, <<-1, 1>>}}
    \cup {Case(Program(<<Rows(4, start), MainArrays(n, places, <<0, 1, 3>>)>>, Grids, 0), "MIR_MEM", <<"optimize">>) :
            start \in BOOLEAN, n \in {3, 4}, places \in {<<"A", "B", "D">>, <<"A", "D", "D">>}}
    \cup {Case(Program(<<Matrices(4, row, zero), MainArrays(n, places, <<0, 1, 6, 15>>)>>, Grids, 0), "MIR_MEM", <<"optimize">>) :
            row \in {4}, zero \in BOOLEAN, n \in {3, 4}, places \in {<<"A", "B", "D">>, <<"A", "B", "A">>}}
    \cup {Case(Program(<<Matrices(4, 0, FALSE), MainArrays(4, <<"A", "B", "D">>, <<0, 15>>)>>, Grids, 0), "MIR_MEM",
               <<"optimize">>)}

MCCases == MemCases \cup SSACases \cup RefactorCases \cup LoopCases \cup SampledCases
=============================================================================
