---------------------------- MODULE MCBlockPasses ----------------------------
(* Finite instances of BlockPasses. *)
EXTENDS BlockPasses

MCGlobals == {"g", "h"}
Fun(body, external, reads, writes, io, void) ==
    [body |-> body, external |-> external, reads |-> reads, writes |-> writes,
     io |-> io, void |-> void]

\* Word h is only for functions to read and to write.
MCFunction ==
    [pure  |-> Fun({}, FALSE, 0, 0, FALSE, FALSE),
     local |-> Fun({"localStore"}, FALSE, 0, 0, FALSE, FALSE),
     readh |-> Fun({}, FALSE, 204, 0, FALSE, FALSE),
     addh  |-> Fun({"store"}, FALSE, 204, 204, FALSE, FALSE),
     addg  |-> Fun({"store"}, FALSE, 200, 200, FALSE, FALSE),
     getint |-> Fun({}, TRUE, 0, 0, TRUE, FALSE),
     putint |-> Fun({}, TRUE, 0, 0, TRUE, TRUE)]

\* 0, i, i + 1 and 2 * i are different indices.
MCStart == [env |-> [a |-> 100, g |-> 200, h |-> 204, i |-> 3, x |-> 7, y |-> -3],
            mem |-> [c \in {100, 112, 116, 124, 200, 204} |-> 10 * c],
            out |-> <<>>]

\* The n-th access of a block, with an address computation of its own.
N(s, n) == s \o ToString(n)
Index(n, p) == CASE p = "0" -> C(N("z", n), 0)
                 [] p = "i" -> V("i")
                 [] OTHER -> V(N("k", n))
Computation(n, p) ==
    CASE p = "i+1" -> <<Instr("add", N("k", n), <<V("i"), C(N("one", n), 1)>>)>>
      [] p = "2i" -> <<Instr("mul", N("k", n), <<V("i"), C(N("two", n), 2)>>)>>
      [] OTHER -> <<>>
Pointer(n, p) == IF p = "g" THEN <<>>
                 ELSE Append(Computation(n, p), Instr("gep", N("p", n), <<V("a"), Index(n, p)>>))
Ptr(n, p) == IF p = "g" THEN V("g") ELSE V(N("p", n))

Slot(s, n) ==
    CASE s.kind = "read" -> Append(Pointer(n, s.what), Instr("load", N("r", n), <<Ptr(n, s.what)>>))
      [] s.kind = "const" ->
           Append(Pointer(n, s.what), Instr("store", N("r", n), <<C(N("c", n), n), Ptr(n, s.what)>>))
      [] s.kind = "var" ->
           Append(Pointer(n, s.what), Instr("store", N("r", n), <<V("x"), Ptr(n, s.what)>>))
      [] s.kind = "call" -> <<Call(N("r", n), s.what, <<V("x")>>)>>

Slots(kinds, places) == [kind : kinds, what : places]
Accesses(places) == Slots({"read", "const", "var"}, places)

Show(v) == <<Call("end", "putint", <<v>>)>>
Shown(s) == LET values == {n \in DOMAIN s : s[n].kind \in {"read", "call"}}
            IN  IF values = {} THEN <<>> ELSE Show(V(N("r", Max(values))))
Block(s) == FlattenSeq([n \in DOMAIN s |-> Slot(s[n], n)]) \o Shown(s)

DeadCode == <<"deadinst", "deadstore", "deadinst">>
MCPasses == <<"const">> \o DeadCode \o <<"cse">> \o DeadCode
              \o <<"split", "const", "fuse">> \o DeadCode \o <<"cse">> \o DeadCode

\* Blocks of three accesses and calls, through all passes.  Different indices
\* are different, and functions do not touch what the block accesses.
Calls(s) == {s[n].what : n \in {m \in DOMAIN s : s[m].kind = "call"}}
MCMemory ==
    {[code |-> Block(s), start |-> MCStart, passes |-> MCPasses] :
       s \in {t \in [1 .. 3 -> Accesses({"0", "i", "i+1", "2i", "g"})
                                \cup Slots({"call"}, {"pure", "local", "readh", "addh", "getint"})] :
                ~({"readh", "addh"} \subseteq Calls(t))}}

\* DeadCodeEliminate also of blocks that share a global with a function that
\* writes it.
MCShared == {[code |-> Block(s), start |-> MCStart, passes |-> DeadCode] :
               s \in [1 .. 3 -> Accesses({"g", "0"}) \cup Slots({"call"}, {"addg", "pure"})]}

\* Two expressions.  Dividends of a division by a power of two are positive.
Bin(op, id, l, r) == Instr(op, id, <<l, r>>)
Expr(e, n) ==
    LET m == N("m", n)
        t == N("t", n)
        c == C(N("c", n), e.c)
    IN  CASE e.kind = "sum" -> <<Bin("mul", m, V("y"), c), Bin("add", t, V("x"), V(m))>>
          [] e.kind = "mus" -> <<Bin("mul", m, V("y"), c), Bin("add", t, V(m), V("x"))>>
          [] e.kind = "dif" -> <<Bin("mul", m, V("y"), c), Bin("sub", t, V("x"), V(m))>>
          [] e.kind = "twice" -> <<Bin("mul", m, V("y"), c), Bin("mul", t, V(m), C(N("d", n), 4))>>
          [] e.kind = "both" -> <<Bin("mul", m, V("y"), c), Bin("add", t, V(m), V(m))>>
          [] e.kind = "left" -> <<Bin("mul", m, c, V("y")), Bin("add", t, c, V(m))>>
          [] e.kind = "plus" -> <<Bin("add", t, V("y"), c)>>
          [] e.kind = "const" -> <<Bin("sub", m, C(N("d", n), 2), c), Bin("mul", t, V("x"), V(m))>>
          [] e.kind = "div" -> <<Bin("div", m, V("x"), c), Bin("div", t, V(m), C(N("d", n), 2))>>
          [] e.kind = "rem" -> <<Bin("rem", t, V("x"), c)>>
          [] e.kind = "neg" -> <<Bin("rem", t, V("y"), C(N("d", n), 2 * e.c + 1))>>
Kinds == {"sum", "mus", "dif", "twice", "both", "left", "plus", "const", "div", "rem", "neg"}
MCArithmetic ==
    {[code |-> Expr(e[1], 1) \o Expr(e[2], 2) \o Show(V("t1"))
                 \o <<Call("end2", "putint", <<V("t2")>>)>>,
      start |-> MCStart, passes |-> MCPasses] :
       e \in {p \in [1 .. 2 -> [kind : Kinds, c : 0 .. 4]] :
                \A n \in 1 .. 2 :
                  /\ p[n].kind = "left" => p[n].c # 1
                  /\ p[n].kind \in {"div", "rem", "neg"} => p[n].c > 0}}

MCJobs == MCMemory \cup MCShared \cup MCArithmetic

\* Where what the passes take for granted does not hold nothing goes on, which
\* TLC reports as a deadlock.
AssumedStep == Assumed /\ Step
MCSpec == Init /\ [][AssumedStep]_vars
=============================================================================
