------------------------- MODULE FunctionOptimization -------------------------
(***************************************************************************)
(* The pass FunctionOptimization with the Analyzer it asks.  Analyzer runs *)
(* a function on samples, on memory of its own that nobody has set, and    *)
(* says of the first that gives what a product of matrices, a product of a *)
(* matrix and a vector, the setting of a bit or the reading of a group of  *)
(* bits gives that it is one; its blocks are replaced by fixed code.       *)
(* Sizes are scaled down; words and groups of bits with WordBits.          *)
(***************************************************************************)
EXTENDS LoopInvariant

CONSTANTS KeptBits,   \* bits a word of a bit set holds, 30
          Group,      \* bits of a group, 4
          Tile,       \* STEP, 4
          Region,     \* words of the place an array is given, fixed_size
          MMTotal, MVTotal, SetTotal, GnpTotal,  \* samples, 10, 20, 1000, 1000
          MMGas, MVGas, SmallGas,   \* 2 ^ gas steps are run; 1e6, 1e5, 1e3
          CallGas,    \* what a call costs besides its step, 10
          Seeds       \* different contents of memory

-----------------------------------------------------------------------------
(* Analyzer *)

Position(s, x) == CHOOSE n \in DOMAIN s : s[n] = x
ArgIs(f, k) == P.types[f][k]
IsShape(f, ptrs) == /\ Len(P.types[f]) = Len(ptrs)
                    /\ \A k \in DOMAIN ptrs : ArgIs(f, k).ptr = ptrs[k]

\* What nobody has set is a number; an unset word is the same each time it is
\* read.
Drawn(seed, a) == (a * a * 7 + a * 37 + seed * 29 + 11) % 2 ^ (WordBits - 1)

\* clear(): the globals, the variables and the arrays a function is passed have
\* places of their own, one for all activations of the function.
PlacesOf(f) ==
    LET allocas == SelectSeq(FlattenSeq([n \in DOMAIN P.order[f] |-> P.code[P.order[f][n]]]),
                             LAMBDA i : i.op \in {"alloca", "allocaInit"})
    IN  [n \in DOMAIN P.globals |-> P.globals[n].name]
          \o [n \in DOMAIN allocas |-> allocas[n].id]
          \o SelectSeq(P.args[f], LAMBDA x : ArgIs(f, Position(P.args[f], x)).ptr)

\* words are the first words of the first array.
Sample(f, seed, ints, words) ==
    LET places == PlacesOf(f)
        at == [x \in ToSet(places) |-> Region * (Position(places, x) - 1)]
        first == at[P.args[f][CHOOSE k \in DOMAIN P.args[f] : ArgIs(f, k).ptr]]
        given == [a \in {first + o : o \in DOMAIN words} |-> words[a - first]]
        drawn == [a \in 0 .. Region * Len(places) - 1 |-> Drawn(seed, a)]
    IN  [at |-> at,
         prog |-> [P EXCEPT !.globals = [n \in DOMAIN @ |-> [@[n] EXCEPT !.base = at[P.globals[n].name]]]],
         start |-> [stack |-> <<[b |-> Entry(P, f), k |-> 1, env |-> ints @@ at]>>,
                    mem |-> IF words = <<>> THEN drawn ELSE given @@ drawn, next |-> 0, out |-> <<>>, val |-> 0,
                    wait |-> 0]]

Current(Q, m) == Q.code[Top(m).b][Top(m).k]

\* A call of another function and a division by 0 end the run without a result.
Refuses(Q, m, f) ==
    LET i == Current(Q, m)
    IN  \/ IsA("call", i) /\ i.fn # f
        \/ i.op \in {"div", "rem"} /\ ValueIn(Q, Top(m).env, i.ops[2]) = 0

\* The values of a function that calls itself are put aside and seen by the
\* call; its variables stay where they are.
AnalyzerCall(Q, m, f) ==
    LET vals == [n \in DOMAIN Current(Q, m).ops |-> ValueIn(Q, Top(m).env, Current(Q, m).ops[n])]
        given == [x \in ToSet(Q.args[f]) |-> vals[Position(Q.args[f], x)]]
    IN  [m EXCEPT !.stack = <<[b |-> Entry(Q, f), k |-> 1, env |-> given @@ Top(m).env]>> \o @,
                  !.wait = CallGas]

\* One instruction of run(), or gas that a call has used up.
AnalyzerStep(Q, m, f) ==
    IF m.wait > 0 THEN [m EXCEPT !.wait = @ - 1]
    ELSE IF IsA("call", Current(Q, m)) THEN AnalyzerCall(Q, m, f) ELSE Step(Q, m)

RECURSIVE Run(_, _, _, _)
Run(Q, m, f, gas) ==
    IF Ended(m) \/ Refuses(Q, m, f) THEN m
    ELSE IF gas = 0 THEN AnalyzerStep(Q, m, f)
    ELSE LET half == Run(Q, m, f, gas - 1) IN Run(Q, half, f, gas - 1)

Entries(n) == (0 .. n - 1) \X (0 .. n - 1)
Product(mem, a, b, l, e, n) ==
    MapThenSumSet(LAMBDA k : InMemory(mem, a + e[1] * l + k) * InMemory(mem, b + k * l + e[2]), 0 .. n - 1)
ProductOfRow(mem, a, b, l, i, n) ==
    MapThenSumSet(LAMBDA k : InMemory(mem, a + i * l + k) * InMemory(mem, b + k), 0 .. n - 1)

\* A run on a sample: the places, and the machine when the run is over.
Ran(f, s, gas) == [at |-> s.at, end |-> Run(s.prog, s.start, f, gas)]

\* What is compared is what memory holds when the function is through.
HasProduct(f, r, n) ==
    LET x == P.args[f]
        l == ArgIs(f, 2).row
    IN  /\ Ended(r.end)
        /\ \A e \in Entries(n) : InMemory(r.end.mem, r.at[x[4]] + e[1] * l + e[2])
                                   = Product(r.end.mem, r.at[x[2]], r.at[x[3]], l, e, n)

HasProductOfRows(f, r, n) ==
    LET x == P.args[f]
        l == ArgIs(f, 2).row
    IN  /\ Ended(r.end)
        /\ \A i \in 0 .. n - 1 : InMemory(r.end.mem, r.at[x[4]] + i)
                                   = ProductOfRow(r.end.mem, r.at[x[2]], r.at[x[3]], l, i, n)

Multiplies(f) == IsShape(f, <<FALSE, TRUE, TRUE, TRUE>>) /\ ArgIs(f, 2).row > 0
SampleOfSize(f, seed, n) == Sample(f, seed + n, P.args[f][1] :> n, <<>>)

LooksLikeMM(f, seed) ==
    /\ Multiplies(f)
    /\ \A n \in 1 .. MMTotal : HasProduct(f, Ran(f, SampleOfSize(f, seed, n), MMGas), n)

LooksLikeMv(f, seed) ==
    /\ Multiplies(f)
    /\ \A n \in 1 .. MVTotal : HasProductOfRows(f, Ran(f, SampleOfSize(f, seed, n), MVGas), n)

\* The word w with bit pos set to d.
BitSet(w, pos, d) == LET p == 2 ^ (pos % KeptBits) IN w + (d - ((w \div p) % 2)) * p

HasBit(f, r, pos, set) ==
    Ended(r.end) /\ InMemory(r.end.mem, r.at[P.args[f][1]] + pos \div KeptBits) = set

LooksLikeSet(f, seed) ==
    LET x == P.args[f]
        Given(n) == Sample(f, seed + n, (x[2] :> (n \div 2)) @@ (x[3] :> (n % 2)),
                           ((n \div 2) \div KeptBits) :> Drawn(seed, n))
    IN  /\ IsShape(f, <<TRUE, FALSE, FALSE>>)
        /\ \A n \in 1 .. SetTotal :
             HasBit(f, Ran(f, Given(n), SmallGas), n \div 2, BitSet(Drawn(seed, n), n \div 2, n % 2))

\* The group b of the bits of w.
GroupOf(w, b) == IF b * Group >= WordBits THEN 0 ELSE (w \div 2 ^ (b * Group)) % 2 ^ Group

HasGroup(r, group) == Ended(r.end) /\ r.end.val = group

LooksLikeGnp(f, seed) ==
    LET x == P.args[f]
        GroupAt(n) == n % (2 * (WordBits \div Group))
        Given(n) == Sample(f, seed + n, (x[1] :> Drawn(seed, n)) @@ (x[2] :> GroupAt(n)), <<>>)
    IN  /\ IsShape(f, <<FALSE, FALSE>>)
        /\ \A n \in 1 .. GnpTotal :
             HasGroup(Ran(f, Given(n), SmallGas), GroupOf(Drawn(seed, n), GroupAt(n)))

\* By the types of the parameters only the first two are ever both asked for.
analyzeFunctionality(f, seed) ==
    IF Multiplies(f) THEN IF LooksLikeMM(f, seed) THEN "mm"
                          ELSE IF LooksLikeMv(f, seed) THEN "mv" ELSE "unknown"
    ELSE CASE LooksLikeSet(f, seed) -> "set"
           [] LooksLikeGnp(f, seed) -> "gnp"
           [] OTHER -> "unknown"

-----------------------------------------------------------------------------
(* The fixed code.  Names are those of the function with what the source   *)
(* numbers them by.                                                        *)

LoadOf(x, ptr) == Inst(x, "load", <<V(ptr)>>)
Local(x, size) == Inst(x, "alloca", <<C(size)>>)
Put0(x, var) == StoreTo(x, C(0), V(var))
Row(f, k) == C(ArgIs(f, k).row)

\* Each parameter is kept in a variable.
KeepArgs(f, vars_) ==
    FlattenSeq([n \in DOMAIN P.args[f] |->
      <<Local(vars_[n], 1), StoreTo(vars_[n] \o "s", V(P.args[f][n]), V(vars_[n]))>>])

\* while (var < limit + step)
Test(b, var, limit, step, body, exit) ==
    LET bound == IF step = 0 THEN b \o "m" ELSE b \o "a"
    IN  <<b, <<LoadOf(b \o "l", var), LoadOf(b \o "m", limit)>>
               \o (IF step = 0 THEN <<>> ELSE <<Inst(b \o "a", "add", <<V(b \o "m"), C(step)>>)>>)
               \o <<Inst(b \o "c", "lt", <<V(b \o "l"), V(bound)>>), CondBr(V(b \o "c"), body, exit)>> >>

\* var = var + by, and back to the head
Count(b, var, by, head) ==
    <<LoadOf(b \o "w", var), Inst(b \o "n", "add", <<V(b \o "w"), C(by)>>),
      StoreTo(b \o "z", V(b \o "n"), V(var)), Br(head)>>

\* The place of row i of the array a variable points to; of element j in it.
RowAt(x, array, i, row) ==
    <<LoadOf(x \o "p", array), LoadOf(x \o "i", i), Inst(x \o "m", "mul", <<V(x \o "i"), row>>),
      Inst(x \o "r", "gep", <<V(x \o "p"), V(x \o "m")>>)>>
ElementAt(x, array, i, row, j) ==
    RowAt(x, array, i, row) \o <<LoadOf(x \o "j", j), Inst(x \o "e", "gep", <<V(x \o "r"), V(x \o "j")>>)>>

\* Set(): a[pos / 30] with the bit cleared, and d put there.
SetCode(f) ==
    LET N(x) == f \o "_" \o x
    IN  << <<N("entry"),
        KeepArgs(f, <<N("0"), N("1"), N("2")>>)
          \o <<LoadOf(N("d"), N("2")), LoadOf(N("pos"), N("1")), LoadOf(N("a"), N("0")),
               Inst(N("index"), "div", <<V(N("pos")), C(KeptBits)>>),
               Inst(N("offset"), "rem", <<V(N("pos")), C(KeptBits)>>),
               Inst(N("addr"), "gep", <<V(N("a")), V(N("index"))>>), LoadOf(N("w"), N("addr")),
               Inst(N("shl"), "shl", <<C(1), V(N("offset"))>>), Inst(N("not"), "not", <<V(N("shl"))>>),
               Inst(N("clear"), "and", <<V(N("w")), V(N("not"))>>),
               Inst(N("dshl"), "shl", <<V(N("d")), V(N("offset"))>>),
               Inst(N("set"), "or", <<V(N("clear")), V(N("dshl"))>>),
               StoreTo(N("out"), V(N("set")), V(N("addr"))), Ret(<<C(0)>>)>> >> >>

\* Gnp(): x >> 4 * b & 15
GnpCode(f) ==
    LET N(x) == f \o "_" \o x
    IN  << <<N("entry"),
        KeepArgs(f, <<N("0"), N("1")>>)
          \o <<LoadOf(N("x"), N("0")), LoadOf(N("b"), N("1")),
               Inst(N("mul"), "mul", <<V(N("b")), C(Group)>>),
               Inst(N("ashr"), "ashr", <<V(N("x")), V(N("mul"))>>),
               Inst(N("and"), "and", <<V(N("ashr")), C(2 ^ Group - 1)>>), Ret(<<V(N("and"))>>)>> >> >>

\* Mv(): each row of the matrix times the vector.
MvCode(f) ==
    LET N(x) == f \o "_" \o x
        n == N("4")  a == N("5")  x == N("6")  y == N("7")  i == N("8")
    IN  << <<N("entry"), KeepArgs(f, <<n, a, x, y>>) \o <<Local(i, 1), Put0(N("i0"), i), Br(N("20"))>> >>,
           Test(N("20"), i, n, 0, N("24"), N("37")),
           <<N("24"), <<LoadOf(N("25"), y), LoadOf(N("26"), i), Inst(N("27"), "gep", <<V(N("25")), V(N("26"))>>)>>
              \o RowAt(N("31"), a, i, Row(f, 2))
              \o <<LoadOf(N("32"), x), LoadOf(N("33"), n),
                   Inst(N("34"), "vv", <<V(N("31r")), V(N("32")), V(N("33"))>>),
                   StoreTo(N("35"), V(N("34")), V(N("27")))>>
              \o Count(N("36"), i, 1, N("20"))>>,
           <<N("37"), <<Ret(<<>>)>> >> >>

\* MM(), first: all of C becomes 0.
MMClears(f) ==
    LET N(x) == f \o "_" \o x
        n == N("4")  c == N("7")  i == N("8")  j == N("9")
    IN  << <<N("entry"), KeepArgs(f, <<n, N("5"), N("6"), c>>)
              \o <<Local(i, 1), Local(j, 1), Put0(N("i0"), i), Put0(N("j0"), j), Br(N("10"))>> >>,
           Test(N("10"), i, n, 0, N("14"), N("31")),
           <<N("14"), <<Put0(N("j1"), j), Br(N("15"))>> >>,
           Test(N("15"), j, n, 0, N("19"), N("28")),
           <<N("19"), ElementAt(N("25"), c, i, Row(f, 4), j) \o <<Put0(N("c0"), N("25e"))>>
                        \o Count(N("27"), j, 1, N("15"))>>,
           <<N("28"), Count(N("30"), i, 1, N("10"))>> >>

\* Then bt becomes B with rows and columns exchanged.
MMTransposes(f) ==
    LET N(x) == f \o "_" \o x
        n == N("4")  b == N("6")  i == N("8")  j == N("9")  size == ArgIs(f, 3).row
    IN  << <<N("31"), <<Local(N("bt"), size * size), Put0(N("i2"), i), Put0(N("j2"), j), Br(N("33"))>> >>,
           Test(N("33"), i, n, 0, N("37"), N("59")),
           <<N("37"), <<Put0(N("j3"), j), Br(N("38"))>> >>,
           Test(N("38"), j, n, 0, N("42"), N("56")),
           <<N("42"), <<LoadOf(N("43"), j), Inst(N("44"), "gep", <<V(N("bt")), V(N("43")), C(size)>>),
                        LoadOf(N("45"), i), Inst(N("46"), "gep", <<V(N("44")), V(N("45"))>>)>>
              \o ElementAt(N("52"), b, i, Row(f, 3), j)
              \o <<LoadOf(N("53"), N("52e")), StoreTo(N("54"), V(N("53")), V(N("46")))>>
              \o Count(N("55"), j, 1, N("38"))>>,
           <<N("56"), Count(N("58"), i, 1, N("33"))>> >>

\* And each element of C the product of a row of A and one of bt, in tiles.
MMMultiplies(f) ==
    LET N(x) == f \o "_" \o x
        n == N("4")  i == N("8")  j == N("9")  i0 == N("60")  j0 == N("66")
        size == ArgIs(f, 3).row
    IN  << <<N("59"), <<Local(i0, 1), Put0(N("i3"), i0), Br(N("61"))>> >>,
           Test(N("61"), i0, n, 0, N("65"), N("112")),
           <<N("65"), <<Local(j0, 1), Put0(N("j4"), j0), Br(N("67"))>> >>,
           Test(N("67"), j0, n, 0, N("71"), N("109")),
           <<N("71"), <<LoadOf(N("72"), i0), StoreTo(N("i4"), V(N("72")), V(i)), Br(N("73"))>> >>,
           Test(N("73"), i, i0, Tile, N("78"), N("106")),
           <<N("78"), <<LoadOf(N("79"), j0), StoreTo(N("j5"), V(N("79")), V(j)), Br(N("80"))>> >>,
           Test(N("80"), j, j0, Tile, N("85"), N("103")),
           <<N("85"), ElementAt(N("91"), N("7"), i, Row(f, 4), j)
              \o RowAt(N("95"), N("5"), i, Row(f, 2))
              \o <<LoadOf(N("96"), j), Inst(N("97"), "gep", <<V(N("bt")), V(N("96")), C(size)>>),
                   Inst(N("98"), "gep", <<V(N("97")), C(0)>>), LoadOf(N("99"), n),
                   Inst(N("100"), "vv", <<V(N("95r")), V(N("98")), V(N("99"))>>),
                   StoreTo(N("101"), V(N("100")), V(N("91e")))>>
              \o Count(N("102"), j, 1, N("80"))>>,
           <<N("103"), Count(N("105"), i, 1, N("73"))>>,
           <<N("106"), Count(N("108"), j0, Tile, N("67"))>>,
           <<N("109"), Count(N("111"), i0, Tile, N("61"))>>,
           <<N("112"), <<Ret(<<>>)>> >> >>

FixedCode(f, shape) ==
    CASE shape = "mm" -> MMClears(f) \o MMTransposes(f) \o MMMultiplies(f)
      [] shape = "mv" -> MvCode(f)
      [] shape = "set" -> SetCode(f)
      [] shape = "gnp" -> GnpCode(f)

\* The blocks go; what their instructions use has them as users all the same.
WithBlocks(f, new) ==
    LET old == Blocks(P, f)
        called == {i.fn : i \in {i \in InstsOf(P, f) : IsA("call", i)}}
        read == {v[2] : v \in {v \in UNION {ToSet(i.ops) : i \in InstsOf(P, f)} : v[1] = "global"}}
        blocks == {new[n][1] : n \in DOMAIN new}
    IN  [P EXCEPT !.order[f] = [n \in DOMAIN new |-> new[n][1]],
                  !.code = [b \in (DOMAIN @ \ old) \cup blocks |->
                      IF b \in blocks THEN (CHOOSE d \in Range(new) : d[1] = b)[2] ELSE @[b]],
                  !.nest = [b \in (DOMAIN @ \ old) \cup blocks |-> IF b \in blocks THEN <<>> ELSE @[b]],
                  !.erased = @ \cup {<<f, x>> : x \in called \cup read}]
Replaced(f, shape) ==
    [WithBlocks(f, FixedCode(f, shape)) EXCEPT !.multi = IF shape = "mm" THEN @ \cup {f} ELSE @]

-----------------------------------------------------------------------------
(* What the samples promise, at the calls the program makes. *)

\* Memory and result after f, if it is what it was taken for.
Promised(shape, f, vals, mem) ==
    LET row == [k \in DOMAIN P.types[f] |-> ArgIs(f, k).row]
        n == vals[1]
    IN  CASE shape = "mm" ->
               [mem |-> [a \in {vals[4] + e[1] * row[2] + e[2] : e \in Entries(n)} |->
                           LET e == CHOOSE e \in Entries(n) : a = vals[4] + e[1] * row[2] + e[2]
                           IN  Product(mem, vals[2], vals[3], row[2], e, n)] @@ mem,
                val |-> 0]
          [] shape = "mv" ->
               [mem |-> [a \in vals[4] .. vals[4] + n - 1 |->
                           ProductOfRow(mem, vals[2], vals[3], row[2], a - vals[4], n)] @@ mem,
                val |-> 0]
          [] shape = "set" ->
               LET a == vals[1] + vals[2] \div KeptBits
               IN  [mem |-> (a :> BitSet(InMemory(mem, a), vals[2], vals[3])) @@ mem, val |-> 0]
          [] shape = "gnp" -> [mem |-> mem, val |-> GroupOf(vals[1], vals[2])]

\* Arguments like those of the samples, and such as the fixed code is made for:
\* whole rounds of vv, that fit into the rows, of arrays apart from one another.
Apart(p, q, size) == p + size <= q \/ q + size <= p
LikeSamples(shape, f, vals) ==
    LET row == [k \in DOMAIN P.types[f] |-> ArgIs(f, k).row]
        n == vals[1]
    IN  CASE shape = "mm" -> /\ n <= row[2] /\ n % Lanes = 0
                             /\ row[3] = row[2] /\ row[4] = row[2]
                             /\ Apart(vals[4], vals[2], n * row[2]) /\ Apart(vals[4], vals[3], n * row[2])
          [] shape = "mv" -> /\ n <= row[2] /\ n % Lanes = 0
                             /\ Apart(vals[4], vals[2], n * row[2]) /\ Apart(vals[4], vals[3], n)
          [] shape = "set" -> /\ vals[2] >= 0 /\ vals[3] \in {0, 1}
          [] shape = "gnp" -> vals[1] >= 0 /\ vals[2] >= 0 /\ vals[2] * Group < 8 * WordBits

\* The next call of f, and what is passed to it.
RECURSIVE UpTo(_, _, _, _)
UpTo(Q, m, f, n) ==
    IF Ended(m) \/ (IsA("call", Current(Q, m)) /\ Current(Q, m).fn = f) THEN m
    ELSE IF n = 0 THEN Step(Q, m)
    ELSE LET half == UpTo(Q, m, f, n - 1) IN UpTo(Q, half, f, n - 1)
NextCall(f, m) == UpTo(P, m, f, Patience)
Passed(m) == [k \in DOMAIN Current(P, m).ops |-> ValueIn(P, Top(m).env, Current(P, m).ops[k])]

AsPromised(m, end, promised) ==
    /\ Ended(end)
    /\ end.val = promised.val /\ end.out = m.out
    /\ \A a \in DOMAIN end.mem \cup DOMAIN promised.mem :
         a < m.next => InMemory(end.mem, a) = InMemory(promised.mem, a)

KeepsPromise(shape, f, m, vals) ==
    /\ LikeSamples(shape, f, vals)
    /\ AsPromised(m, Steps(P, Called(P, [m EXCEPT !.stack = <<>>], f, vals), Patience),
                  Promised(shape, f, vals, m.mem))

RECURSIVE AllKeepPromise(_, _, _)
AllKeepPromise(shape, f, call) ==
    \/ Ended(call)
    \/ /\ KeepsPromise(shape, f, call, Passed(call))
       /\ AllKeepPromise(shape, f, NextCall(f, Step(P, call)))

-----------------------------------------------------------------------------
\* run(): of the functions of the module the first that is recognised.  The
\* move is noted if a call is not as the samples were.
OptimizeFirst(shape, known) ==
    IF known = <<>> THEN UNCHANGED <<P, hazards>>
    ELSE LET f == Head(known)
         IN  /\ P' = Replaced(f, shape[f])
             /\ hazards' = hazards \cup
                  (IF AllKeepPromise(shape[f], f, NextCall(f, Started(P))) THEN {} ELSE {"sampled"})
OptimizeAs(shape) == OptimizeFirst(shape, SelectSeq(P.funcs, LAMBDA f : shape[f] # "unknown"))

Optimize ==
    /\ At("optimize", "begin")
    /\ \E seed \in Seeds :
         OptimizeAs([f \in Functions(P) |->
                       IF External(P, f) THEN "unknown" ELSE analyzeFunctionality(f, seed)])
    /\ phase' = "end"
    /\ UNCHANGED <<level, todo, fivars, left, livars, fault>>
=============================================================================
