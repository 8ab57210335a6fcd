-------------------------------- MODULE SysY --------------------------------
(***************************************************************************)
(* Programs in SysY, as the parser gives them to the builder, and what     *)
(* they mean: SysY is "a simplified C", so its statements, its short       *)
(* circuits and its lists of initial values mean what they mean in C.      *)
(*   top level    <<"func", f, ret, params, items>>, <<"decl", defs>>      *)
(*   params       [id, array, dims], dims those after the first            *)
(*   defs         [id, dims, init, const]                                  *)
(*   init         <<"none">>, <<"exp", e>>, <<"list", inits>>              *)
(*   statements   <<"assign", lval, e>>, <<"exp", e>>, <<"ret", e>>,       *)
(*                <<"ret void">>, <<"break">>, <<"continue">>, <<"none">>, *)
(*                <<"if", e, s1, s2>>, <<"while", e, s>>,                  *)
(*                <<"block", items>>, items statements and <<"decl", ds>>  *)
(*   expressions  <<"num", n>>, <<"lval", x, es>>, <<"neg", e>>,           *)
(*                <<"not", e>>, <<"call", f, es>>, <<op, e1, e2>>          *)
(***************************************************************************)
EXTENDS HIR

Num(n) == <<"num", n>>
Var(x) == <<"lval", x, <<>>>>
Elem(x, e) == <<"lval", x, <<e>>>>
CallOf(f, es) == <<"call", f, es>>
NoInit == <<"none">>
InitExp(e) == <<"exp", e>>

IntDef(x, init) == [id |-> x, dims |-> <<>>, init |-> init, const |-> FALSE]
ArrayDef(x, dims, init) == [id |-> x, dims |-> dims, init |-> init, const |-> FALSE]
ConstOf(def) == [def EXCEPT !.const = TRUE]

-----------------------------------------------------------------------------
(* The meaning.  T is a text with the environment of its functions.  An    *)
(* environment has the place of each variable and its dimensions, the      *)
(* first of which is 0 for a parameter.  s is as in HIR; its depth counts  *)
(* the variables made so far.                                              *)

Bound(place, dims) == [place |-> place, dims |-> dims]

\* In C a brace opens the part of the array that begins where it stands, and
\* what a list does not give is 0: the words of an array of dims that begins
\* with the n-th item, and the item after it.
RECURSIVE Filled(_, _, _)
Filled(vals, n, dims) ==
    CASE dims = <<>> /\ n > Len(vals) -> [words |-> <<0>>, next |-> n]
      [] dims = <<>> /\ n <= Len(vals) -> [words |-> <<vals[n][2]>>, next |-> n + 1]
      [] OTHER ->
           FoldLeft(LAMBDA acc, k :
                      LET braces == acc.next <= Len(vals) /\ vals[acc.next][1] = "list"
                          part == IF braces THEN Filled(vals[acc.next][2], 1, Tail(dims))
                                  ELSE Filled(vals, acc.next, Tail(dims))
                      IN  [words |-> acc.words \o part.words,
                           next |-> IF braces THEN acc.next + 1 ELSE part.next],
                    [words |-> <<>>, next |-> n], [k \in 1 .. Head(dims) |-> k])

FuncOf(T, f) == CHOOSE d \in ToSet(T.text) : d[1] = "func" /\ d[2] = f

RECURSIVE Eval(_, _, _, _)

\* Expressions one after the other: the last state, and all values.
EvalAll(T, env, es, s) ==
    FoldLeft(LAMBDA acc, e : LET t == Eval(T, env, e, acc.s)
                             IN  [s |-> t, vals |-> Append(acc.vals, t.val)],
             [s |-> s, vals |-> <<>>], es)

PlaceOf(var, vals) ==
    <<var.place[1],
      FoldLeft(LAMBDA off, k : off + vals[k] * Words(SubSeq(var.dims, k + 1, Len(var.dims))),
               var.place[2], [k \in DOMAIN vals |-> k])>>

RECURSIVE EvalInits(_, _, _, _)
EvalInits(T, env, inits, s) ==
    FoldLeft(LAMBDA acc, x :
               LET in == IF x[1] = "list" THEN EvalInits(T, env, x[2], acc.s)
                         ELSE LET t == Eval(T, env, x[2], acc.s) IN [s |-> t, vals |-> t.val]
               IN  [s |-> in.s, vals |-> Append(acc.vals, <<x[1], in.vals>>)],
             [s |-> s, vals |-> <<>>], inits)

\* A definition: its variable can be seen from its initial value on.
Define(T, acc, d) ==
    LET base == <<"var", acc.s.depth, 0>>
        dims == EvalAll(T, acc.env, d.dims, acc.s).vals
        env == With(acc.env, d.id, Bound(<<base, 0>>, dims))
        new == [acc.s EXCEPT !.depth = @ + 1]
        in == EvalInits(T, env, IF d.init[1] = "list" THEN d.init[2] ELSE <<d.init>>, new)
        words == Filled(in.vals, 1, dims).words
    IN  [env |-> env,
         s |-> IF d.init = NoInit THEN new
               ELSE [in.s EXCEPT !.mem = [p \in {<<base, k>> : k \in 0 .. Len(words) - 1} |->
                                            words[p[2] + 1]] @@ @]]

\* Statements and definitions; a function is not one.
Items(T, env, items, s) ==
    FoldLeft(LAMBDA acc, item :
               CASE acc.s.mode # "run" \/ item[1] = "func" -> acc
                 [] acc.s.mode = "run" /\ item[1] = "decl" ->
                      FoldLeft(LAMBDA in, d : Define(T, in, d), acc, item[2])
                 [] OTHER -> [acc EXCEPT !.s = Eval(T, acc.env, item, @)],
             [env |-> env, s |-> s], items)

\* Arguments are variables of the function they are given to.
Called(T, f, args, s) ==
    LET d == FuncOf(T, f)
        dims(n) == IF d[4][n].array THEN <<0>> \o EvalAll(T, T.env, d[4][n].dims, s).vals ELSE <<>>
        place(n) == IF d[4][n].array THEN args[n] ELSE << <<"var", s.depth, n>>, 0>>
        scalars == {n \in DOMAIN args : ~d[4][n].array}
        env == [x \in {d[4][n].id : n \in DOMAIN args} |->
                  LET n == CHOOSE m \in DOMAIN args : d[4][m].id = x IN Bound(place(n), dims(n))]
        t == Items(T, env @@ T.env, d[5],
                   [s EXCEPT !.depth = @ + 1, !.rounds = @ - 1, !.val = 0,
                             !.mem = [p \in {place(n) : n \in scalars} |-> args[p[1][3]]] @@ @]).s
    IN  CASE f \in DOMAIN Runtime -> Outside(f, args, s)
          [] f \notin DOMAIN Runtime /\ s.rounds = 0 -> [s EXCEPT !.mode = "long"]
          [] OTHER -> [t EXCEPT !.mode = IF @ = "ret" THEN "run" ELSE @]

\* The global variables are there before main starts.
Program(T, s) ==
    LET globals == Items(T, <<>>, T.text, s)
    IN  Called([T EXCEPT !.env = globals.env], "main", <<>>, globals.s)

Assign(T, env, st, s) ==
    LET es == EvalAll(T, env, Append(st[2][3], st[3]), s)
    IN  [es.s EXCEPT !.mem = With(@, PlaceOf(env[st[2][2]], Front(es.vals)), Last(es.vals))]

Branch(T, env, st, s) ==
    LET c == Eval(T, env, st[2], s)
    IN  IF c.mode # "run" THEN c ELSE Eval(T, env, st[IF c.val # 0 THEN 3 ELSE 4], c)

Loop(T, env, st, s) ==
    LET c == Eval(T, env, st[2], s)
        t == Eval(T, env, st[3], c)
    IN  CASE s.rounds <= 0 -> [s EXCEPT !.mode = "long"]
          [] s.rounds > 0 /\ (c.mode # "run" \/ c.val = 0) -> c
          [] OTHER -> CASE t.mode = "break" -> [t EXCEPT !.mode = "run"]
                        [] t.mode \in {"run", "continue"} ->
                             Eval(T, env, st, [t EXCEPT !.mode = "run", !.rounds = @ - 1])
                        [] OTHER -> t

LValue(T, env, e, s) ==
    LET es == EvalAll(T, env, e[3], s)
        place == PlaceOf(env[e[2]], es.vals)
    IN  [es.s EXCEPT !.val = IF Len(es.vals) < Len(env[e[2]].dims) THEN place
                             ELSE ReadFrom(es.s.mem, place)]

\* An expression, a statement, or the whole text: the state after it.
Eval(T, env, e, s) ==
    LET a == Eval(T, env, e[2], s)
        b == Eval(T, env, e[3], a)
    IN  CASE e[1] = "num" -> [s EXCEPT !.val = e[2]]
          [] e[1] = "lval" -> LValue(T, env, e, s)
          [] e[1] = "neg" -> [a EXCEPT !.val = -@]
          [] e[1] = "not" -> [a EXCEPT !.val = Truth(@ = 0)]
          [] e[1] = "call" -> LET es == EvalAll(T, env, e[3], s) IN Called(T, e[2], es.vals, es.s)
          [] e[1] = "and" -> IF a.val = 0 THEN a ELSE [b EXCEPT !.val = Truth(@ # 0)]
          [] e[1] = "or" -> IF a.val # 0 THEN [a EXCEPT !.val = 1]
                            ELSE [b EXCEPT !.val = Truth(@ # 0)]
          [] e[1] = "assign" -> Assign(T, env, e, s)
          [] e[1] = "exp" -> a
          [] e[1] = "ret" -> [a EXCEPT !.mode = IF @ = "run" THEN "ret" ELSE @]
          [] e[1] = "ret void" -> [s EXCEPT !.mode = "ret"]
          [] e[1] \in {"break", "continue"} -> [s EXCEPT !.mode = e[1]]
          [] e[1] = "if" -> Branch(T, env, e, s)
          [] e[1] = "while" -> Loop(T, env, e, s)
          [] e[1] = "block" -> Items(T, env, e[2], s).s
          [] e[1] = "none" -> s
          [] e[1] = "program" -> Program(T, s)
          [] OTHER -> [b EXCEPT !.val = Computed(e[1], a.val, @)]

\* What a text means when it is given input.
TextMeaning(text, input) ==
    Outcome(Eval([text |-> text, env |-> <<>>], <<>>, <<"program">>, Begin(<<>>, input)))
=============================================================================
