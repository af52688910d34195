---------------------------- MODULE LuaReference ----------------------------
(***************************************************************************)
(* What a Lua program means, by the reference manual (lua/doc/manual.html, *)
(* sections 2.3 to 2.8): an evaluator of syntax trees that knows nothing   *)
(* of registers, instructions or stacks.  The compiler and the machine are *)
(* compared with it.  Unparse gives the tokens of a tree.                  *)
(*                                                                         *)
(* A state R has the store of the variables, the tables and functions made *)
(* so far, the output, the values of the last expression, and st, which is *)
(* "ok" or why the execution left the block.  An environment maps names to *)
(* places in the store and has the extra arguments of the function.        *)
(***************************************************************************)
EXTENDS LuaOpcodes, SequencesExt, TLC

Patterns == INSTANCE LuaPatternReference

(* Syntax trees *)

NIL == [k |-> "nil"]
TRUEX == [k |-> "true"]
FALSEX == [k |-> "false"]
DOTS == [k |-> "..."]
NumX(n) == [k |-> "num", v |-> n]
StrX(s) == [k |-> "str", v |-> s]
Var(x) == [k |-> "name", v |-> x]
Bin(op, l, r) == [k |-> "bin", op |-> op, l |-> l, r |-> r]
Un(op, e) == [k |-> "un", op |-> op, e |-> e]
Paren(e) == [k |-> "paren", e |-> e]
CallX(f, args) == [k |-> "call", f |-> f, args |-> args]
Method(o, name, args) == [k |-> "method", o |-> o, name |-> name, args |-> args]
Idx(o, i) == [k |-> "index", o |-> o, i |-> i]
Fn(ps, va, body) == [k |-> "function", ps |-> ps, va |-> va, body |-> body]
Tab(items) == [k |-> "table", items |-> items]
Item(v) == [k |-> "item", v |-> v]
Pair(i, v) == [k |-> "pair", i |-> i, v |-> v]

Local(ns, es) == [k |-> "local", ns |-> ns, es |-> es]
LocalFn(n, f) == [k |-> "localfn", n |-> n, f |-> f]
Assign(ts, es) == [k |-> "assign", ts |-> ts, es |-> es]
Do(b) == [k |-> "do", b |-> b]
While(c, b) == [k |-> "while", c |-> c, b |-> b]
Repeat(b, c) == [k |-> "repeat", b |-> b, c |-> c]
If(c, b, e) == [k |-> "if", c |-> c, b |-> b, e |-> e]
For(n, a, z, step, b) == [k |-> "for", n |-> n, a |-> a, z |-> z, step |-> step, b |-> b]
ForIn(ns, es, b) == [k |-> "forin", ns |-> ns, es |-> es, b |-> b]
Ret(es) == [k |-> "return", es |-> es]
Break == [k |-> "break"]

(* The tokens of a tree *)

T(t) == <<[t |-> t]>>
Name(x) == <<[t |-> "name", v |-> x]>>
Separated(tokens) ==
    FoldLeft(LAMBDA a, b : IF a = << >> THEN b ELSE a \o T(",") \o b, << >>, tokens)
Names(ns) == Separated([i \in DOMAIN ns |-> Name(ns[i])])

\* Section 2.5.6: the operators from the lowest to the highest precedence.
Levels == <<{"or"}, {"and"}, {"<", ">", "<=", ">=", "~=", "=="}, {".."}, {"+", "-"},
            {"*", "/", "%"}, {"un"}, {"^"}>>
LevelOf(e) ==
    IF e.k \in {"bin", "un"}
    THEN CHOOSE i \in DOMAIN Levels : (IF e.k = "un" THEN "un" ELSE e.op) \in Levels[i]
    ELSE Len(Levels) + 1
RightAssociative == {"..", "^"}
IsPrefixExp(e) == e.k \in {"name", "call", "method", "index", "paren"}

RECURSIVE Tokens(_), BlockTokens(_)
List(es) == Separated([i \in DOMAIN es |-> Tokens(es[i])])
Enclosed(e, needed) == IF needed THEN T("(") \o Tokens(e) \o T(")") ELSE Tokens(e)
PrefixTokens(e) == Enclosed(e, ~ IsPrefixExp(e))
Params(f) ==
    T("(") \o Separated([i \in DOMAIN f.ps |-> Name(f.ps[i])] \o IF f.va THEN <<T("...")>> ELSE << >>)
      \o T(")") \o BlockTokens(f.body) \o T("end")

Tokens(e) ==
    CASE e.k \in {"nil", "true", "false", "..."} -> T(e.k)
      [] e.k = "num" -> <<[t |-> "num", v |-> e.v]>>
      [] e.k = "str" -> <<[t |-> "str", v |-> e.v]>>
      [] e.k = "name" -> Name(e.v)
      [] e.k = "paren" -> Enclosed(e.e, TRUE)
      [] e.k = "un" -> T(e.op) \o Enclosed(e.e, LevelOf(e.e) < LevelOf(e))
      [] e.k = "bin" ->
           LET right == e.op \in RightAssociative
               lower(x) == LevelOf(x) < LevelOf(e)
               same(x) == LevelOf(x) = LevelOf(e)
           IN  Enclosed(e.l, lower(e.l) \/ (same(e.l) /\ right)) \o T(e.op)
                 \o Enclosed(e.r, (lower(e.r) /\ e.r.k # "un") \/ (same(e.r) /\ ~ right))
      [] e.k = "call" -> PrefixTokens(e.f) \o T("(") \o List(e.args) \o T(")")
      [] e.k = "method" -> PrefixTokens(e.o) \o T(":") \o Name(e.name) \o T("(") \o List(e.args) \o T(")")
      [] e.k = "index" ->
           PrefixTokens(e.o) \o IF e.i.k = "str" THEN T(".") \o Name(e.i.v) ELSE T("[") \o Tokens(e.i) \o T("]")
      [] e.k = "function" -> T("function") \o Params(e)
      [] e.k = "table" -> T("{") \o List(e.items) \o T("}")
      [] e.k = "item" -> Tokens(e.v)
      [] e.k = "pair" ->
           (IF e.i.k = "str" THEN Name(e.i.v) ELSE T("[") \o Tokens(e.i) \o T("]"))
             \o T("=") \o Tokens(e.v)

StatTokens(s) ==
    CASE s.k = "local" -> T("local") \o Names(s.ns) \o IF s.es = << >> THEN << >> ELSE T("=") \o List(s.es)
      [] s.k = "localfn" -> T("local") \o T("function") \o Name(s.n) \o Params(s.f)
      [] s.k = "assign" -> List(s.ts) \o T("=") \o List(s.es)
      [] s.k \in {"call", "method"} -> Tokens(s)
      [] s.k = "do" -> T("do") \o BlockTokens(s.b) \o T("end")
      [] s.k = "while" -> T("while") \o Tokens(s.c) \o T("do") \o BlockTokens(s.b) \o T("end")
      [] s.k = "repeat" -> T("repeat") \o BlockTokens(s.b) \o T("until") \o Tokens(s.c)
      [] s.k = "if" -> T("if") \o Tokens(s.c) \o T("then") \o BlockTokens(s.b)
                         \o (IF s.e = << >> THEN << >> ELSE T("else") \o BlockTokens(s.e)) \o T("end")
      [] s.k = "for" -> T("for") \o Name(s.n) \o T("=") \o List(<<s.a, s.z>> \o s.step)
                          \o T("do") \o BlockTokens(s.b) \o T("end")
      [] s.k = "forin" -> T("for") \o Names(s.ns) \o T("in") \o List(s.es)
                            \o T("do") \o BlockTokens(s.b) \o T("end")
      [] s.k = "return" -> T("return") \o List(s.es)
      [] s.k = "break" -> T("break")
BlockTokens(b) == FoldLeft(LAMBDA a, s : a \o StatTokens(s) \o T(";"), << >>, b)

Unparse(b) == BlockTokens(b)

(* Values, tables and variables *)

Vals(R, vs) == IF R.st = "ok" THEN [R EXCEPT !.vals = vs] ELSE R
V(R) == IF R.vals = << >> THEN Nil ELSE R.vals[1]
Raise(R, v) == IF R.st = "ok" THEN [R EXCEPT !.st = "error", !.vals = <<v>>] ELSE R
Fail(R, what) == Raise(R, Str(what))
First(R) == IF R.st = "ok" THEN [R EXCEPT !.vals = <<V(R)>>] ELSE R
Adjusted(vs, n) == [i \in 1 .. n |-> IF i <= Len(vs) THEN vs[i] ELSE Nil]

Places(env, x) == {i \in DOMAIN env.vars : env.vars[i].n = x}
PlaceOf(env, x) == env.vars[CHOOSE i \in Places(env, x) : \A j \in Places(env, x) : j <= i].at
Bind(env, R, ns, vs) ==
    <<[R EXCEPT !.store = @ \o Adjusted(vs, Len(ns))],
      [env EXCEPT !.vars = @ \o [i \in DOMAIN ns |-> [n |-> ns[i], at |-> Len(R.store) + i]]]>>

NewTable(R, items) == Vals([R EXCEPT !.tabs = Append(@, [items |-> items, mt |-> 0])],
                           <<[t |-> "table", v |-> Len(R.tabs) + 1]>>)
ItemsAt(R, h, key) == {i \in DOMAIN R.tabs[h].items : RawEqual(R.tabs[h].items[i].k, key)}
RawGet(R, h, key) ==
    IF ItemsAt(R, h, key) = {} THEN Nil ELSE R.tabs[h].items[CHOOSE i \in ItemsAt(R, h, key) : TRUE].v
RawSet(R, h, key, v) ==
    [R EXCEPT !.tabs[h].items =
        Append(SelectSeq(@, LAMBDA x : ~ RawEqual(x.k, key)), [k |-> key, v |-> v])]
Border(R, h) ==
    CHOOSE n \in 0 .. Len(R.tabs[h].items) :
        RawGet(R, h, Num(n + 1)).t = "nil" /\ (n = 0 \/ RawGet(R, h, Num(n)).t # "nil")

Handler(R, v, event) ==
    CASE v.t = "table" /\ R.tabs[v.v].mt # 0 -> RawGet(R, R.tabs[v.v].mt, Str(event))
      [] v.t = "str" -> RawGet(R, 3, Str(event))
      [] OTHER -> Nil
Function(v) == v.t \in {"function", "cfunction", "cclosure"}
ToNumber(v) == IF v.t = "num" THEN {v.v}
               ELSE IF v.t = "str" THEN {n \in Numerals : ToString(n) = v.v} ELSE {}
Text(v) == IF v.t = "num" THEN ToString(v.v) ELSE v.v
Texts(a, b) == {a.t, b.t} \subseteq {"num", "str"}
Less(a, b) == \E i, j \in DOMAIN Collation : Collation[i] = a /\ Collation[j] = b /\ i < j

(* Section 2.8: operations *)

\* No program has a longer chain of metamethods that are tables, except a cycle.
Longest == 10

RECURSIVE Eval(_, _, _), Apply(_, _, _), Run(_, _, _), Replaced(_, _, _, _, _)

Handled(R, h, args, what) == IF h.t = "nil" THEN Fail(R, what) ELSE First(Apply(R, h, args))

RECURSIVE Index(_, _, _, _), SetIndex(_, _, _, _, _)
Index(R, t, key, n) ==
    LET h == Handler(R, t, "__index")
        v == RawGet(R, t.v, key)
    IN  IF R.st # "ok" THEN R
        ELSE IF n = Longest THEN Fail(R, "loop")
        ELSE IF t.t = "table" /\ (v.t # "nil" \/ h.t = "nil") THEN Vals(R, <<v>>)
        ELSE IF h.t = "nil" THEN Fail(R, "index")
        ELSE IF Function(h) THEN First(Apply(R, h, <<t, key>>))
        ELSE Index(R, h, key, n + 1)
SetIndex(R, t, key, v, n) ==
    LET h == Handler(R, t, "__newindex") IN
    IF R.st # "ok" THEN R
    ELSE IF n = Longest THEN Fail(R, "loop")
    ELSE IF t.t = "table" /\ key.t = "nil" THEN Fail(R, "index is nil")
    ELSE IF t.t = "table" /\ (RawGet(R, t.v, key).t # "nil" \/ h.t = "nil") THEN RawSet(R, t.v, key, v)
    ELSE IF h.t = "nil" THEN Fail(R, "index")
    ELSE IF Function(h) THEN Apply(R, h, <<t, key, v>>)
    ELSE SetIndex(R, h, key, v, n + 1)

Arithmetic == [o \in {"+", "-", "*", "/", "%", "^"} |->
    CASE o = "+" -> "ADD" [] o = "-" -> "SUB" [] o = "*" -> "MUL"
      [] o = "/" -> "DIV" [] o = "%" -> "MOD" [] o = "^" -> "POW"]
ArithEvent == [o \in DOMAIN Arithmetic |->
    CASE o = "+" -> "__add" [] o = "-" -> "__sub" [] o = "*" -> "__mul"
      [] o = "/" -> "__div" [] o = "%" -> "__mod" [] o = "^" -> "__pow"]
Number(v) == CHOOSE n \in ToNumber(v) : TRUE
BinHandler(R, a, b, event) ==
    IF Handler(R, a, event).t # "nil" THEN Handler(R, a, event) ELSE Handler(R, b, event)
CompHandler(R, a, b, event) ==
    IF RawEqual(Handler(R, a, event), Handler(R, b, event)) THEN Handler(R, a, event) ELSE Nil

Truth(R, negated) == Vals(R, <<Bool(IsFalse(V(R)) = negated)>>)

Equal(R, a, b) ==
    LET h == CompHandler(R, a, b, "__eq") IN
    IF RawEqual(a, b) THEN Vals(R, <<Bool(TRUE)>>)
    ELSE IF a.t # "table" \/ b.t # "table" \/ h.t = "nil" THEN Vals(R, <<Bool(FALSE)>>)
    ELSE Truth(Apply(R, h, <<a, b>>), FALSE)

Ordered(R, a, b, strict) ==
    LET lt(x, y) == CompHandler(R, x, y, "__lt")
        le == CompHandler(R, a, b, "__le")
        answer == IF a.t = "num" THEN a.v < b.v \/ (~ strict /\ a.v = b.v)
                  ELSE Less(a.v, b.v) \/ (~ strict /\ a.v = b.v)
    IN  IF a.t # b.t THEN Fail(R, "compare")
        ELSE IF a.t \in {"num", "str"} THEN Vals(R, <<Bool(answer)>>)
        ELSE IF strict THEN Truth(Handled(R, lt(a, b), <<a, b>>, "compare"), FALSE)
        ELSE IF le.t # "nil" THEN Truth(Apply(R, le, <<a, b>>), FALSE)
        ELSE Truth(Handled(R, lt(b, a), <<b, a>>, "compare"), TRUE)

Operate(R, op, a, b) ==
    CASE R.st # "ok" -> R
      [] op \in DOMAIN Arithmetic ->
           IF ToNumber(a) # {} /\ ToNumber(b) # {}
           THEN Vals(R, <<Num(NumOp(Arithmetic[op], Number(a), Number(b)))>>)
           ELSE Handled(R, BinHandler(R, a, b, ArithEvent[op]), <<a, b>>, "arithmetic")
      [] op = ".." ->
           IF Texts(a, b) THEN Vals(R, <<Str(Text(a) \o Text(b))>>)
           ELSE Handled(R, BinHandler(R, a, b, "__concat"), <<a, b>>, "concatenate")
      [] op = "==" -> Equal(R, a, b)
      [] op = "~=" -> Truth(Equal(R, a, b), TRUE)
      [] op = "<"  -> Ordered(R, a, b, TRUE)
      [] op = "<=" -> Ordered(R, a, b, FALSE)
      [] op = ">"  -> Ordered(R, b, a, TRUE)
      [] op = ">=" -> Ordered(R, b, a, FALSE)
Apply1(R, op, a) ==
    CASE R.st # "ok" -> R
      [] op = "not" -> Vals(R, <<Bool(IsFalse(a))>>)
      [] op = "-" -> IF ToNumber(a) # {} THEN Vals(R, <<Num(-Number(a))>>)
                     ELSE Handled(R, Handler(R, a, "__unm"), <<a, a>>, "arithmetic")
      [] op = "#" -> CASE a.t = "str" -> Vals(R, <<Num(Len(a.v))>>)
                       [] a.t = "table" -> Vals(R, <<Num(Border(R, a.v))>>)
                       [] OTHER -> Handled(R, Handler(R, a, "__len"), <<a, Nil>>, "length")

(* Section 2.5: expressions *)

RECURSIVE EvalAll(_, _, _)
EvalAll(es, env, R) ==
    IF es = << >> THEN Vals(R, << >>)
    ELSE LET A == EvalAll(Front(es), env, R)
             last == Eval(Last(es), env, A)
         IN  Vals(last, [i \in DOMAIN Front(es) |-> A.vals[i]] \o last.vals)

\* Only the last expression of a list gives all its values.
EvalList(es, env, R) ==
    EvalAll([i \in DOMAIN es |-> IF i = Len(es) THEN es[i] ELSE Paren(es[i])], env, R)

Invoke(R, f, args, env) == LET A == EvalList(args, env, R) IN Apply(A, f, A.vals)

Construct(items, env, R) ==
    LET Add(X, i) ==
            LET item == items[i]
                t == X[2]
                K == First(Eval(item.i, env, X[1]))
                P == First(Eval(item.v, env, K))
                E == Eval(item.v, env, X[1])
                vs == IF i = Len(items) THEN E.vals ELSE <<V(E)>>
                Put(Q, j) == RawSet(Q, t, Num(X[3] + j), vs[j])
            IN  IF X[1].st # "ok" THEN X
                ELSE IF item.k = "pair"
                THEN <<IF P.st = "ok" THEN RawSet(P, t, V(K), V(P)) ELSE P, t, X[3]>>
                ELSE <<IF E.st = "ok" THEN FoldLeftDomain(Put, E, vs) ELSE E, t, X[3] + 1>>
        N == NewTable(R, << >>)
        Z == FoldLeftDomain(Add, <<N, V(N).v, 0>>, items)
    IN  Vals(Z[1], N.vals)

Eval(e, env, R) ==
    IF R.st # "ok" THEN R ELSE
    CASE e.k = "nil" -> Vals(R, <<Nil>>)
      [] e.k \in {"true", "false"} -> Vals(R, <<Bool(e.k = "true")>>)
      [] e.k = "num" -> Vals(R, <<Num(e.v)>>)
      [] e.k = "str" -> Vals(R, <<Str(e.v)>>)
      [] e.k = "..." -> Vals(R, env.va)
      [] e.k = "name" ->
           IF Places(env, e.v) # {} THEN Vals(R, <<R.store[PlaceOf(env, e.v)]>>)
           ELSE Index(R, [t |-> "table", v |-> 1], Str(e.v), 0)
      [] e.k = "paren" -> First(Eval(e.e, env, R))
      [] e.k = "function" ->
           Vals([R EXCEPT !.funs = Append(@, [f |-> e, env |-> env])],
                <<[t |-> "function", v |-> Len(R.funs) + 1]>>)
      [] e.k = "table" -> Construct(e.items, env, R)
      [] e.k = "call" -> LET F == First(Eval(e.f, env, R)) IN Invoke(F, V(F), e.args, env)
      [] e.k = "method" ->
           LET O == First(Eval(e.o, env, R))
               F == Index(O, V(O), Str(e.name), 0)
               A == EvalList(e.args, env, F)
           IN  Apply(A, V(F), <<V(O)>> \o A.vals)
      [] e.k = "index" ->
           LET O == First(Eval(e.o, env, R))
               K == First(Eval(e.i, env, O))
           IN  IF K.st # "ok" THEN K ELSE Index(K, V(O), V(K), 0)
      [] e.k = "un" -> LET E == First(Eval(e.e, env, R)) IN Apply1(E, e.op, V(E))
      [] e.k = "bin" ->
           LET A == First(Eval(e.l, env, R))
               B == First(Eval(e.r, env, A))
               short == IF e.op = "and" THEN IsFalse(V(A)) ELSE ~ IsFalse(V(A))
           IN  IF e.op \in {"and", "or"} THEN IF A.st # "ok" \/ short THEN A ELSE B
               ELSE IF B.st # "ok" THEN B ELSE Operate(B, e.op, V(A), V(B))

Outcome(R, r) == IF r.err # "" THEN Fail(R, r.err) ELSE Vals(R, r.vals)

\* Section 2.5.8, and the functions of the library that programs call.
Apply(R, f, args) ==
    IF R.st # "ok" THEN R ELSE
    CASE f.t = "function" ->
           LET c == R.funs[f.v]
               n == Len(c.f.ps)
               extra == IF c.f.va /\ Len(args) > n THEN SubSeq(args, n + 1, Len(args)) ELSE << >>
               A == NewTable(R, [i \in DOMAIN extra |-> [k |-> Num(i), v |-> extra[i]]]
                                  \o <<[k |-> Str("n"), v |-> Num(Len(extra))]>>)
               B == Bind([c.env EXCEPT !.va = extra], IF c.f.va THEN A ELSE R,
                         c.f.ps \o IF c.f.va THEN <<"arg">> ELSE << >>,
                         Adjusted(args, n) \o IF c.f.va THEN <<V(A)>> ELSE << >>)
               X == Run(c.f.body, B[2], B[1])[1]
           IN  CASE X.st = "return" -> [X EXCEPT !.st = "ok"]
                 [] X.st = "ok" -> Vals(X, << >>)
                 [] OTHER -> X
      [] f.t = "cfunction" /\ f.v = "emit" -> Vals([R EXCEPT !.out = @ \o args], << >>)
      [] f.t = "cfunction" /\ f.v = "error" -> Raise(R, IF args = << >> THEN Nil ELSE args[1])
      [] f.t = "cfunction" /\ f.v = "pcall" ->
           LET C == Apply(R, args[1], Tail(args)) IN
           IF args = << >> THEN Fail(R, "value expected")
           ELSE IF C.st = "error" THEN [C EXCEPT !.st = "ok", !.vals = <<Bool(FALSE)>> \o @]
           ELSE Vals(C, <<Bool(TRUE)>> \o C.vals)
      [] f.t = "cfunction" /\ f.v = "setmetatable" ->
           IF Len(args) < 2 THEN Fail(R, "table expected")
           ELSE IF args[1].t # "table" \/ args[2].t \notin {"nil", "table"} THEN Fail(R, "table expected")
           ELSE Vals([R EXCEPT !.tabs[args[1].v].mt = IF args[2].t = "nil" THEN 0 ELSE args[2].v],
                     <<args[1]>>)
      [] f.t = "cfunction" /\ f.v \in Patterns!StringFunctions -> Outcome(R, Patterns!OfStrings(f.v, args))
      [] f.t = "cfunction" /\ f.v = "gmatch" ->
           LET wrong == Patterns!Expected(args, <<"string", "string">>) IN
           IF wrong # "" THEN Fail(R, wrong)
           ELSE Vals([R EXCEPT !.iterators = Append(@, [s |-> args[1], p |-> args[2], at |-> 1])],
                     <<[t |-> "cclosure", v |-> Len(R.iterators) + 1]>>)
      [] f.t = "cclosure" ->
           LET it == R.iterators[f.v]
               s == Patterns!Text(it.s)
               F == Patterns!FirstMatch(s, Patterns!Text(it.p), it.at, FALSE)
               way == F[1].way
               next == IF F = << >> THEN Len(s) + 2 ELSE IF way.at = F[1].from THEN way.at + 1 ELSE way.at
           IN  IF F # << >> /\ way.err # "" THEN Fail(R, way.err)
               ELSE Outcome([R EXCEPT !.iterators[f.v].at = next],
                            IF F = << >> THEN Patterns!Fine(<< >>)
                            ELSE Patterns!Captures(s, Patterns!Whole(F[1].from, way)))
      [] f.t = "cfunction" /\ f.v = "gsub" ->
           LET wrong == Patterns!Expected(args, <<"string", "string">>) IN
           IF wrong # "" THEN Fail(R, wrong)
           ELSE IF Patterns!Given(args, 4) /\ ToNumber(args[4]) = {} THEN Fail(R, "number expected")
           ELSE IF Len(args) < 3 THEN Fail(R, "string/function/table expected")
           ELSE IF args[3].t \notin {"str", "num", "table"} /\ ~ Function(args[3])
           THEN Fail(R, "string/function/table expected")
           ELSE Replaced(R, args, 1, 0, "")
      [] OTHER ->
           LET h == Handler(R, f, "__call") IN
           IF h.t = "nil" THEN Fail(R, "call") ELSE Apply(R, h, <<f>> \o args)

\* The rest of string.gsub from the place at on, after n replacements.
Replaced(R, args, at, n, out) ==
    LET s == Patterns!Text(args[1])
        p == Patterns!Text(args[2])
        r == args[3]
        anchored == Patterns!At(p, 1) = "^"
        ways == Patterns!Ways(p, IF anchored THEN 2 ELSE 1, s, at, << >>)
        way == ways[1]
        caps == Patterns!Captures(s, Patterns!Whole(at, way))
        key == Patterns!Captures(s, <<Patterns!Whole(at, way)[1]>>)
        Q == CASE r.t \in {"str", "num"} -> Outcome(R, Patterns!Expanded(s, at, way, Patterns!Text(r)))
               [] r.t = "table" -> IF key.err # "" THEN Fail(R, key.err) ELSE Index(R, r, key.vals[1], 0)
               [] OTHER -> IF caps.err # "" THEN Fail(R, caps.err) ELSE First(Apply(R, r, caps.vals))
        text == IF IsFalse(V(Q)) THEN Patterns!Between(s, at, way.at) ELSE Text(V(Q))
        Stop(X, from, m, o) == Vals(X, <<Str(o \o Patterns!Between(s, from, Len(s) + 1)), Num(m)>>)
        Go(X, from, m, o) == IF anchored THEN Stop(X, from, m, o) ELSE Replaced(X, args, from, m, o)
    IN  CASE Patterns!Given(args, 4) /\ n >= Number(args[4]) -> Stop(R, at, n, out)
          [] ways = << >> -> IF at > Len(s) THEN Stop(R, at, n, out) ELSE Go(R, at + 1, n, out \o s[at])
          [] ways # << >> /\ way.err # "" -> Fail(R, way.err)
          [] OTHER ->
               IF Q.st # "ok" THEN Q
               ELSE IF ~ IsFalse(V(Q)) /\ V(Q).t \notin {"str", "num"} THEN Fail(Q, "invalid replacement value")
               ELSE IF way.at > at THEN Go(Q, way.at, n + 1, out \o text)
               ELSE IF at > Len(s) THEN Stop(Q, at, n + 1, out \o text)
               ELSE Go(Q, at + 1, n + 1, out \o text \o s[at])

(* Section 2.4: statements *)

Store(R, target, place, v) ==
    CASE R.st # "ok" -> R
      [] target.k = "index" -> SetIndex(R, place[1], place[2], v, 0)
      [] place # 0 -> [R EXCEPT !.store[place] = v]
      [] OTHER -> SetIndex(R, [t |-> "table", v |-> 1], Str(target.v), v, 0)

\* The expressions in the targets come first; then the values; the order of
\* the assignments is undefined, and here it is from the last to the first.
AssignAll(s, env, R) ==
    LET Place(X, t) ==
            LET O == First(Eval(t.o, env, X[1]))
                K == First(Eval(t.i, env, O))
            IN  IF t.k = "index" THEN <<K, Append(X[2], <<V(O), V(K)>>)>>
                ELSE <<X[1], Append(X[2], IF Places(env, t.v) # {} THEN PlaceOf(env, t.v) ELSE 0)>>
        P == FoldLeft(Place, <<R, << >>>>, s.ts)
        E == EvalList(s.es, env, P[1])
        n == Len(s.ts)
        vs == Adjusted(E.vals, n)
    IN  FoldLeft(LAMBDA Q, i : Store(Q, s.ts[i], P[2][i], vs[i]), E, [i \in 1 .. n |-> n + 1 - i])

Broken(R) == IF R.st = "break" THEN [R EXCEPT !.st = "ok"] ELSE R
Block(b, env, R) == Run(b, env, R)[1]

RECURSIVE Loop(_, _, _), Count(_, _, _, _, _, _), Iterate(_, _, _, _, _, _)
Loop(s, env, R) ==
    LET C == First(Eval(s.c, env, R))
        B == Block(s.b, env, C)
        X == Run(s.b, env, R)
        U == First(Eval(s.c, X[2], X[1]))
    IN  IF s.k = "while"
        THEN IF C.st # "ok" \/ IsFalse(V(C)) THEN C
             ELSE IF B.st = "ok" THEN Loop(s, env, B) ELSE Broken(B)
        ELSE IF X[1].st # "ok" THEN Broken(X[1])
             ELSE IF U.st # "ok" \/ ~ IsFalse(V(U)) THEN U ELSE Loop(s, env, U)
Count(s, env, R, i, limit, step) ==
    LET X == Bind(env, R, <<s.n>>, <<Num(i)>>)
        B == Block(s.b, X[2], X[1])
    IN  IF IF step > 0 THEN i > limit ELSE i < limit THEN R
        ELSE IF B.st # "ok" THEN Broken(B) ELSE Count(s, env, B, i + step, limit, step)
Iterate(s, env, R, f, state, control) ==
    LET C == Apply(R, f, <<state, control>>)
        X == Bind(env, C, s.ns, C.vals)
        B == Block(s.b, X[2], X[1])
    IN  IF C.st # "ok" \/ V(C).t = "nil" THEN C
        ELSE IF B.st # "ok" THEN Broken(B) ELSE Iterate(s, env, B, f, state, V(C))

Stat(s, env, R) ==
    LET E == EvalList(s.es, env, R)
        F == Eval(s.f, env, Bind(env, R, <<s.n>>, << >>)[1])
        LF == Bind(env, R, <<s.n>>, << >>)
        G == Eval(s.f, LF[2], LF[1])
        C == First(Eval(s.c, env, R))
        A == EvalList(<<s.a, s.z>> \o s.step, env, R)
        bounds == Adjusted(A.vals, 2 + Len(s.step)) \o IF s.step = << >> THEN <<Num(1)>> ELSE << >>
    IN  CASE R.st # "ok" -> <<R, env>>
          [] s.k = "local" -> IF E.st # "ok" THEN <<E, env>> ELSE Bind(env, E, s.ns, E.vals)
          [] s.k = "localfn" -> <<[G EXCEPT !.store[PlaceOf(LF[2], s.n)] = V(G)], LF[2]>>
          [] s.k = "assign" -> <<AssignAll(s, env, R), env>>
          [] s.k \in {"call", "method"} -> <<Eval(s, env, R), env>>
          [] s.k = "do" -> <<Block(s.b, env, R), env>>
          [] s.k \in {"while", "repeat"} -> <<Loop(s, env, R), env>>
          [] s.k = "if" -> <<IF C.st # "ok" THEN C ELSE Block(IF IsFalse(V(C)) THEN s.e ELSE s.b, env, C), env>>
          [] s.k = "for" ->
               <<IF A.st # "ok" THEN A
                 ELSE IF \E i \in 1 .. 3 : ToNumber(bounds[i]) = {} THEN Fail(A, "for")
                 ELSE Count(s, env, A, Number(bounds[1]), Number(bounds[2]), Number(bounds[3])), env>>
          [] s.k = "forin" ->
               <<IF E.st # "ok" THEN E
                 ELSE LET vs == Adjusted(E.vals, 3) IN Iterate(s, env, E, vs[1], vs[2], vs[3]), env>>
          [] s.k = "return" -> <<IF E.st = "ok" THEN [E EXCEPT !.st = "return"] ELSE E, env>>
          [] s.k = "break" -> <<[R EXCEPT !.st = "break"], env>>

Run(b, env, R) == FoldLeft(LAMBDA x, s : Stat(s, x[2], x[1]), <<R, env>>, b)

\* Programs that the grammar generates and that the compiler must accept: break
\* is in a loop, `...' in a function that has it, both return and break end a
\* block, and only variables are assigned to.
RECURSIVE WellFormed(_, _, _)
WellFormedBlock(b, inloop, va) ==
    \A i \in DOMAIN b : WellFormed(b[i], inloop, va) /\ (b[i].k \in {"return", "break"} => i = Len(b))
WellFormed(n, inloop, va) ==
    LET All(ns) == \A i \in DOMAIN ns : WellFormed(ns[i], inloop, va)
        Inner(b) == WellFormedBlock(b, inloop, va)
        Loops(b) == WellFormedBlock(b, TRUE, va)
    IN  CASE n.k = "..." -> va
          [] n.k = "break" -> inloop
          [] n.k \in {"nil", "true", "false", "num", "str", "name"} -> TRUE
          [] n.k = "bin" -> All(<<n.l, n.r>>)
          [] n.k \in {"un", "paren"} -> All(<<n.e>>)
          [] n.k = "call" -> All(<<n.f>> \o n.args)
          [] n.k = "method" -> All(<<n.o>> \o n.args)
          [] n.k = "index" -> All(<<n.o, n.i>>)
          [] n.k = "function" -> WellFormedBlock(n.body, FALSE, n.va)
          [] n.k = "table" -> All(n.items)
          [] n.k = "item" -> All(<<n.v>>)
          [] n.k = "pair" -> All(<<n.i, n.v>>)
          [] n.k \in {"local", "return"} -> All(n.es)
          [] n.k = "localfn" -> All(<<n.f>>)
          [] n.k = "assign" -> All(n.ts \o n.es) /\ \A i \in DOMAIN n.ts : n.ts[i].k \in {"name", "index"}
          [] n.k = "do" -> Inner(n.b)
          [] n.k \in {"while", "repeat"} -> All(<<n.c>>) /\ Loops(n.b)
          [] n.k = "if" -> All(<<n.c>>) /\ Inner(n.b) /\ Inner(n.e)
          [] n.k = "for" -> All(<<n.a, n.z>> \o n.step) /\ Loops(n.b)
          [] n.k = "forin" -> All(n.es) /\ Loops(n.b)

\* What a chunk does: its output, how it ends and its values or its error.
Library == <<"emit", "error", "pcall", "setmetatable">>
StringNames == <<"find", "match", "gmatch", "gsub", "sub", "rep", "len", "reverse", "lower", "upper">>
Meaning(b) ==
    LET Functions(names) == [i \in DOMAIN names |->
                                [k |-> Str(names[i]), v |-> [t |-> "cfunction", v |-> names[i]]]]
        Items(items) == [items |-> items, mt |-> 0]
        strings == [t |-> "table", v |-> 2]
        R == [store |-> << >>, funs |-> << >>, iterators |-> << >>,
              tabs |-> <<Items(Append(Functions(Library), [k |-> Str("string"), v |-> strings])),
                         Items(Append(Functions(StringNames), [k |-> Str("gfind"), v |-> Functions(<<"gmatch">>)[1].v])),
                         Items(<<[k |-> Str("__index"), v |-> strings]>>)>>,
              out |-> << >>, st |-> "ok", vals |-> << >>]
        X == Block(b, [vars |-> << >>, va |-> << >>], R)
    IN  IF ~ WellFormedBlock(b, FALSE, TRUE) THEN [output |-> << >>, status |-> "rejected", values |-> << >>]
        ELSE [output |-> X.out, status |-> IF X.st = "error" THEN "error" ELSE "done",
         values |-> IF X.st = "ok" THEN << >> ELSE X.vals]
=============================================================================
