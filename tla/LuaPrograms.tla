---------------------------- MODULE LuaPrograms -----------------------------
(***************************************************************************)
(* The programs on which the Lua compiler and machine are run.             *)
(***************************************************************************)
EXTENDS LuaStringPrograms

Compiler == INSTANCE LuaParser
Lexer == INSTANCE LuaLexer
Literal == INSTANCE LuaTexts

x == Var("x")
y == Var("y")
z == Var("z")
f == Var("f")
g == Var("g")
t == Var("t")
self == Var("self")
One == NumX(1)
Emit(es) == CallX(Var("emit"), es)
Call(fn, args) == CallX(fn, args)
L1(n, e) == Local(<<n>>, <<e>>)
Set(v, e) == Assign(<<v>>, <<e>>)
Plus(a, b) == Bin("+", a, b)
Cat(a, b) == Bin("..", a, b)
Key(o, k) == Idx(o, StrX(k))
Fn0(body) == Fn(<< >>, FALSE, body)
Pcall(fn, args) == CallX(Var("pcall"), <<fn>> \o args)
Meta(a, b) == CallX(Var("setmetatable"), <<a, b>>)

(* Programs written out *)

Loops == <<
    Local(<<"x", "y">>, <<One, NumX(2)>>),
    Emit(<<Plus(x, Bin("*", y, NumX(3))), Cat(x, Cat(StrX("a"), y))>>),
    While(Bin("<", x, NumX(4)), <<Set(x, Plus(x, One)),
        If(Bin("==", x, NumX(3)), <<Emit(<<x>>), Break>>, << >>)>>),
    For("i", One, NumX(3), << >>, <<
        For("j", NumX(3), One, <<Un("-", One)>>, <<
            If(Bin("==", Var("i"), Var("j")), <<Break>>, <<Emit(<<Var("i"), Var("j")>>)>>)>>)>>),
    Repeat(<<L1("z", x), Set(x, Plus(x, One))>>, Bin(">", z, NumX(3))),
    Ret(<<x, y>>)>>

\* Each turn of a loop has its own variable; break leaves blocks with upvalues.
Closures == <<
    Local(<<"t">>, <<Tab(<< >>)>>),
    For("i", One, NumX(3), << >>, <<
        L1("x", Var("i")),
        Set(Idx(t, Var("i")), Fn0(<<Set(x, Plus(x, One)), Ret(<<Plus(x, Var("i"))>>)>>)),
        If(Bin("==", Var("i"), NumX(2)), <<Break>>, << >>)>>),
    Emit(<<Call(Idx(t, One), << >>), Call(Idx(t, One), << >>), Call(Idx(t, NumX(2)), << >>)>>),
    Local(<<"f">>, << >>), L1("x", NumX(0)),
    Repeat(<<L1("y", x), Set(x, Plus(x, One)),
             If(Bin("==", y, One), <<Set(f, Fn0(<<Ret(<<y>>)>>))>>, << >>)>>,
           Bin("==", y, NumX(3))),
    Emit(<<Call(f, << >>)>>)>>
Recursion == <<
    Local(<<"f", "x">>, <<NIL, One>>),
    Repeat(<<L1("y", x), Set(f, Fn0(<<Set(y, Plus(y, x)), Ret(<<y>>)>>)),
             If(Bin("==", x, NumX(5)), <<Break>>, << >>), Set(x, Plus(x, One))>>, FALSEX),
    Emit(<<Call(f, << >>), Call(f, << >>)>>),
    LocalFn("g", Fn(<<"n">>, FALSE, <<
        If(Bin("==", Var("n"), NumX(0)), <<Ret(<<Fn0(<<Ret(<<Var("n"), x>>)>>)>>)>>, << >>),
        Ret(<<Call(g, <<Bin("-", Var("n"), One)>>)>>)>>)),
    Emit(<<Call(Call(g, <<NumX(3)>>), << >>)>>)>>

Assignments == <<
    Local(<<"x", "y", "z">>, <<One, NumX(2)>>),
    Assign(<<x, y>>, <<y, x>>),
    Emit(<<x, y, z>>),
    L1("t", Tab(<<Item(NumX(10)), Item(NumX(11)), Item(NumX(12)), Pair(StrX("a"), x)>>)),
    Assign(<<x, Idx(t, x)>>, <<One, NumX(7)>>),
    Emit(<<x, Idx(t, NumX(2)), Un("#", t), Key(t, "a")>>),
    Assign(<<t, Key(t, "b"), z>>, <<NumX(3), t>>),
    Emit(<<t, z>>),
    LocalFn("f", Fn(<<"a">>, TRUE, <<Ret(<<DOTS, Var("a"), DOTS>>)>>)),
    Assign(<<x, y>>, <<Call(f, <<One, NumX(2), NumX(3)>>)>>),
    Emit(<<x, y, Call(f, <<One>>), Paren(Call(f, <<One, NumX(2)>>)), Call(f, <<NumX(4), NumX(5)>>)>>),
    Assign(<<x, y, z>>, <<Call(f, <<One>>), Call(f, <<NumX(2)>>), Call(f, <<NumX(3), NumX(4)>>), One>>),
    Emit(<<x, y, z>>),
    Assign(<<Var("u"), Var("v")>>, <<One>>),
    Emit(<<Var("u"), Var("v")>>)>>

Constructors == <<
    LocalFn("f", Fn(<< >>, TRUE, <<Ret(<<DOTS>>)>>)),
    L1("t", Tab(<<Item(One), Item(NumX(2)), Item(NumX(3)), Pair(NumX(9), NumX(4)), Item(NumX(5)),
                  Item(Call(f, <<NumX(6), NumX(7), NumX(8)>>))>>)),
    For("i", One, NumX(9), << >>, <<Emit(<<Idx(t, Var("i"))>>)>>),
    L1("u", Tab(<<Item(One), Item(Call(f, <<NumX(2), NumX(3)>>)), Item(Call(f, << >>))>>)),
    Emit(<<Un("#", Var("u")), Idx(Var("u"), NumX(2))>>)>>
Varargs == <<
    LocalFn("g", Fn(<<"a">>, TRUE, <<Ret(<<Key(Var("arg"), "n"), Idx(Var("arg"), NumX(2)), Var("a")>>)>>)),
    Emit(<<Call(g, <<One, NumX(2), NumX(3)>>)>>),
    Emit(<<Call(g, << >>), Key(Tab(<<Pair(StrX("a"), Tab(<<Item(DOTS)>>))>>), "a")>>),
    Emit(<<Cat(One, Cat(StrX("a"), Cat(StrX(""), NumX(2)))), Un("#", Cat(StrX("a"), StrX("b"))),
           Plus(StrX("2"), NumX(3)), Un("-", StrX("2"))>>)>>

Methods == <<
    L1("C", Tab(<<Pair(StrX("n"), NumX(5))>>)),
    Set(Key(Var("C"), "add"), Fn(<<"self", "k">>, FALSE,
        <<Set(Key(self, "n"), Plus(Key(self, "n"), Var("k"))), Ret(<<self>>)>>)),
    Set(Key(Var("C"), "__index"), Var("C")),
    L1("x", Meta(Tab(<< >>), Var("C"))),
    Method(Method(x, "add", <<One>>), "add", <<NumX(2)>>),
    Emit(<<Key(x, "n"), Key(Var("C"), "n"), Key(x, "m")>>),
    Set(Key(Var("C"), "m"), NumX(4)),
    Emit(<<Key(x, "m")>>),
    Set(Key(Var("C"), "__index"), Fn(<<"o", "k">>, FALSE, <<Emit(<<Var("k")>>), Ret(<<NumX(6), One>>)>>)),
    Emit(<<Key(x, "z"), Method(x, "add", << >>)>>)>>

\* The absence of a metamethod is remembered only until the table changes.
Absent == <<
    Local(<<"x", "y">>, <<Tab(<< >>), Tab(<< >>)>>),
    Meta(x, y),
    Emit(<<Key(x, "a"), Bin("==", x, Meta(Tab(<< >>), y))>>),
    Set(Key(x, "b"), One),
    Set(Key(y, "__index"), Tab(<<Pair(StrX("a"), NumX(2))>>)),
    Emit(<<Key(x, "a"), Key(x, "b")>>),
    Set(Key(y, "__newindex"), Fn(<<"o", "k", "v">>, FALSE, <<Emit(<<Var("k"), Var("v")>>)>>)),
    Assign(<<Key(x, "c"), Key(x, "b")>>, <<NumX(3), NumX(4)>>),
    Emit(<<Key(x, "c"), Key(x, "b")>>),
    Set(Key(y, "__newindex"), y),
    Set(Key(x, "d"), NumX(5)),
    Emit(<<Key(y, "d"), Key(x, "d")>>),
    Set(Key(y, "__eq"), Fn0(<<Ret(<<One>>)>>)),
    Emit(<<Bin("==", x, Meta(Tab(<< >>), y)), Bin("~=", x, y), Bin("==", x, One)>>)>>

Op(name, body) == Pair(StrX(name), Fn(<<"a", "b">>, FALSE, body))
Metamethods == <<
    L1("M", Tab(<<Op("__add", <<Ret(<<NumX(1), NumX(2)>>)>>),
                  Op("__concat", <<Ret(<<StrX("a")>>)>>), Op("__len", <<Ret(<<NumX(7)>>)>>),
                  Op("__unm", <<Ret(<<Var("a")>>)>>), Op("__call", <<Ret(<<Var("b"), NumX(3)>>)>>),
                  Op("__lt", <<Emit(<<StrX("lt")>>), Ret(<<Bin("<", Key(Var("a"), "n"), Key(Var("b"), "n"))>>)>>)>>)),
    L1("x", Meta(Tab(<<Pair(StrX("n"), One)>>), Var("M"))),
    L1("y", Meta(Tab(<<Pair(StrX("n"), NumX(2))>>), Var("M"))),
    Emit(<<Plus(x, One), Plus(One, x), Cat(One, Cat(x, Cat(NumX(2), NumX(3)))), Cat(StrX("b"), Cat(One, y))>>),
    Emit(<<Call(x, <<NumX(4), NumX(5)>>)>>),
    Emit(<<Bin("<", x, y), Bin(">", x, y), Bin("<=", x, y), Bin(">=", x, y), Bin("==", Un("-", x), x)>>),
    If(Un("not", Bin("<", x, y)), <<Emit(<<StrX("no")>>)>>, <<Emit(<<StrX("yes")>>)>>),
    Set(Key(Var("M"), "__le"), Fn(<<"a", "b">>, FALSE, <<Ret(<<NIL>>)>>)),
    Emit(<<Bin("<=", x, y), Un("#", StrX("ab"))>>),
    Ret(<<Call(x, <<NumX(9)>>)>>)>>

Iterators == <<
    LocalFn("f", Fn(<<"s", "i">>, FALSE,
        <<If(Bin("<", Var("i"), Var("s")), <<Ret(<<Plus(Var("i"), One), Fn0(<<Ret(<<Var("i")>>)>>)>>)>>, << >>)>>)),
    L1("t", Tab(<< >>)),
    ForIn(<<"i", "v", "w">>, <<f, NumX(4), NumX(0)>>, <<
        Set(Idx(t, Var("i")), Fn0(<<Ret(<<Call(Var("v"), << >>), Var("i"), Var("w")>>)>>)),
        If(Bin("==", Var("i"), NumX(3)), <<Break>>, << >>)>>),
    Emit(<<Call(Idx(t, One), << >>), Call(Idx(t, NumX(3)), << >>), Idx(t, NumX(4))>>)>>
CalledIterators == <<
    ForIn(<<"i">>, <<Var("emit"), One>>, <<Emit(<<Var("i")>>)>>),
    L1("f", Fn(<<"o", "s", "c">>, FALSE, <<If(Bin("==", Var("c"), NIL), <<Ret(<<Var("s")>>)>>, << >>)>>)),
    L1("x", Meta(Tab(<< >>), Tab(<<Pair(StrX("__call"), f)>>))),
    ForIn(<<"i">>, <<x, NumX(8)>>, <<Emit(<<Var("i")>>)>>)>>

\* An error closes the upvalues of the calls that it leaves.
Errors == <<
    Local(<<"g">>, << >>),
    L1("f", Fn(<<"a">>, FALSE, <<
        L1("x", Var("a")), Set(g, Fn0(<<Set(x, Plus(x, One)), Ret(<<x>>)>>)),
        Emit(<<Call(g, << >>)>>), Call(Var("error"), <<x>>)>>)),
    Emit(<<Pcall(f, <<One>>)>>), Local(<<"x", "y", "z">>, <<NumX(9), NumX(9), NumX(9)>>),
    Emit(<<Call(g, << >>), x, Pcall(g, << >>), Pcall(Var("pcall"), <<f, NumX(5)>>)>>),
    Emit(<<Pcall(NumX(3), << >>), Pcall(Var("pcall"), << >>), Pcall(Var("setmetatable"), <<One, One>>),
           Pcall(Var("error"), << >>), Pcall(Var("setmetatable"), <<One>>)>>),
    Call(NIL, << >>)>>

Failures == <<
    <<Ret(<<Plus(Tab(<< >>), One)>>)>>, <<Ret(<<Bin("<", One, StrX("a"))>>)>>, <<Ret(<<Un("#", NumX(5))>>)>>,
    <<Ret(<<Key(Var("nothing"), "a")>>)>>, <<Ret(<<Cat(Tab(<< >>), One)>>)>>,
    <<For("i", One, Tab(<< >>), << >>, << >>)>>, <<Set(Idx(Tab(<< >>), NIL), One)>>, <<Set(Key(One, "a"), One)>>>>
Caught(body) == <<L1("f", Fn0(body)), Emit(<<Pcall(f, << >>)>>), Call(f, << >>)>>

\* Tables that are their own metatables.
Endless == <<
    L1("t", Tab(<< >>)), Set(Key(t, "__index"), t), Set(Key(t, "__newindex"), t), Call(Var("setmetatable"), <<t, t>>),
    L1("f", Fn0(<<Set(Key(t, "b"), One)>>)), Emit(<<Pcall(f, << >>)>>),
    Ret(<<Key(t, "a")>>)>>

\* The operands of / and % fold only when the divisor is not zero; unary minus
\* binds less than a power.
Numbers == <<
    L1("x", NumX(3)),
    Emit(<<Bin("%", Un("-", NumX(5)), NumX(3)), Bin("%", NumX(5), Un("-", x)), Bin("/", NumX(6), NumX(3)),
           Bin("/", NumX(12), x), Un("-", Bin("^", NumX(2), NumX(2))), Bin("^", Un("-", x), NumX(2)),
           Bin("-", NumX(7), Bin("-", NumX(4), One)), Bin("^", NumX(2), Bin("^", NumX(3), NumX(2))),
           Bin("^", NumX(2), Un("-", Un("-", x)))>>),
    Emit(<<Un("not", NIL), Un("not", One), Un("not", Un("not", x)), Un("not", FALSEX), NIL, TRUEX,
           Bin("==", NIL, Var("nothing")), Bin("~=", FALSEX, NIL), Bin("==", StrX("a"), StrX("a")),
           Bin("<", StrX("a"), StrX("ab")), Bin("<=", StrX("b"), StrX("a")), Bin(">", StrX("b"), StrX("a")),
           Bin("or", NIL, FALSEX), Bin("and", One, NIL), Bin("or", FALSEX, Bin("and", TRUEX, StrX("a")))>>),
    Do(<<L1("y", x), Local(<<"z">>, << >>), Emit(<<y, z>>)>>)>>
Constants == <<
    L1("x", NumX(3)),
    If(NIL, <<Emit(<<One>>)>>, << >>), While(FALSEX, <<Emit(<<One>>)>>),
    For("i", StrX("1"), StrX("2"), <<One>>, <<Emit(<<Var("i")>>)>>),
    LocalFn("f", Fn(<<"a">>, TRUE, <<Ret(<<DOTS>>)>>)),
    Ret(<<Call(f, <<x, One>>), Call(f, <<One, NumX(2), NumX(3)>>)>>)>>

\* Tail calls of functions of both kinds, of values with __call and by pcall.
TailCalls == <<
    Local(<<"g">>, << >>),
    L1("f", Fn(<<"n">>, TRUE, <<
        L1("x", Var("n")), Set(g, Fn0(<<Ret(<<x>>)>>)),
        If(Bin("==", x, NumX(0)), <<Ret(<<DOTS>>)>>, << >>),
        Ret(<<Call(Var("h"), <<Bin("-", x, One), x, DOTS>>)>>)>>)),
    Set(Var("h"), f),
    Emit(<<Call(f, <<NumX(3)>>), Call(g, << >>)>>),
    L1("p", Fn(<<"k">>, FALSE, <<Ret(<<Pcall(Var("h"), <<Var("k"), One>>)>>)>>)),
    Emit(<<Call(Var("p"), <<One>>)>>),
    Ret(<<Pcall(Var("p"), <<NIL>>)>>)>>
TailCallsOfC == <<
    L1("q", Fn0(<<Ret(<<Call(Var("emit"), <<NumX(3)>>)>>)>>)),
    Emit(<<Call(Var("q"), << >>)>>),
    L1("f", Fn(<<"o", "a">>, FALSE, <<Ret(<<Var("a"), One>>)>>)),
    L1("x", Meta(Tab(<< >>), Tab(<<Pair(StrX("__call"), f)>>))),
    L1("r", Fn(<< >>, TRUE, <<Ret(<<Call(x, <<DOTS>>)>>)>>)),
    Emit(<<Call(Var("r"), <<NumX(8)>>)>>),
    L1("s", Fn0(<<Ret(<<Pcall(Var("error"), <<One>>)>>)>>)),
    Emit(<<Pcall(Var("s"), << >>)>>)>>

Written == <<Loops, Closures, Recursion, Assignments, Constructors, Varargs, Methods, Absent, Metamethods,
             Iterators, CalledIterators, Errors, Endless, Numbers, Constants, TailCalls, TailCallsOfC>>

\* Programs that the compiler rejects, each next to one that it accepts.
IllFormed == <<
    <<Break>>,
    <<While(x, <<Set(f, Fn0(<<Break>>))>>)>>,
    <<While(x, <<Do(<<Break>>)>>)>>,
    <<Repeat(<<If(x, <<Break>>, << >>)>>, Fn0(<<Break>>))>>,
    <<Set(f, Fn0(<<Ret(<<DOTS>>)>>))>>,
    <<Set(f, Fn(<< >>, TRUE, <<Set(g, Fn0(<<L1("x", Tab(<<Item(DOTS)>>))>>))>>))>>,
    <<Set(f, Fn(<< >>, TRUE, <<Ret(<<DOTS>>)>>))>>,
    <<Ret(<<One>>), Set(x, One)>>,
    <<Do(<<Ret(<<One>>)>>), Set(x, One)>>,
    <<Assign(<<Paren(x)>>, <<One>>)>>,
    <<Assign(<<x, Call(f, << >>)>>, <<One>>)>>,
    <<Assign(<<x, Key(Paren(Tab(<< >>)), "a")>>, <<One>>)>>>>

(* Programs made from their parts *)

Product(Op2(_, _), as, bs) ==
    [i \in 1 .. Len(as) * Len(bs) |-> Op2(as[((i - 1) % Len(as)) + 1], bs[((i - 1) \div Len(as)) + 1])]
And(a, b) == Bin("and", a, b)
Or(a, b) == Bin("or", a, b)
Not(a) == Un("not", a)
NotAll(es) == [i \in DOMAIN es |-> Not(es[i])]

\* Conditions over a nil local, a false global and a comparison, and over a
\* constant.
Conditions(leaves) ==
    LET small == leaves \o NotAll(leaves) \o Product(And, leaves, leaves) \o Product(Or, leaves, leaves)
    IN  Product(And, small, small) \o Product(Or, small, small) \o NotAll(small)
AllConditions == Conditions(<<x, Bin("<", y, NumX(2))>>) \o Conditions(<<Var("no"), NumX(5)>>)
Decide(e) == <<
    Local(<<"x", "y">>, <<NIL, One>>), Set(Var("no"), FALSEX),
    L1("z", e), Emit(<<z>>),
    If(e, <<Emit(<<One>>)>>, <<Emit(<<NumX(2)>>)>>),
    Ret(<<Not(e), y>>)>>

Operators == <<"+", "-", "*", "^", "..", "<">>
Operations(a, b, c) ==
    LET n == Len(Operators)
        Of(i) == Operators[((i - 1) % n) + 1]
        And2(i) == Operators[(((i - 1) \div n) % n) + 1]
    IN  [i \in 1 .. n * n |-> Bin(Of(i), Bin(And2(i), a, b), c)]
          \o [i \in 1 .. n * n |-> Bin(Of(i), a, Bin(And2(i), b, c))]
          \o [i \in 1 .. n |-> Un("-", Bin(Of(i), a, b))] \o [i \in 1 .. n |-> Bin(Of(i), Un("-", a), b)]
Calculate(e) == <<
    L1("x", NumX(2)), Set(Var("u"), NumX(0)),
    L1("f", Fn0(<<Ret(<<e>>)>>)), Emit(<<Pcall(f, << >>)>>),
    L1("z", Fn0(<<L1("w", e), Emit(<<Var("w"), x>>)>>)), Ret(<<Pcall(z, << >>)>>)>>
AllOperations == Operations(x, NumX(3), Var("u")) \o Operations(One, NumX(3), NumX(2))

\* Bodies of loops with variables of their own, closures over them and breaks.
Parts == <<
    <<L1("y", x)>>,
    <<Set(g, Fn0(<<Set(y, Plus(y, One)), Ret(<<y>>)>>))>>,
    <<If(Bin("==", x, NumX(2)), <<Break>>, << >>)>>,
    <<Do(<<L1("z", y), Set(t, Fn0(<<Ret(<<z>>)>>)), If(Bin(">", z, One), <<Break>>, << >>)>>)>>>>
Bodies ==
    LET both == Product(LAMBDA a, b : a \o b, Parts, Parts)
    IN  both \o Product(LAMBDA a, b : a \o b, Parts, both)
Turns == <<Set(x, Plus(x, One))>>
Around(body, i) ==
    <<Local(<<"x", "y", "g", "t">>, <<NumX(0), NumX(7)>>)>> \o
    (CASE i = 1 -> <<While(Bin("<", x, NumX(3)), Turns \o body)>>
       [] i = 2 -> <<Repeat(Turns \o body, Or(Bin("==", y, NumX(3)), Bin(">", x, NumX(2))))>>
       [] i = 3 -> <<For("i", One, NumX(3), << >>, Turns \o body)>>) \o
    <<Emit(<<x, y>>), Emit(<<And(g, Call(g, << >>)), And(t, Call(t, << >>))>>),
      Emit(<<And(g, Call(g, << >>))>>)>>
AllBodies == Product(Around, Bodies, <<1, 2, 3>>)

Each(Op1(_), es) == [i \in DOMAIN es |-> Op1(es[i])]
Sources == Written \o Written \o IllFormed \o Each(Caught, Failures) \o Each(Decide, AllConditions)
             \o Each(Calculate, AllOperations) \o AllBodies \o StringPrograms \o PatternTests

(* Programs whose code does not do what the manual says, for a run of their own *)

\* Conditions over constants.
Constant == <<TRUEX, FALSEX, NIL, One>>
ConstantConditions ==
    LET pairs == Product(And, Constant, Constant) \o Product(Or, Constant, Constant)
        triples == Product(And, pairs, Constant) \o Product(Or, pairs, Constant)
    IN  Each(LAMBDA e : <<Ret(<<e>>)>>, triples \o Product(Or, triples, Constant))

(* What the compiler makes of them, and what they mean *)

\* The build's limits, and smaller ones for the constants that an instruction
\* can name and for the counts of a SETLIST.  Every other program has those.
Limits == [sBx |-> 131071, Bx |-> 262143, C |-> 511, RK |-> 255, stack |-> 250, levels |-> 200,
           vars |-> 200, upvals |-> 60, perFlush |-> 2]
LimitsOf(p) == IF p <= Len(Written) \/ p % 2 = 0 THEN Limits ELSE [Limits EXCEPT !.RK = 0, !.C = 1]
\* The programs written out reach the parser through the scanner, and so do the
\* texts; the others as tokens.
TokensOf(p, tree) ==
    IF p <= Len(Written) THEN Lexer!Tokens(Literal!Spelled(Unparse(tree))) ELSE Unparse(tree)
TokenLists ==
    LET trees == Sources
        texts == Literal!Texts
    IN  [p \in DOMAIN trees |-> TokensOf(p, trees[p])] \o [p \in DOMAIN texts |-> Lexer!Tokens(texts[p].text)]

Compiled == LET all == TokenLists IN [p \in DOMAIN all |-> Compiler!luaY_parser(all[p], LimitsOf(p))]
CompiledOf(trees) == [p \in DOMAIN trees |-> Compiler!luaY_parser(Unparse(trees[p]), Limits)]
MeantOf(trees) == [p \in DOMAIN trees |-> Meaning(trees[p])]
Meant ==
    LET trees == Sources
        texts == Literal!Texts
    IN  [p \in DOMAIN trees |-> Meaning(trees[p])] \o [p \in DOMAIN texts |-> texts[p].means]
=============================================================================
