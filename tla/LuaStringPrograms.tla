------------------------- MODULE LuaStringPrograms --------------------------
(***************************************************************************)
(* Programs that call the string library of Lua: patterns made of all      *)
(* pairs of items, the patterns of MoonWiki's scripts, and gsub and gmatch *)
(* with functions and tables that call them again or raise errors.         *)
(***************************************************************************)
EXTENDS LuaReference

Lib(name) == Idx(Var("string"), StrX(name))
Show(es) == CallX(Var("emit"), es)
Try(fn, args) == Show(<<CallX(Var("pcall"), <<fn>> \o args)>>)

(* Patterns *)

Matching(s, p) == <<
    Try(Lib("find"), <<StrX(s), StrX(p)>>),
    Try(Lib("match"), <<StrX(s), StrX(p), NumX(2)>>),
    Try(Lib("gsub"), <<StrX(s), StrX(p), StrX("<%1>")>>)>>
Twice(s, t, p) == <<
    Try(Lib("find"), <<StrX(s), StrX(p)>>), Try(Lib("gsub"), <<StrX(t), StrX(p), StrX("<%1>")>>)>>

Firsts == <<"a", "a*", ".-", "a?", "[ab]+", "[^%l]*", "(", "()", "^", "%b()", "%f[a]">>
Seconds == <<"b", "b-", ".+", "%A*", "[a-b]", ")", "%1", "$", "%bab", "%f[%w]", "%", "[a", "[]a]", "%f", "%2">>
Captured == <<"a*", ".-", "b?", "[ab]+", "()", "(b)">>
All2(Op2(_, _), as, bs) ==
    [i \in 1 .. Len(as) * Len(bs) |-> Op2(as[((i - 1) % Len(as)) + 1], bs[((i - 1) \div Len(as)) + 1])]
Pairs == All2(LAMBDA a, b : a \o b, Firsts, Seconds)
Captures == All2(LAMBDA a, b : "(" \o a \o ")" \o b \o "%1", Captured, Captured)
              \o All2(LAMBDA a, b : a \o "(" \o b \o ")$", Captured, Captured)
PatternTests ==
    [i \in DOMAIN Pairs |-> Twice("aab", "b(a)ab", Pairs[i])]
      \o [i \in DOMAIN Captures |-> Twice("abaab", "aab", Captures[i])]

\* HttpServer.lua, WikiFormatter.lua: requests, lines and links.
Scripts == <<
    <<"a:b\r\n\r\nc", "(.*\r\n\r\n)(.*)">>, <<"GET /a HTTP/1.0\r\n", "(%u+)%s+([^%s]+)%s+(HTTP/%d%.%d)%s+">>,
    <<"/v?p=a&b", "(%?.*)">>, <<"?a=b&c=&d;e=f", "([^=?&;]+)=([^;&%s]*)">>,
    <<"A-b : c d\r\nE:f", "([%a-_]+)%s*:%s*([^\r\n]+)">>, <<"a+b+", "%+">>, <<"%4a%5g", "%%(%x%x)">>,
    <<"a b.C", "[^A-Za-z0-9]">>, <<"x.tar.gz", ".([%a%d]+)$">>, <<" |a| b|  ", "^%s*(|.*|)%s*$">>,
    <<"|a||b|", "([^|]+)(|+)">>, <<" *a* ", "^%s*%*(.*)%*%s*$">>, <<"1.", "^(.).*">>, <<"  a ", "^%s*">>,
    <<"a  ", "%s*$">>, <<"http:a", "^%w+:">>, <<"(Ab *C", "([*s%(])(%u+%l+)">>, <<"parties", "ies$">>,
    <<"classes", "sses$">>, <<"boxes", "([Xx])es$">>, <<"cats", "([A-Za-rt-z])s$">>, <<"mess", "([A-Za-rt-z])s$">>,
    <<"a<<b<", "(<<+)">>, <<"a<b c>d", "<(%S.-)>">>, <<"&amp;&x", "&(%w%w-);">>, <<"---++ A", "^(%-%-%-%++ )(.*)$">>,
    <<"  1. a", "^([ ]+)(%d+%.?) ?">>, <<" ==a b== ", "([%s(])==([^%s].-[^%s])==([%s,.;:!?])">>,
    <<" ftp:a.b ", "([^%[])(%w+):([^%s<>\"]+[^%s.,!?;:)<=_*])([^%]])">>>>
Replace(s, p) == <<
    Try(Lib("gsub"), <<StrX(s), StrX(p), Fn(<<"a", "b">>, FALSE, <<Show(<<Var("a"), Var("b")>>), Ret(<<Var("b")>>)>>)>>),
    ForIn(<<"a", "b">>, <<CallX(Lib("gfind"), <<StrX(s), StrX(p)>>)>>, <<Show(<<Var("a"), Var("b")>>)>>)>>
ScriptTests == [i \in DOMAIN Scripts |-> Matching(Scripts[i][1], Scripts[i][2]) \o Replace(Scripts[i][1], Scripts[i][2])]

(* Programs *)

\* Replacements by functions and tables, one inside another.
Replacing == <<
    Local(<<"n", "f">>, <<NumX(0)>>),
    Local(<<"t">>, <<Tab(<<Pair(StrX("a"), NumX(7)), Pair(StrX("b"), FALSEX)>>)>>),
    Show(<<CallX(Lib("gsub"), <<StrX("abc"), StrX("%a"), Var("t")>>)>>),
    CallX(Var("setmetatable"), <<Var("t"), Tab(<<Pair(StrX("__index"), Fn(<<"t", "k">>, FALSE, <<
        Ret(<<CallX(Lib("gsub"), <<Var("k"), StrX("."), StrX("%0%0")>>)>>)>>))>>)>>),
    Show(<<Method(StrX("abca"), "gsub", <<StrX("(%a)()"), Var("t")>>)>>),
    Assign(<<Var("f")>>, <<Fn(<<"a">>, FALSE, <<
        Assign(<<Var("n")>>, <<Bin("+", Var("n"), NumX(1))>>),
        If(Bin("==", Var("a"), StrX("c")), <<CallX(Var("error"), <<Var("n")>>)>>, << >>),
        If(Bin("==", Var("a"), StrX("")), <<Ret(<<StrX("-")>>)>>, << >>),
        If(Bin("==", Var("a"), StrX("b")),
           <<Ret(<<Method(StrX("(b)"), "gsub", <<StrX("%W*"), Var("f")>>)>>)>>, << >>)>>)>>),
    Show(<<CallX(Lib("gsub"), <<StrX("aa"), StrX("a"), Fn(<< >>, FALSE, << >>)>>)>>),
    Try(Lib("gsub"), <<StrX("bc"), StrX("%a"), Fn(<<"a">>, FALSE, <<Ret(<<CallX(Var("f"), <<Var("a")>>)>>)>>)>>),
    Show(<<Var("n")>>)>>
Limits4 == <<
    Show(<<CallX(Lib("gsub"), <<StrX("aaa"), StrX("a"), StrX("%%%0"), NumX(2)>>)>>),
    Show(<<CallX(Lib("gsub"), <<StrX("aaa"), StrX("^a"), NumX(1)>>)>>),
    Show(<<CallX(Lib("gsub"), <<StrX("ab"), StrX("^"), StrX("-")>>), CallX(Lib("gsub"), <<StrX("ab"), StrX(""), StrX("-")>>)>>),
    Show(<<CallX(Lib("gsub"), <<StrX("ab"), StrX("b*"), StrX("-"), NumX(0)>>)>>),
    Show(<<CallX(Lib("gsub"), <<StrX("ab"), StrX("b*"), StrX("-")>>)>>),
    Try(Lib("gsub"), <<StrX("a"), StrX("a"), StrX("%2")>>), Try(Lib("gsub"), <<StrX("a"), StrX("(a"), StrX("%1")>>),
    Try(Lib("gsub"), <<StrX("a"), StrX("a"), Fn(<< >>, FALSE, <<Ret(<<Tab(<< >>)>>)>>)>>),
    Try(Lib("gsub"), <<StrX("a"), StrX("a")>>), Try(Lib("gsub"), <<StrX("a"), NIL, StrX("a")>>),
    Try(Lib("gsub"), <<StrX("a"), StrX("a"), TRUEX>>), Try(Lib("gsub"), <<StrX("a"), StrX("a"), StrX("b"), StrX("x")>>),
    Try(Lib("find"), <<StrX("a"), CallX(Lib("rep"), <<StrX("()"), NumX(32)>>)>>),
    Try(Lib("find"), <<StrX("a"), CallX(Lib("rep"), <<StrX("()"), NumX(33)>>)>>)>>
\* An iterator of gmatch goes on where it was.
Iterating == <<
    Local(<<"f", "g">>, <<CallX(Lib("gmatch"), <<StrX("a1b22"), StrX("(%a)(%d*)")>>),
                          CallX(Lib("gmatch"), <<StrX("ab"), StrX("^?%a?")>>)>>),
    Show(<<CallX(Var("f"), << >>)>>), Show(<<CallX(Var("g"), << >>)>>),
    ForIn(<<"a", "b">>, <<Var("f")>>, <<Show(<<Var("a"), Var("b")>>)>>),
    ForIn(<<"a">>, <<Var("g")>>, <<Show(<<Var("a"), Bin("==", Var("f"), Var("g"))>>)>>),
    Show(<<CallX(Var("f"), << >>)>>),
    Try(CallX(Lib("gmatch"), <<StrX("a"), StrX("(a")>>), << >>), Try(Lib("gmatch"), <<StrX("a")>>),
    Try(CallX(Lib("gmatch"), <<StrX("a"), StrX("%")>>), << >>)>>
\* Positions from either end, beyond both, and 0.
Positions == <<-5, -3, -1, 0, 1, 2, 3, 4>>
SubStrings == [i \in DOMAIN Positions |->
    Show([j \in DOMAIN Positions |->
        Method(StrX("abc"), "sub", <<NumX(Positions[i]), NumX(Positions[j])>>)])]
Searches == [i \in DOMAIN Positions |->
    Show(<<CallX(Lib("find"), <<StrX("aba"), StrX("a"), NumX(Positions[i])>>),
           CallX(Lib("find"), <<StrX("a.a"), StrX("."), NumX(Positions[i]), TRUEX>>),
           CallX(Lib("find"), <<StrX("aba"), StrX(""), NumX(Positions[i])>>),
           CallX(Lib("match"), <<StrX("aba"), StrX("()a?"), NumX(Positions[i])>>),
           CallX(Lib("find"), <<StrX("aba"), StrX("^a"), NumX(Positions[i])>>)>>)]
OtherFunctions == <<
    Show(<<Method(StrX("aB1"), "upper", << >>), Method(StrX("aB1"), "lower", << >>), Method(StrX("aB"), "reverse", << >>),
           Method(StrX("ab"), "rep", <<NumX(2)>>), Method(StrX("ab"), "rep", <<NumX(-1)>>), Method(StrX("ab"), "len", << >>),
           Method(StrX("abc"), "sub", <<StrX("2")>>), CallX(Lib("len"), <<NumX(12)>>)>>),
    Show(<<Idx(StrX("a"), StrX("x")), Idx(StrX("a"), NumX(1)), Bin("==", Idx(StrX("a"), StrX("len")), Lib("len"))>>),
    Assign(<<Lib("twice")>>, <<Fn(<<"s">>, FALSE, <<Ret(<<Bin("..", Var("s"), Var("s"))>>)>>)>>),
    Show(<<Method(StrX("a"), "twice", << >>)>>),
    Try(Lib("sub"), <<StrX("a")>>), Try(Lib("sub"), <<NIL, NumX(1)>>), Try(Lib("rep"), <<StrX("a"), StrX("b")>>),
    Try(Lib("upper"), << >>), Try(Lib("find"), <<StrX("a"), StrX("b"), StrX("c")>>), Try(Lib("match"), <<StrX("a")>>),
    Try(Fn(<< >>, FALSE, <<Assign(<<Idx(StrX("a"), StrX("x"))>>, <<NumX(1)>>)>>), << >>)>>

Alone(statements) == [i \in DOMAIN statements |-> <<statements[i]>>]
StringPrograms == <<Replacing, Iterating, OtherFunctions>> \o Alone(Limits4) \o Alone(SubStrings)
                    \o Alone(Searches) \o ScriptTests
=============================================================================
