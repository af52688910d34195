------------------------ MODULE LuaPatternReference -------------------------
(***************************************************************************)
(* What the patterns of Lua match, by section 5.4.1 of the manual.  A      *)
(* pattern stands for all the ways in which it matches at a place of the   *)
(* subject, the preferred one first; nothing is tried and undone.  A way   *)
(* ends before at and has the captures caps, or stops at a mistake of the  *)
(* pattern, err.                                                           *)
(***************************************************************************)
EXTENDS LuaOpcodes, SequencesExt, FiniteSetsExt

Characters(s) == [i \in 1 .. Len(s) |-> SubSeq(s, i, i)]
Joined(cs) == FoldLeft(LAMBDA a, b : a \o b, "", cs)
Between(cs, from, to) == Joined(SubSeq(cs, from, to - 1))
At(cs, i) == IF i \in DOMAIN cs THEN cs[i] ELSE ""

(* Sets of characters *)

Lower == Characters("abcdefghijklmnopqrstuvwxyz")
Upper == Characters("ABCDEFGHIJKLMNOPQRSTUVWXYZ")
Digit == Characters("0123456789")
Space == {" ", "\t", "\n", "\f", "\r"}
Punctuation == ToSet(Characters("!\"#$%&'()*+,-./:;<=>?@[\\]^_{|}~"))
\* The empty string is what lies before and behind a subject.
Printed == Space \cup ToSet(Lower) \cup ToSet(Upper) \cup ToSet(Digit) \cup Punctuation
Everything == Printed \cup {""}
LowerOf(c) == IF c \in ToSet(Upper) THEN Lower[CHOOSE i \in DOMAIN Upper : Upper[i] = c] ELSE c
UpperOf(c) == IF c \in ToSet(Lower) THEN Upper[CHOOSE i \in DOMAIN Lower : Lower[i] = c] ELSE c

Named(c) ==
    CASE c = "a" -> ToSet(Lower) \cup ToSet(Upper)
      [] c = "c" -> (Space \ {" "}) \cup {""}
      [] c = "d" -> ToSet(Digit)
      [] c = "l" -> ToSet(Lower)
      [] c = "p" -> Punctuation
      [] c = "s" -> Space
      [] c = "u" -> ToSet(Upper)
      [] c = "w" -> ToSet(Lower) \cup ToSet(Upper) \cup ToSet(Digit)
      [] c = "x" -> ToSet(Digit) \cup ToSet(Characters("abcdefABCDEF"))
      [] c = "z" -> {""}
Escaped(c) ==
    IF c \in {"a", "c", "d", "l", "p", "s", "u", "w", "x", "z"} THEN Named(c)
    ELSE IF c \in {"A", "C", "D", "L", "P", "S", "U", "W", "X", "Z"} THEN Everything \ Named(LowerOf(c))
    ELSE {c}
\* Programs use no other ranges.
Interval(a, b) ==
    LET Of(cs) == {cs[i] : i \in {j \in DOMAIN cs : \E l, m \in DOMAIN cs : cs[l] = a /\ cs[m] = b /\ l <= j /\ j <= m}}
    IN  Of(Lower) \cup Of(Upper) \cup Of(Digit)

\* The characters of the set written in cs.
RECURSIVE Listed(_)
Listed(cs) ==
    CASE cs = << >> -> {}
      [] cs[1] = "%" -> Escaped(At(cs, 2)) \cup Listed(SubSeq(cs, 3, Len(cs)))
      [] Len(cs) > 2 /\ cs[2] = "-" -> Interval(cs[1], cs[3]) \cup Listed(SubSeq(cs, 4, Len(cs)))
      [] OTHER -> {cs[1]} \cup Listed(Tail(cs))

\* The closing bracket of the set that begins at i: not its first character and
\* not escaped.
Escapes(p, from, k) ==
    LET run == {j \in from .. k : \A m \in j .. k - 1 : p[m] = "%"} IN (k - Min(run)) % 2 = 1
Closings(p, i) ==
    LET from == IF At(p, i + 1) = "^" THEN i + 2 ELSE i + 1 IN
    {k \in from + 1 .. Len(p) : p[k] = "]" /\ ~ Escapes(p, from, k)}

\* A single character class at i: its characters and the place behind it.
Broken == [set |-> {}, next |-> 0]
Single(p, i) ==
    LET k == Min(Closings(p, i))
        negated == At(p, i + 1) = "^"
        set == Listed(SubSeq(p, IF negated THEN i + 2 ELSE i + 1, k - 1))
    IN  CASE p[i] = "." -> [set |-> Everything, next |-> i + 1]
          [] p[i] = "%" -> IF i = Len(p) THEN Broken ELSE [set |-> Escaped(p[i + 1]), next |-> i + 2]
          [] p[i] = "[" -> IF Closings(p, i) = {} THEN Broken
                           ELSE [set |-> IF negated THEN Everything \ set ELSE set, next |-> k + 1]
          [] OTHER -> [set |-> {p[i]}, next |-> i + 1]

(* Ways to match *)

Mistake(err) == <<[err |-> err, at |-> 0, caps |-> << >>]>>
Concatenated(ss) == FoldLeft(LAMBDA a, b : a \o b, << >>, ss)

Longest(set, s, at) ==
    Max({n \in 0 .. Len(s) + 1 - at : \A j \in at .. at + n - 1 : s[j] \in set})
Count(s, from, to, c) == Cardinality({j \in from .. to : s[j] = c})
\* The ends of the shortest balanced string at a place.
Balanced(s, at, b, e) ==
    {j \in at + 1 .. Len(s) : IF b = e THEN s[j] = e ELSE Count(s, at, j, b) = Count(s, at, j, e)}

Open(caps) == {l \in DOMAIN caps : caps[l].open}

RECURSIVE Ways(_, _, _, _, _)
Ways(p, i, s, at, caps) ==
    LET one == Single(p, i)
        next == one.next
        suffix == At(p, next)
        longest == Longest(one.set, s, at)
        Repeated(n) == Ways(p, next + 1, s, at + n, caps)
        l == Max(Open(caps))
        d == CHOOSE n \in 0 .. 9 : Digit[n + 1] = p[i + 1]
        same == caps[d].to - caps[d].from
        frontier == Single(p, i + 2)
        Captured(c) == Ways(p, i + IF c.place THEN 2 ELSE 1, s, at, Append(caps, c))
        Edge(c) == c \in frontier.set
    IN
    CASE i > Len(p) -> <<[err |-> "", at |-> at, caps |-> caps]>>
      [] p[i] = "(" ->
           IF Len(caps) = 32 THEN Mistake("too many captures")
           ELSE LET place == At(p, i + 1) = ")" IN
                Captured([from |-> at, to |-> at, open |-> ~ place, place |-> place])
      [] p[i] = ")" ->
           IF Open(caps) = {} THEN Mistake("invalid pattern capture")
           ELSE Ways(p, i + 1, s, at, [caps EXCEPT ![l].to = at, ![l].open = FALSE])
      [] p[i] = "$" /\ i = Len(p) -> IF at = Len(s) + 1 THEN Ways(p, i + 1, s, at, caps) ELSE << >>
      [] p[i] = "%" /\ At(p, i + 1) = "b" ->
           IF i + 3 > Len(p) THEN Mistake("unbalanced pattern")
           ELSE IF At(s, at) # p[i + 2] \/ Balanced(s, at, p[i + 2], p[i + 3]) = {} THEN << >>
           ELSE Ways(p, i + 4, s, Min(Balanced(s, at, p[i + 2], p[i + 3])) + 1, caps)
      [] p[i] = "%" /\ At(p, i + 1) = "f" ->
           IF At(p, i + 2) # "[" THEN Mistake("missing [ after %f")
           ELSE IF frontier = Broken THEN Mistake("malformed pattern")
           ELSE IF ~ Edge(At(s, at - 1)) /\ Edge(At(s, at)) THEN Ways(p, frontier.next, s, at, caps) ELSE << >>
      [] p[i] = "%" /\ At(p, i + 1) \in ToSet(Digit) ->
           IF d \notin DOMAIN caps \ Open(caps) THEN Mistake("invalid capture index")
           ELSE IF ~ caps[d].place /\ at + same <= Len(s) + 1 /\ SubSeq(s, at, at + same - 1) = SubSeq(s, caps[d].from, caps[d].to - 1)
           THEN Ways(p, i + 2, s, at + same, caps) ELSE << >>
      [] OTHER ->
           IF one = Broken THEN Mistake("malformed pattern")
           ELSE CASE suffix = "*" -> Concatenated([n \in 1 .. longest + 1 |-> Repeated(longest + 1 - n)])
                  [] suffix = "+" -> Concatenated([n \in 1 .. longest |-> Repeated(longest + 1 - n)])
                  [] suffix = "-" -> Concatenated([n \in 1 .. longest + 1 |-> Repeated(n - 1)])
                  [] suffix = "?" -> (IF longest > 0 THEN Repeated(1) ELSE << >>) \o Repeated(0)
                  [] OTHER -> IF longest > 0 THEN Ways(p, next, s, at + 1, caps) ELSE << >>

\* The first place from init on where a pattern matches, and the way that it
\* does; nothing if there is none.
RECURSIVE FirstMatch(_, _, _, _)
FirstMatch(s, p, init, anchored) ==
    LET ways == Ways(p, IF anchored THEN 2 ELSE 1, s, init, << >>) IN
    IF init > Len(s) + 1 THEN << >> ELSE IF ways # << >> THEN <<[from |-> init, way |-> ways[1]]>>
    ELSE IF anchored THEN << >> ELSE FirstMatch(s, p, init + 1, anchored)

(* What functions return: an error or values *)

Fine(vals) == [err |-> "", vals |-> vals]
Wrong(err) == [err |-> err, vals |-> << >>]
Capture(s, c) == IF c.place THEN Num(c.from) ELSE Str(Between(s, c.from, c.to))
Captures(s, caps) ==
    IF Open(caps) # {} THEN Wrong("unfinished capture") ELSE Fine([l \in DOMAIN caps |-> Capture(s, caps[l])])
\* The whole match if there are no captures.
Whole(from, way) ==
    IF way.caps = << >> THEN <<[from |-> from, to |-> way.at, open |-> FALSE, place |-> FALSE]>> ELSE way.caps

\* A replacement string: %0 is the match, %1 .. %9 are captures.
RECURSIVE Expanded(_, _, _, _)
Expanded(s, from, way, news) ==
    LET c == At(news, 2)
        d == CHOOSE n \in 0 .. 9 : Digit[n + 1] = c
        caps == Whole(from, way)
        rest == Expanded(s, from, way, SubSeq(news, IF news[1] = "%" THEN 3 ELSE 2, Len(news)))
        Then(text) == IF rest.err # "" THEN rest ELSE Fine(<<Str(text \o rest.vals[1].v)>>)
    IN  CASE news = << >> -> Fine(<<Str("")>>)
          [] news[1] # "%" -> Then(news[1])
          [] c \notin ToSet(Digit) -> Then(c)
          [] d = 0 -> Then(Between(s, from, way.at))
          [] d \notin DOMAIN caps -> Wrong("invalid capture index")
          [] caps[d].open -> Wrong("unfinished capture")
          [] OTHER -> Then(luaV_tostring(Capture(s, caps[d])))
(* Section 5.4: functions of strings *)

Text(v) == Characters(luaV_tostring(v))
Given(args, i) == i <= Len(args) /\ args[i].t # "nil"
Expected(args, kinds) ==
    LET Bad(i) == IF kinds[i] = "string" THEN i > Len(args) \/ ~ isstring(args[i])
                  ELSE IF kinds[i] = "number" THEN i > Len(args) \/ ~ isnumber(args[i])
                  ELSE Given(args, i) /\ ~ isnumber(args[i])
        bad == {i \in DOMAIN kinds : Bad(i)}
    IN  IF bad = {} THEN "" ELSE IF kinds[Min(bad)] = "string" THEN "string expected" ELSE "number expected"
Position(args, i, default, len) ==
    LET n == IF Given(args, i) THEN numberof(args[i]) ELSE default IN IF n < 0 THEN len + 1 + n ELSE n

\* Without a magic character a parenthesis that closes nothing is no mistake.
Magic == {"^", "$", "*", "+", "?", ".", "(", "[", "%", "-"}
Quoted(p) == Concatenated([i \in DOMAIN p |-> IF p[i] \in Punctuation THEN <<"%", p[i]>> ELSE <<p[i]>>])
Searched(name, args) ==
    LET s == Text(args[1])
        simple == ToSet(Text(args[2])) \cap Magic = {}
        plain == name = "find" /\ (simple \/ (Given(args, 4) /\ ~ IsFalse(args[4])))
        p == IF plain THEN Quoted(Text(args[2])) ELSE Text(args[2])
        start == Position(args, 3, 1, Len(s))
        init == IF start < 1 THEN 1 ELSE IF start > Len(s) + 1 THEN Len(s) + 1 ELSE start
        F == FirstMatch(s, p, init, At(p, 1) = "^")
        way == F[1].way
        where == IF name = "find" THEN <<Num(F[1].from), Num(way.at - 1)>> ELSE << >>
        captures == Captures(s, IF name = "find" THEN way.caps ELSE Whole(F[1].from, way))
    IN  CASE F = << >> -> Fine(<<Nil>>)
          [] way.err # "" -> Wrong(way.err)
          [] captures.err # "" -> captures
          [] OTHER -> Fine(where \o captures.vals)
SubString(args) ==
    LET s == Text(args[1])
        i == Position(args, 2, 1, Len(s))
        j == Position(args, 3, -1, Len(s))
    IN  Joined(SelectSeq([k \in DOMAIN s |-> IF i <= k /\ k <= j THEN s[k] ELSE ""], LAMBDA c : c # ""))
Repeats(s, n) == [k \in 1 .. (IF n > 0 THEN n * Len(s) ELSE 0) |-> s[((k - 1) % Len(s)) + 1]]

Signature(name) ==
    CASE name \in {"find", "match"} -> <<"string", "string", "optional">>
      [] name = "sub" -> <<"string", "number", "optional">>
      [] name = "rep" -> <<"string", "number">>
      [] OTHER -> <<"string">>
StringFunctions == {"find", "match", "sub", "rep", "len", "reverse", "lower", "upper"}
OfStrings(name, args) ==
    LET wrong == Expected(args, Signature(name))
        s == Text(args[1])
    IN  CASE wrong # "" -> Wrong(wrong)
          [] name \in {"find", "match"} -> Searched(name, args)
          [] name = "sub" -> Fine(<<Str(SubString(args))>>)
          [] name = "rep" -> Fine(<<Str(Joined(Repeats(s, numberof(args[2]))))>>)
          [] name = "len" -> Fine(<<Num(Len(s))>>)
          [] name = "reverse" -> Fine(<<Str(Joined([i \in DOMAIN s |-> s[Len(s) + 1 - i]]))>>)
          [] name = "lower" -> Fine(<<Str(Joined([i \in DOMAIN s |-> LowerOf(s[i])]))>>)
          [] name = "upper" -> Fine(<<Str(Joined([i \in DOMAIN s |-> UpperOf(s[i])]))>>)
=============================================================================
