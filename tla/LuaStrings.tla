----------------------------- MODULE LuaStrings -----------------------------
(***************************************************************************)
(* The string library of Lua (lstrlib.c): the functions that return        *)
(* without calling another one, and the pattern matching that gsub and     *)
(* gmatch use step by step in LuaVM.  A function takes the values of its   *)
(* arguments and returns an error or values.                               *)
(*                                                                         *)
(* M is a MatchState: the subject and the pattern as characters, the       *)
(* captures, and what the last call of match returned, at: the position    *)
(* after the match, or 0 for NULL, unless err says that it raised an       *)
(* error.  Positions count from 1.                                         *)
(***************************************************************************)
EXTENDS LuaOpcodes, SequencesExt, FiniteSetsExt

Letters(s) == [i \in 1 .. Len(s) |-> SubSeq(s, i, i)]
Word(cs) == FoldLeft(LAMBDA a, b : a \o b, "", cs)
Part(cs, from, to) == Word(SubSeq(cs, from, to - 1))

(* Characters *)

\* What ends a C string.
NUL == "<0>"
\* In the order of their codes; the backquote cannot be written here.
Ascii == Letters("\t\n\f\r !\"#$%&'()*+,-./0123456789:;<=>?@ABCDEFGHIJKLMNOPQRSTUVWXYZ[\\]^_abcdefghijklmnopqrstuvwxyz{|}~")
Rank == [c \in ToSet(Ascii) |-> CHOOSE i \in DOMAIN Ascii : Ascii[i] = c]
Span(a, b) == {Ascii[i] : i \in Rank[a] .. Rank[b]}

Small == Letters("abcdefghijklmnopqrstuvwxyz")
Capital == Letters("ABCDEFGHIJKLMNOPQRSTUVWXYZ")
Lowers == ToSet(Small)
Uppers == ToSet(Capital)
Digits == ToSet(Letters("0123456789"))
Controls == {NUL, "\t", "\n", "\f", "\r"}
Spaces == {"\t", "\n", "\f", "\r", " "}
Alnums == Lowers \cup Uppers \cup Digits

tolower(c) == IF c \in Uppers THEN Small[CHOOSE i \in DOMAIN Capital : Capital[i] = c] ELSE c
toupper(c) == IF c \in Lowers THEN Capital[CHOOSE i \in DOMAIN Small : Small[i] = c] ELSE c

Class == [a |-> Lowers \cup Uppers, c |-> Controls, d |-> Digits, l |-> Lowers, s |-> Spaces,
          u |-> Uppers, w |-> Alnums, x |-> Digits \cup ToSet(Letters("abcdefABCDEF")), z |-> {NUL},
          p |-> ToSet(Ascii) \ (Alnums \cup Spaces)]
match_class(c, cl) ==
    LET class == tolower(cl) IN
    IF class \in DOMAIN Class THEN (c \in Class[class]) = (cl \in Lowers) ELSE cl = c

(* Pattern items *)

L_ESC == "%"
SPECIALS == {"^", "$", "*", "+", "?", ".", "(", "[", "%", "-"}
CAP_UNFINISHED == -1
CAP_POSITION == -2
LUA_MAXCAPTURES == 32

CharAt(cs, i) == IF i \in DOMAIN cs THEN cs[i] ELSE NUL

\* The position after the item at p, or 0 for a malformed pattern.
RECURSIVE setend(_, _)
setend(pat, p) ==
    LET q == IF CharAt(pat, p) = L_ESC /\ p < Len(pat) THEN p + 2 ELSE p + 1 IN
    IF p > Len(pat) THEN 0 ELSE IF CharAt(pat, q) = "]" THEN q + 1 ELSE setend(pat, q)
classend(pat, p) ==
    CASE CharAt(pat, p) = L_ESC -> IF p + 1 > Len(pat) THEN 0 ELSE p + 2
      [] CharAt(pat, p) = "[" -> setend(pat, IF CharAt(pat, p + 1) = "^" THEN p + 2 ELSE p + 1)
      [] OTHER -> p + 1

RECURSIVE inset(_, _, _, _)
inset(c, pat, p, ec) ==
    /\ p < ec
    /\ CASE pat[p] = L_ESC -> match_class(c, pat[p + 1]) \/ inset(c, pat, p + 2, ec)
         [] pat[p + 1] = "-" /\ p + 2 < ec -> c \in Span(pat[p], pat[p + 2]) \/ inset(c, pat, p + 3, ec)
         [] OTHER -> pat[p] = c \/ inset(c, pat, p + 1, ec)
matchbracketclass(c, pat, p, ec) ==
    LET negated == pat[p + 1] = "^" IN inset(c, pat, IF negated THEN p + 2 ELSE p + 1, ec) # negated

singlematch(M, s, p, ep) ==
    /\ s <= Len(M.src)
    /\ LET c == M.src[s] IN
       CASE M.pat[p] = "." -> TRUE
         [] M.pat[p] = L_ESC -> match_class(c, M.pat[p + 1])
         [] M.pat[p] = "[" -> matchbracketclass(c, M.pat, p, ep - 1)
         [] OTHER -> M.pat[p] = c

(* Matching *)

NewMatch(src, pat) == [src |-> src, pat |-> pat, capture |-> << >>, at |-> 0, err |-> ""]
Fails(M) == [M EXCEPT !.at = 0]
luaL_error(M, msg) == [M EXCEPT !.at = 0, !.err = msg]
NoMatch(M) == M.at = 0 /\ M.err = ""

\* The capture that %1 .. %9 names.
check_capture(M, l) == l \in DOMAIN M.capture /\ M.capture[l].len # CAP_UNFINISHED
Unfinished(M) == {l \in DOMAIN M.capture : M.capture[l].len = CAP_UNFINISHED}
capture_to_close(M) == Max(Unfinished(M))
match_capture(M, s, l) ==
    LET cap == M.capture[l] IN
    IF /\ cap.len # CAP_POSITION
       /\ Len(M.src) + 1 - s >= cap.len
       /\ SubSeq(M.src, cap.init, cap.init + cap.len - 1) = SubSeq(M.src, s, s + cap.len - 1)
    THEN s + cap.len ELSE 0

\* From the first character of %bxy at s on, with cont open ones.
RECURSIVE balanceend(_, _, _, _)
balanceend(M, s, p, cont) ==
    CASE s > Len(M.src) -> 0
      [] M.src[s] = M.pat[p + 1] -> IF cont = 1 THEN s + 1 ELSE balanceend(M, s + 1, p, cont - 1)
      [] OTHER -> balanceend(M, s + 1, p, IF M.src[s] = M.pat[p] THEN cont + 1 ELSE cont)
matchbalance(M, s, p) == IF CharAt(M.src, s) # M.pat[p] THEN 0 ELSE balanceend(M, s + 1, p, 1)

\* How often the class at p matches from s on.
RECURSIVE repetitions(_, _, _, _)
repetitions(M, s, p, ep) == IF singlematch(M, s, p, ep) THEN 1 + repetitions(M, s + 1, p, ep) ELSE 0

\* A way to go on: with the captures of M, at s in the subject and p in the
\* pattern.  An error is a way from which no other is tried.
Way(M, s, p) == [m |-> M, s |-> s, p |-> p]
Wrong(M, msg) == <<Way(luaL_error(M, msg), 0, 0)>>

\* A class with a suffix may take n characters, or fewer.
max_expand(M, s, n, ep) == [i \in 1 .. n + 1 |-> Way(M, s + n + 1 - i, ep + 1)]
min_expand(M, s, n, ep) == [i \in 1 .. n + 1 |-> Way(M, s + i - 1, ep + 1)]
suffixed(M, s, n, ep) ==
    LET suffix == CharAt(M.pat, ep) IN
    CASE suffix = "?" -> max_expand(M, s, IF n = 0 THEN 0 ELSE 1, ep)
      [] suffix = "*" -> max_expand(M, s, n, ep)
      [] suffix = "+" -> IF n = 0 THEN << >> ELSE max_expand(M, s + 1, n - 1, ep)
      [] suffix = "-" -> min_expand(M, s, n, ep)
      [] OTHER -> IF n = 0 THEN << >> ELSE <<Way(M, s + 1, ep)>>

start_capture(M, s, p, what) ==
    IF Len(M.capture) >= LUA_MAXCAPTURES THEN Wrong(M, "too many captures")
    ELSE <<Way([M EXCEPT !.capture = Append(@, [init |-> s, len |-> what])], s, p)>>
end_capture(M, s, p) ==
    IF Unfinished(M) = {} THEN Wrong(M, "invalid pattern capture")
    ELSE LET l == capture_to_close(M) IN <<Way([M EXCEPT !.capture[l].len = s - M.capture[l].init], s, p)>>

frontier(M, s, p) ==
    LET ep == classend(M.pat, p)
        In(c) == matchbracketclass(c, M.pat, p, ep - 1)
    IN  IF CharAt(M.pat, p) # "[" THEN Wrong(M, "missing [ after %f")
        ELSE IF ep = 0 THEN Wrong(M, "malformed pattern")
        ELSE IF In(CharAt(M.src, s - 1)) \/ ~ In(CharAt(M.src, s)) THEN << >>
        ELSE <<Way(M, s, ep)>>

\* A character class and what may follow it.
item(M, s, p) ==
    LET ep == classend(M.pat, p) IN
    IF ep = 0 THEN Wrong(M, "malformed pattern") ELSE suffixed(M, s, repetitions(M, s, p, ep), ep)

\* The ways to go on behind what stands at p, in the order they are tried.
Ways(M, s, p) ==
    LET c == CharAt(M.pat, p)
        d == CharAt(M.pat, p + 1)
        balance == matchbalance(M, s, p + 2)
        l == Rank[d] - Rank["0"]
        same == match_capture(M, s, l)
        Behind(to, q) == IF to = 0 THEN << >> ELSE <<Way(M, to, q)>>
    IN  CASE c = "(" -> IF d = ")" THEN start_capture(M, s, p + 2, CAP_POSITION)
                        ELSE start_capture(M, s, p + 1, CAP_UNFINISHED)
          [] c = ")" -> end_capture(M, s, p + 1)
          [] c = L_ESC /\ d = "b" ->
                IF p + 3 > Len(M.pat) THEN Wrong(M, "unbalanced pattern") ELSE Behind(balance, p + 4)
          [] c = L_ESC /\ d = "f" -> frontier(M, s, p + 2)
          [] c = L_ESC /\ d \in Digits ->
                IF ~ check_capture(M, l) THEN Wrong(M, "invalid capture index") ELSE Behind(same, p + 2)
          [] c = "$" /\ p = Len(M.pat) -> Behind(IF s = Len(M.src) + 1 THEN s ELSE 0, p + 1)
          [] OTHER -> item(M, s, p)

\* The first way that leads to the end of the pattern; what the ways before it
\* have captured is undone.
RECURSIVE match(_, _, _), try(_, _)
try(M, ways) ==
    IF ways = << >> THEN Fails(M)
    ELSE LET R == match(ways[1].m, ways[1].s, ways[1].p)
         IN  IF NoMatch(R) THEN try(M, Tail(ways)) ELSE R
match(M, s, p) ==
    CASE M.err # "" -> M
      [] p > Len(M.pat) -> [M EXCEPT !.at = s]
      [] OTHER -> try(M, Ways(M, s, p))

(* What a function returns *)

Results(vals) == [err |-> "", vals |-> vals]
Raises(err) == [err |-> err, vals |-> << >>]

push_onecapture(M, i, s, e) ==
    CASE i > Len(M.capture) ->
            IF i = 1 THEN Results(<<Str(Part(M.src, s, e))>>) ELSE Raises("invalid capture index")
      [] M.capture[i].len = CAP_UNFINISHED -> Raises("unfinished capture")
      [] M.capture[i].len = CAP_POSITION -> Results(<<Num(M.capture[i].init)>>)
      [] OTHER -> Results(<<Str(Part(M.src, M.capture[i].init, M.capture[i].init + M.capture[i].len))>>)
\* The whole match stands for no captures, unless s is NULL.
push_captures(M, s, e) ==
    LET n == IF M.capture = << >> /\ s # 0 THEN 1 ELSE Len(M.capture)
        pushed == [i \in 1 .. n |-> push_onecapture(M, i, s, e)]
        wrong == {i \in 1 .. n : pushed[i].err # ""}
    IN  IF wrong # {} THEN pushed[Min(wrong)] ELSE Results([i \in 1 .. n |-> pushed[i].vals[1]])

(* Arguments *)

Arg(args, i) == IF i <= Len(args) THEN args[i] ELSE Nil
Chars(v) == Letters(luaV_tostring(v))
\* The first argument that is not of its kind.
luaL_argerror(args, kinds) ==
    LET Fits(v, kind) == CASE kind = "string" -> isstring(v)
                           [] kind = "number" -> isnumber(v)
                           [] kind = "optnumber" -> v.t = "nil" \/ isnumber(v)
        wrong == {i \in DOMAIN kinds : ~ Fits(Arg(args, i), kinds[i])}
    IN  IF wrong = {} THEN "" ELSE IF kinds[Min(wrong)] = "string" THEN "string expected" ELSE "number expected"
luaL_optinteger(args, i, default) == IF Arg(args, i).t = "nil" THEN default ELSE numberof(Arg(args, i))
posrelat(pos, len) ==
    LET p == IF pos < 0 THEN pos + len + 1 ELSE pos IN IF p >= 0 THEN p ELSE 0

(* The functions *)

\* The first place of s2 in s1 at init or later.
lmemfind(s1, init, s2) ==
    LET places == {i \in init .. Len(s1) + 1 - Len(s2) : SubSeq(s1, i, i + Len(s2) - 1) = s2} IN
    IF places = {} THEN 0 ELSE Min(places)

Anchored(pat) == CharAt(pat, 1) = "^"
First(pat) == IF Anchored(pat) THEN 2 ELSE 1
\* The first place at s or later where the pattern matches.
RECURSIVE search(_, _)
search(M, s) ==
    LET R == match([M EXCEPT !.capture = << >>], s, First(M.pat)) IN
    IF ~ NoMatch(R) \/ Anchored(M.pat) \/ s > Len(M.src) THEN [m |-> R, s |-> s] ELSE search(M, s + 1)

Found(F, find) ==
    LET captures == push_captures(F.m, IF find THEN 0 ELSE F.s, F.m.at) IN
    CASE F.m.err # "" -> Raises(F.m.err)
      [] F.m.at = 0 -> Results(<<Nil>>)
      [] captures.err # "" -> captures
      [] OTHER -> Results((IF find THEN <<Num(F.s), Num(F.m.at - 1)>> ELSE << >>) \o captures.vals)
FoundPlain(at, p) == Results(IF at = 0 THEN <<Nil>> ELSE <<Num(at), Num(at + Len(p) - 1)>>)
\* Where a search starts that is asked to start at wanted.
Begin(s, wanted) == IF wanted < 1 THEN 1 ELSE IF wanted > Len(s) + 1 THEN Len(s) + 1 ELSE wanted
str_find_aux(args, find) ==
    LET s == Chars(args[1])
        p == Chars(args[2])
        init == Begin(s, posrelat(luaL_optinteger(args, 3, 1), Len(s)))
        plain == find /\ (~ IsFalse(Arg(args, 4)) \/ ToSet(p) \cap SPECIALS = {})
        wrong == luaL_argerror(args, <<"string", "string", "optnumber">>)
    IN  CASE wrong # "" -> Raises(wrong)
          [] plain -> FoundPlain(lmemfind(s, init, p), p)
          [] OTHER -> Found(search(NewMatch(s, p), init), find)
str_find(args) == str_find_aux(args, TRUE)
str_match(args) == str_find_aux(args, FALSE)

\* The next match at src or later, and where the one after it is searched.
\* A pattern of gmatch has no anchor.
RECURSIVE gmatch_aux(_, _)
gmatch_aux(M, src) ==
    LET R == match(M, src, 1) IN
    CASE src > Len(M.src) + 1 -> [r |-> Results(<< >>), src |-> src]
      [] R.err # "" -> [r |-> Raises(R.err), src |-> src]
      [] R.at = 0 -> gmatch_aux(M, src + 1)
      [] OTHER -> [r |-> push_captures(R, src, R.at), src |-> IF R.at = src THEN src + 1 ELSE R.at]

\* The replacement string news, with its % expanded.
RECURSIVE add_s(_, _, _, _)
add_s(M, news, s, e) ==
    LET d == CharAt(news, 2)
        capture == push_onecapture(M, Rank[d] - Rank["0"], s, e)
        text == CASE news[1] # L_ESC -> Results(<<Str(news[1])>>)
                  [] d \notin Digits -> Results(<<Str(d)>>)
                  [] d = "0" -> Results(<<Str(Part(M.src, s, e))>>)
                  [] OTHER -> capture
        rest == add_s(M, SubSeq(news, IF news[1] = L_ESC THEN 3 ELSE 2, Len(news)), s, e)
    IN  CASE news = << >> -> Results(<<Str("")>>)
          [] text.err # "" -> text
          [] rest.err # "" -> rest
          [] OTHER -> Results(<<Str(luaV_tostring(text.vals[1]) \o rest.vals[1].v)>>)

str_sub(args) ==
    LET s == Chars(args[1])
        start == posrelat(numberof(args[2]), Len(s))
        end == posrelat(luaL_optinteger(args, 3, -1), Len(s))
        wrong == luaL_argerror(args, <<"string", "number", "optnumber">>)
    IN  IF wrong # "" THEN Raises(wrong)
        ELSE Results(<<Str(Part(s, IF start < 1 THEN 1 ELSE start, 1 + IF end > Len(s) THEN Len(s) ELSE end))>>)
str_rep(args) ==
    LET wrong == luaL_argerror(args, <<"string", "number">>)
    IN  IF wrong # "" THEN Raises(wrong)
        ELSE Results(<<Str(Word([i \in 1 .. numberof(args[2]) |-> luaV_tostring(args[1])]))>>)
\* The functions of one string.
OfString(args, Op(_)) ==
    IF luaL_argerror(args, <<"string">>) # "" THEN Raises("string expected") ELSE Results(<<Op(Chars(args[1]))>>)
str_len(args) == OfString(args, LAMBDA cs : Num(Len(cs)))
str_reverse(args) == OfString(args, LAMBDA cs : Str(Word(Reverse(cs))))
str_lower(args) == OfString(args, LAMBDA cs : Str(Word([i \in DOMAIN cs |-> tolower(cs[i])])))
str_upper(args) == OfString(args, LAMBDA cs : Str(Word([i \in DOMAIN cs |-> toupper(cs[i])])))

strlib == {"find", "match", "sub", "rep", "len", "reverse", "lower", "upper"}
Apply(name, args) ==
    CASE name = "find" -> str_find(args)
      [] name = "match" -> str_match(args)
      [] name = "sub" -> str_sub(args)
      [] name = "rep" -> str_rep(args)
      [] name = "len" -> str_len(args)
      [] name = "reverse" -> str_reverse(args)
      [] name = "lower" -> str_lower(args)
      [] name = "upper" -> str_upper(args)
=============================================================================
