------------------------------ MODULE LuaLexer ------------------------------
(***************************************************************************)
(* The scanner of the Lua compiler (llex.c).  A text is a sequence of      *)
(* characters, strings of length one; every operator takes the state of    *)
(* the scanner and returns the state after the C function of its name.     *)
(* Line numbers, which no token depends on, are left out.                  *)
(***************************************************************************)
EXTENDS Integers, Sequences, SequencesExt, TLC

Letters(s) == [i \in 1 .. Len(s) |-> SubSeq(s, i, i)]
Chars(s) == ToSet(Letters(s))
Word(cs) == FoldLeft(LAMBDA a, b : a \o b, "", cs)

Digits == Chars("0123456789")
HexDigits == Digits \cup Chars("abcdefABCDEF")
Alphas == Chars("abcdefghijklmnopqrstuvwxyzABCDEFGHIJKLMNOPQRSTUVWXYZ_")
Newlines == {"\n", "\r"}
Spaces == {" ", "\t"}
EOZ == ""
LUA_COMPAT_LSTR == 1

Reserved == {"and", "break", "do", "else", "elseif", "end", "false", "for", "function", "if", "in", "local",
             "nil", "not", "or", "repeat", "return", "then", "true", "until", "while"}

\* The characters of the codes that texts write as \ddd.
Coded == (0 :> "<0>") @@ (9 :> "\t") @@ (10 :> "\n") @@ (13 :> "\r") @@ (92 :> "\\") @@ (99 :> "c")
Code(n) == IF n \in DOMAIN Coded THEN Coded[n] ELSE "<" \o ToString(n) \o ">"
Escapes == ("a" :> "<7>") @@ ("b" :> "<8>") @@ ("f" :> "\f") @@ ("n" :> "\n")
             @@ ("r" :> "\r") @@ ("t" :> "\t") @@ ("v" :> "<11>")

(* Reading characters *)

luaX_setinput(text) == [text |-> text, at |-> 1, buff |-> << >>, sep |-> 0, err |-> "",
                         t |-> [t |-> EOZ], tokens |-> << >>]
current(S) == IF S.at <= Len(S.text) THEN S.text[S.at] ELSE EOZ
next(S) == IF current(S) = EOZ THEN S ELSE [S EXCEPT !.at = @ + 1]
save(S, c) == [S EXCEPT !.buff = Append(@, c)]
save_and_next(S) == next(save(S, current(S)))
resetbuffer(S) == [S EXCEPT !.buff = << >>]

\* A long jump out of the scanner.
luaX_lexerror(S, msg) == [S EXCEPT !.err = msg, !.at = Len(S.text) + 1]

\* \n\r and \r\n are one line.
inclinenumber(S) ==
    LET N == next(S) IN IF current(N) \in Newlines \ {current(S)} THEN next(N) ELSE N

RECURSIVE save_while(_, _), skip_while(_, _)
save_while(S, cs) == IF current(S) \in cs THEN save_while(save_and_next(S), cs) ELSE S
skip_while(S, cs) == IF current(S) \in cs THEN skip_while(next(S), cs) ELSE S
check_next(S, cs) == IF current(S) \in cs THEN save_and_next(S) ELSE S

(* Numerals *)

Natural(cs, base) ==
    LET value == [c \in HexDigits |-> CHOOSE n \in 0 .. 15 : c \in {SubSeq("0123456789abcdef", n + 1, n + 1),
                                                                     SubSeq("0123456789ABCDEF", n + 1, n + 1)}]
    IN  FoldLeft(LAMBDA n, c : base * n + value[c], 0, cs)
AllIn(cs, set) == \A i \in DOMAIN cs : cs[i] \in set

\* strtod of a decimal numeral with fraction zero, or strtoul after 0x; {} when
\* characters are left.
luaO_str2d(cs) ==
    LET Place(set) == LET at == {i \in DOMAIN cs : cs[i] \in set}
                      IN  IF at = {} THEN Len(cs) + 1 ELSE CHOOSE i \in at : \A j \in at : i <= j
        e == Place({"e", "E"})
        point == IF Place({"."}) < e THEN Place({"."}) ELSE e
        whole == SubSeq(cs, 1, point - 1)
        fraction == SubSeq(cs, point + 1, e - 1)
        signed == SubSeq(cs, e + 1, Len(cs))
        exponent == IF signed # << >> /\ signed[1] = "+" THEN Tail(signed) ELSE signed
        hex == SubSeq(cs, 3, Len(cs))
    IN  CASE Len(cs) > 2 /\ cs[1] = "0" /\ cs[2] \in {"x", "X"} /\ AllIn(hex, HexDigits) -> {Natural(hex, 16)}
          [] /\ AllIn(whole \o fraction \o exponent, Digits)
             /\ whole \o fraction # << >>
             /\ e <= Len(cs) => exponent # << >> -> {Natural(whole, 10) * 10 ^ Natural(exponent, 10)}
          [] OTHER -> {}

\* The decimal point is that of the C locale, so trydecpoint has no other try.
read_numeral(S) ==
    LET D == save_while(S, Digits \cup {"."})
        E == IF current(D) \in {"E", "e"} THEN check_next(save_and_next(D), {"+", "-"}) ELSE D
        N == save_while(E, Digits \cup Alphas)
        value == luaO_str2d(N.buff)
    IN  IF value = {} THEN luaX_lexerror(N, "malformed number")
        ELSE [N EXCEPT !.t = [t |-> "num", v |-> CHOOSE n \in value : TRUE]]

(* Strings *)

String(S, from, to) == [S EXCEPT !.t = [t |-> "str", v |-> Word(SubSeq(S.buff, from, to))]]

\* sep is the number of = between two brackets, negative if the second is missing.
skip_sep(S) ==
    LET N == save_while(save_and_next(S), {"="})
        count == Len(N.buff) - Len(S.buff) - 1
    IN  [N EXCEPT !.sep = IF current(N) = current(S) THEN count ELSE -count - 1]

\* The body of a long string or comment, up to its closing bracket.
RECURSIVE long_body(_, _, _)
long_body(S, sep, comment) ==
    LET B == skip_sep(S) IN
    CASE current(S) = EOZ -> luaX_lexerror(S, "unfinished long string or comment")
      [] current(S) = "[" ->
            IF B.sep # sep THEN long_body(B, sep, comment)
            ELSE IF sep = 0 /\ LUA_COMPAT_LSTR = 1 THEN luaX_lexerror(B, "nesting of [[...]] is deprecated")
            ELSE long_body(save_and_next(B), sep, comment)
      [] current(S) = "]" -> IF B.sep = sep THEN save_and_next(B) ELSE long_body(B, sep, comment)
      [] current(S) \in Newlines ->
            LET N == inclinenumber(save(S, "\n")) IN
            long_body(IF comment THEN resetbuffer(N) ELSE N, sep, comment)
      [] OTHER -> long_body(IF comment THEN next(S) ELSE save_and_next(S), sep, comment)

read_long_string(S, sep, comment) ==
    LET N == save_and_next(S)
        B == long_body(IF current(N) \in Newlines THEN inclinenumber(N) ELSE N, sep, comment)
    IN  IF comment \/ B.err # "" THEN B ELSE String(B, 3 + sep, Len(B.buff) - (2 + sep))

\* What follows a backslash.
decimal_escape(S) ==
    LET at(i) == IF S.at + i <= Len(S.text) THEN S.text[S.at + i] ELSE EOZ
        n == IF at(1) \notin Digits THEN 1 ELSE IF at(2) \notin Digits THEN 2 ELSE 3
        code == Natural(SubSeq(S.text, S.at, S.at + n - 1), 10)
    IN  IF code > 255 THEN luaX_lexerror(S, "escape sequence too large")
        ELSE save([S EXCEPT !.at = @ + n], Code(code))
escape(S) ==
    CASE current(S) \in DOMAIN Escapes -> next(save(S, Escapes[current(S)]))
      [] current(S) \in Newlines -> inclinenumber(save(S, "\n"))
      [] current(S) = EOZ -> S
      [] current(S) \in Digits -> decimal_escape(S)
      [] OTHER -> save_and_next(S)

RECURSIVE string_body(_, _)
string_body(S, del) ==
    CASE current(S) = del -> save_and_next(S)
      [] current(S) = EOZ \/ current(S) \in Newlines -> luaX_lexerror(S, "unfinished string")
      [] current(S) = "\\" ->
            LET E == escape(next(S)) IN IF E.err # "" THEN E ELSE string_body(E, del)
      [] OTHER -> string_body(save_and_next(S), del)
read_string(S, del) ==
    LET B == string_body(save_and_next(S), del)
    IN  IF B.err # "" THEN B ELSE String(B, 2, Len(B.buff) - 1)

(* Tokens *)

Token(S, t) == [S EXCEPT !.t = [t |-> t]]
OrEqual(S, alone, both) == IF current(next(S)) = "=" THEN Token(next(next(S)), both) ELSE Token(next(S), alone)

RECURSIVE skip_line(_)
skip_line(S) == IF current(S) \in Newlines \cup {EOZ} THEN S ELSE skip_line(next(S))

\* At the second - of a comment.
skip_comment(S) ==
    LET N == next(S)
        B == skip_sep(N)
        rest == IF current(N) = "[" THEN B ELSE N
    IN  IF current(N) = "[" /\ B.sep >= 0 THEN read_long_string(resetbuffer(B), B.sep, TRUE)
        ELSE skip_line(rest)

dots(S) ==
    LET one == save_and_next(S)
        two == check_next(one, {"."})
    IN  IF current(one) = "." THEN (IF current(two) = "." THEN Token(next(two), "...") ELSE Token(two, ".."))
        ELSE IF current(one) \in Digits THEN read_numeral(one) ELSE Token(one, ".")

name(S) ==
    LET N == save_while(S, Alphas \cup Digits)
        word == Word(N.buff)
    IN  [N EXCEPT !.t = IF word \in Reserved THEN [t |-> word] ELSE [t |-> "name", v |-> word]]

RECURSIVE llex(_)
llex(S0) ==
    LET S == resetbuffer(S0)
        c == current(S)
        bracket == skip_sep(S)
        comment == skip_comment(next(S))
    IN  CASE c \in Newlines -> llex(inclinenumber(S))
          [] c = "-" -> IF current(next(S)) # "-" THEN Token(next(S), "-")
                        ELSE IF comment.err # "" THEN comment ELSE llex(comment)
          [] c = "[" -> IF bracket.sep >= 0 THEN read_long_string(bracket, bracket.sep, FALSE)
                        ELSE IF bracket.sep = -1 THEN Token(bracket, "[")
                        ELSE luaX_lexerror(bracket, "invalid long string delimiter")
          [] c = "=" -> OrEqual(S, "=", "==")
          [] c = "<" -> OrEqual(S, "<", "<=")
          [] c = ">" -> OrEqual(S, ">", ">=")
          [] c = "~" -> OrEqual(S, "~", "~=")
          [] c \in {"\"", "'"} -> read_string(S, c)
          [] c = "." -> dots(S)
          [] c = EOZ -> Token(S, EOZ)
          [] c \in Spaces -> llex(skip_while(S, Spaces))
          [] c \in Digits -> read_numeral(S)
          [] c \in Alphas -> name(S)
          [] OTHER -> Token(next(S), c)

\* The tokens that the parser reads, the last of which no rule of it accepts
\* if an error was raised.  No text has more tokens than characters; halves
\* keep the recursion shallow.
luaX_next(S) ==
    LET N == llex(S) IN
    IF S.at > Len(S.text) THEN S
    ELSE IF N.err # "" THEN [N EXCEPT !.tokens = Append(@, [t |-> "<error>"])]
    ELSE IF N.t.t = EOZ THEN N
    ELSE [N EXCEPT !.tokens = Append(@, N.t)]
RECURSIVE Times(_, _)
Times(S, n) ==
    IF n = 0 \/ S.at > Len(S.text) THEN S
    ELSE IF n = 1 THEN luaX_next(S) ELSE Times(Times(S, n \div 2), n - n \div 2)
Tokens(text) == Times(luaX_setinput(text), Len(text)).tokens
=============================================================================
