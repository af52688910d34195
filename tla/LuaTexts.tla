------------------------------ MODULE LuaTexts ------------------------------
(***************************************************************************)
(* Texts for the scanner of the Lua compiler and what they mean by section *)
(* 2.1 of the manual: the tokens of a program written in many ways, and    *)
(* literals and comments with every mistake that a few characters allow.   *)
(***************************************************************************)
EXTENDS LuaOpcodes, SequencesExt, TLC

Characters(s) == [i \in 1 .. Len(s) |-> SubSeq(s, i, i)]
RECURSIVE Joined(_, _, _)
Joined(ss, i, j) ==
    IF i > j THEN << >> ELSE IF i = j THEN ss[i]
    ELSE Joined(ss, i, (i + j) \div 2) \o Joined(ss, (i + j) \div 2 + 1, j)

(* The tokens of a program *)

Blanks == << " ", "\n", " --[x]\r\n", "\t--[==[ ]=] \n--]]--]==]", " --\n\r" >>
Lexeme(token, i) ==
    CASE token.t = "name" -> token.v
      [] token.t = "num" -> ToString(token.v)
      [] token.t = "str" -> (CASE i % 3 = 0 -> "\"" \o token.v \o "\""
                               [] i % 3 = 1 -> "'" \o token.v \o "'"
                               [] OTHER -> "[=[\n" \o token.v \o "]=]")
      [] OTHER -> token.t
Spelled(tokens) ==
    LET written == [i \in DOMAIN tokens |->
            Characters((IF tokens[i].t \in {"(", ")", ",", ";"} THEN "" ELSE Blanks[(i % Len(Blanks)) + 1])
                         \o Lexeme(tokens[i], i))]
    IN  Joined(written, 1, Len(written))

(* What a text means *)

Returns(values) == [output |-> << >>, status |-> "done", values |-> values]
Rejected == [output |-> << >>, status |-> "rejected", values |-> << >>]
Returning(text, means) == [text |-> Characters("return ") \o text, means |-> means]

\* All sequences over chars of at most n elements, and all combinations.
Over(chars, n) ==
    LET b == Len(chars)
        OfLength(k) == [i \in 1 .. b ^ k |-> [j \in 1 .. k |-> chars[(((i - 1) \div b ^ (j - 1)) % b) + 1]]]
        all == [k \in 1 .. n + 1 |-> OfLength(k - 1)]
    IN  Joined(all, 1, n + 1)
Combined(Op(_, _), as, bs) ==
    [i \in 1 .. Len(as) * Len(bs) |-> Op(as[((i - 1) % Len(as)) + 1], bs[((i - 1) \div Len(as)) + 1])]
Each(Op(_), as) == [i \in DOMAIN as |-> Op(as[i])]

\* Numerals: an integral part, a fraction and an exponent, each optional.
Wholes == <<[s |-> "0", v |-> 0], [s |-> "7", v |-> 7], [s |-> "10", v |-> 10], [s |-> "1.", v |-> 1],
            [s |-> "2.0", v |-> 2], [s |-> "3.00", v |-> 3], [s |-> ".0", v |-> 0]>>
Exponents == <<[s |-> "", v |-> 1], [s |-> "e0", v |-> 1], [s |-> "E1", v |-> 10], [s |-> "e+2", v |-> 100]>>
Decimals ==
    Combined(LAMBDA w, e : Returning(Characters(w.s \o e.s), Returns(<<Num(w.v * e.v)>>)), Wholes, Exponents)
Hexadecimals ==
    Each(LAMBDA h : Returning(Characters(h.s), Returns(<<Num(h.v)>>)),
         <<[s |-> "0x1", v |-> 1], [s |-> "0XeB", v |-> 235]>>)
Malformed ==
    Each(LAMBDA s : Returning(Characters(s), Rejected),
         <<"0x", "0xg", "1x1", "1e", "1e+", "1_", "1a", "1..0", "1.0.0", "1.e0e0", "0x1.0", "1e1.0", ".0.", "..0">>)

\* Strings: what may be between two quotes and its value, or an error.
Piece(s, v) == [s |-> s, v |-> v, ok |-> TRUE, digits |-> FALSE]
Decimal(s, v) == [Piece(s, v) EXCEPT !.digits = TRUE]
Wrong(s) == [Piece(s, "") EXCEPT !.ok = FALSE]
Pieces == <<Piece("n", "n"), Piece("9", "9"), Piece("--", "--"), Piece("]]", "]]"),
            Piece("\\n", "\n"), Piece("\\x", "x"), Piece("\\\\", "\\"), Piece("\\\"", "\""),
            Piece("\\'", "'"), Piece("\\\n", "\n"), Piece("\\\r\n", "\n"),
            Decimal("\\9", "\t"), Decimal("\\99", "c"), Piece("\\099", "c"),
            Wrong("\\999"), Wrong("\n"), Wrong("\r")>>
\* A digit after an escape of one or two digits would be part of it, and \r
\* after an escaped \n as well.
Two(p, q) == IF (p.digits /\ q.s = "9") \/ (p.s = "\\\n" /\ q.s = "\r") THEN Piece("", "")
             ELSE [s |-> p.s \o q.s, v |-> p.v \o q.v, ok |-> p.ok /\ q.ok]
Contents == <<Piece("", "")>> \o Pieces \o Combined(Two, Pieces, Pieces)
Quoted ==
    Combined(LAMBDA q, c : Returning(Characters(q \o c.s \o q), IF c.ok THEN Returns(<<Str(c.v)>>) ELSE Rejected),
             <<"\"", "'">>, Contents)
Unfinished == Each(LAMBDA c : Returning(Characters("\"" \o c.s), Rejected), Contents)

\* Long brackets of the level n: where one begins in a text.
Bracket(cs, at, b, n) ==
    /\ at + n + 1 <= Len(cs)
    /\ cs[at] = b /\ cs[at + n + 1] = b
    /\ \A i \in at + 1 .. at + n : cs[i] = "="
LevelsAt(cs, at) == {n \in 0 .. Len(cs) - at - 1 : Bracket(cs, at, "[", n)}
Closings(cs, at, n) == {i \in at + n + 2 .. Len(cs) : Bracket(cs, i, "]", n)}
First(S) == CHOOSE i \in S : \A j \in S : i <= j
\* luaconf.h:346: [[ inside [[...]] is an error.
Nested(cs, at, n, end) == n = 0 /\ \E i \in at + 2 .. end - 1 : Bracket(cs, i, "[", 0)
From(cs, at) == SubSeq(cs, at, Len(cs))
IsBlank(cs) == \A i \in DOMAIN cs : cs[i] \in {"\n", "\r"}

\* A newline is \n, \r or both; the first one of a long string is not part of it.
RECURSIVE Newlines(_)
Newlines(cs) ==
    IF cs = << >> THEN << >>
    ELSE IF cs[1] \notin {"\n", "\r"} THEN <<cs[1]>> \o Newlines(Tail(cs))
    ELSE <<"\n">> \o Newlines(From(cs, IF Len(cs) > 1 /\ {cs[1], cs[2]} = {"\n", "\r"} THEN 3 ELSE 2))
LongValue(cs) ==
    LET lines == Newlines(cs) IN
    FoldLeft(LAMBDA a, b : a \o b, "", IF lines # << >> /\ lines[1] = "\n" THEN Tail(lines) ELSE lines)

LongMeaning(cs) ==
    IF LevelsAt(cs, 1) = {} THEN Rejected
    ELSE LET n == First(LevelsAt(cs, 1))
             end == First(Closings(cs, 1, n))
         IN  IF Closings(cs, 1, n) = {} \/ Nested(cs, 1, n, end) \/ ~ IsBlank(From(cs, end + n + 2)) THEN Rejected
             ELSE Returns(<<Str(LongValue(SubSeq(cs, n + 3, end - 1)))>>)
Brackets == <<"[", "=", "]", "\n">>
Longs ==
    Each(LAMBDA cs : Returning(cs, LongMeaning(cs)),
         Each(LAMBDA r : <<"[">> \o r, Over(Brackets, 4))
           \o Each(LAMBDA r : <<"[", "=", "[">> \o r, Over(Brackets, 4))
           \o Each(LAMBDA r : <<"[", "=", "[">> \o r \o <<"]", "=", "]">>, Over(<<"]", "=", "\r", "\n">>, 3)))

\* A program after a comment.
ReturnOne == Characters("return 1")
After(cs) == IF cs = << >> THEN Returns(<< >>)
             ELSE IF IsBlank(SubSeq(cs, 1, Len(cs) - Len(ReturnOne))) THEN Returns(<<Num(1)>>) ELSE Rejected
CommentMeaning(cs) ==
    IF LevelsAt(cs, 1) = {}
    THEN LET ends == {i \in DOMAIN cs : cs[i] = "\n"}
         IN  After(IF ends = {} THEN << >> ELSE From(cs, First(ends)))
    ELSE LET n == First(LevelsAt(cs, 1))
             end == First(Closings(cs, 1, n))
         IN  IF Closings(cs, 1, n) = {} \/ Nested(cs, 1, n, end) THEN Rejected ELSE After(From(cs, end + n + 2))
Comments ==
    Each(LAMBDA r : [text |-> <<"-", "-">> \o r \o ReturnOne, means |-> CommentMeaning(r \o ReturnOne)],
         Over(Brackets, 4) \o Each(LAMBDA r : <<"[", "=", "[">> \o r, Over(Brackets, 4)))

Texts == Decimals \o Hexadecimals \o Malformed \o Quoted \o Unfinished \o Longs \o Comments
=============================================================================
