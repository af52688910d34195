----------------------------- MODULE LuaOpcodes -----------------------------
(***************************************************************************)
(* The instructions of the Lua virtual machine (lopcodes.h, lopcodes.c).   *)
(* An instruction is a record with an operation and three arguments; the   *)
(* formats iABx and iAsBx keep Bx or sBx in the field b.                   *)
(***************************************************************************)
EXTENDS Integers, Sequences, TLC

CONSTANTS
    Collation,              \* the strings that programs compare, in their order
    Numerals                \* the numbers whose text programs convert

\* The row of luaP_opmodes of each operation: T and A modes, the modes of B
\* and C (N unused, U used, R register or jump, K constant or register) and
\* the format.
Mode(t, a, b, c, m) == [t |-> t, a |-> a, b |-> b, c |-> c, m |-> m]

luaP_opmodes == [
    MOVE      |-> Mode(FALSE, TRUE,  "R", "N", "ABC"),
    LOADK     |-> Mode(FALSE, TRUE,  "K", "N", "ABx"),
    LOADBOOL  |-> Mode(FALSE, TRUE,  "U", "U", "ABC"),
    LOADNIL   |-> Mode(FALSE, TRUE,  "R", "N", "ABC"),
    GETUPVAL  |-> Mode(FALSE, TRUE,  "U", "N", "ABC"),
    GETGLOBAL |-> Mode(FALSE, TRUE,  "K", "N", "ABx"),
    GETTABLE  |-> Mode(FALSE, TRUE,  "R", "K", "ABC"),
    SETGLOBAL |-> Mode(FALSE, FALSE, "K", "N", "ABx"),
    SETUPVAL  |-> Mode(FALSE, FALSE, "U", "N", "ABC"),
    SETTABLE  |-> Mode(FALSE, FALSE, "K", "K", "ABC"),
    NEWTABLE  |-> Mode(FALSE, TRUE,  "U", "U", "ABC"),
    SELF      |-> Mode(FALSE, TRUE,  "R", "K", "ABC"),
    ADD       |-> Mode(FALSE, TRUE,  "K", "K", "ABC"),
    SUB       |-> Mode(FALSE, TRUE,  "K", "K", "ABC"),
    MUL       |-> Mode(FALSE, TRUE,  "K", "K", "ABC"),
    DIV       |-> Mode(FALSE, TRUE,  "K", "K", "ABC"),
    MOD       |-> Mode(FALSE, TRUE,  "K", "K", "ABC"),
    POW       |-> Mode(FALSE, TRUE,  "K", "K", "ABC"),
    UNM       |-> Mode(FALSE, TRUE,  "R", "N", "ABC"),
    NOT       |-> Mode(FALSE, TRUE,  "R", "N", "ABC"),
    LEN       |-> Mode(FALSE, TRUE,  "R", "N", "ABC"),
    CONCAT    |-> Mode(FALSE, TRUE,  "R", "R", "ABC"),
    JMP       |-> Mode(FALSE, FALSE, "R", "N", "AsBx"),
    EQ        |-> Mode(TRUE,  FALSE, "K", "K", "ABC"),
    LT        |-> Mode(TRUE,  FALSE, "K", "K", "ABC"),
    LE        |-> Mode(TRUE,  FALSE, "K", "K", "ABC"),
    TEST      |-> Mode(TRUE,  TRUE,  "R", "U", "ABC"),
    TESTSET   |-> Mode(TRUE,  TRUE,  "R", "U", "ABC"),
    CALL      |-> Mode(FALSE, TRUE,  "U", "U", "ABC"),
    TAILCALL  |-> Mode(FALSE, TRUE,  "U", "U", "ABC"),
    RETURN    |-> Mode(FALSE, FALSE, "U", "N", "ABC"),
    FORLOOP   |-> Mode(FALSE, TRUE,  "R", "N", "AsBx"),
    FORPREP   |-> Mode(FALSE, TRUE,  "R", "N", "AsBx"),
    TFORLOOP  |-> Mode(TRUE,  FALSE, "N", "U", "ABC"),
    SETLIST   |-> Mode(FALSE, FALSE, "U", "U", "ABC"),
    CLOSE     |-> Mode(FALSE, FALSE, "N", "N", "ABC"),
    CLOSURE   |-> Mode(FALSE, TRUE,  "U", "N", "ABx"),
    VARARG    |-> Mode(FALSE, TRUE,  "U", "N", "ABC") ]

testTMode(op) == luaP_opmodes[op].t
getBMode(op) == luaP_opmodes[op].b
getCMode(op) == luaP_opmodes[op].c
getOpMode(op) == luaP_opmodes[op].m

CREATE_ABC(o, a, b, c) == [op |-> o, a |-> a, b |-> b, c |-> c]
CREATE_ABx(o, a, bx) == [op |-> o, a |-> a, b |-> bx, c |-> 0]

\* The extra word after a SETLIST whose count does not fit in C.  It is a
\* number that the machine never decodes.
CREATE_Word(n) == [op |-> "word", a |-> 0, b |-> n, c |-> 0]

\* An operand RK is a register or, with the bit BITRK, the index of a constant.
BITRK == 256
ISK(x) == x >= BITRK
INDEXK(x) == x - BITRK
RKASK(x) == x + BITRK

NO_REG == 255
NO_JUMP == -1
LUA_MULTRET == -1

\* The flags of vararg functions (lobject.h).
VARARG_HASARG == "has"
VARARG_ISVARARG == "is"
VARARG_NEEDSARG == "needs"

(* Values *)

Nil == [t |-> "nil", v |-> 0]
Bool(b) == [t |-> "bool", v |-> b]
Num(n) == [t |-> "num", v |-> n]
Str(s) == [t |-> "str", v |-> s]

\* l_isfalse
IsFalse(o) == o.t = "nil" \/ (o.t = "bool" /\ ~ o.v)

\* luaO_rawequalObj
RawEqual(o1, o2) == o1.t = o2.t /\ o1.v = o2.v

\* luai_numadd ... luai_numpow.  The model's numbers are integers; programs
\* divide only where the quotient is an integer, and raise to no negative power.
NumOp(op, x, y) ==
    CASE op = "ADD" -> x + y
      [] op = "SUB" -> x - y
      [] op = "MUL" -> x * y
      [] op = "DIV" -> (IF x * y >= 0 THEN 1 ELSE -1)
                         * ((IF x < 0 THEN -x ELSE x) \div (IF y < 0 THEN -y ELSE y))
      [] op = "MOD" -> IF y > 0 THEN x % y ELSE -((-x) % (-y))
      [] op = "POW" -> x ^ y
      [] op = "UNM" -> -x

(* Conversions *)

luaV_tonumber(v) ==
    IF v.t = "num" THEN {v.v}
    ELSE IF v.t = "str" THEN {n \in Numerals : ToString(n) = v.v} ELSE {}
isnumber(v) == luaV_tonumber(v) # {}
numberof(v) == CHOOSE n \in luaV_tonumber(v) : TRUE
isstring(v) == v.t \in {"num", "str"}
luaV_tostring(v) == IF v.t = "num" THEN ToString(v.v) ELSE v.v

Before(s1, s2) == \E i, j \in DOMAIN Collation : Collation[i] = s1 /\ Collation[j] = s2 /\ i < j
=============================================================================
