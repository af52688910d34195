------------------------------ MODULE LuaCode -------------------------------
(***************************************************************************)
(* The code generator of the Lua compiler (lcode.c).                       *)
(*                                                                         *)
(* Every operator takes the state S of a compilation and returns the state *)
(* after the C function of the same name.  S.fs is the FuncState of the    *)
(* function being compiled, S.e the expression that the caller passes by   *)
(* reference, S.lim the limits of the build and S.err the first error:     *)
(* luaX_syntaxerror abandons the compilation by a long jump, so what is    *)
(* generated after it is never seen.                                       *)
(*                                                                         *)
(* fs.code holds the instructions; the program counter is its length and   *)
(* the instruction at pc is fs.code[pc + 1].  The jumps of a list are      *)
(* chained through their targets, as in the C code.                        *)
(***************************************************************************)
EXTENDS LuaOpcodes, SequencesExt

expdesc(k, info) == [k |-> k, info |-> info, aux |-> 0, nval |-> 0,
                     t |-> NO_JUMP, f |-> NO_JUMP]

Error(S, message) == IF S.err = "" THEN [S EXCEPT !.err = message] ELSE S

With(S, e) == [S EXCEPT !.e = e]
In(S, k, info) == [S EXCEPT !.e.k = k, !.e.info = info]

pc(S) == Len(S.fs.code)
At(S, p) == S.fs.code[p + 1]
getcode(S) == At(S, S.e.info)

hasjumps(e) == e.t # e.f
isnumeral(e) == e.k = "VKNUM" /\ ~ hasjumps(e) /\ e.t = NO_JUMP

(* Lists of jumps *)

\* The position in the list after p, which jumps to itself at the end.
getjump(code, p) ==
    LET offset == code[p + 1].b IN
    IF offset = NO_JUMP THEN NO_JUMP ELSE p + 1 + offset

RECURSIVE JumpList(_, _)
JumpList(code, list) ==
    IF list = NO_JUMP THEN << >>
    ELSE <<list>> \o JumpList(code, getjump(code, list))

\* The instruction that controls a jump: the test before it, or itself.
getjumpcontrol(code, p) ==
    IF p >= 1 /\ code[p].op # "word" /\ testTMode(code[p].op) THEN p - 1 ELSE p

fixjump(S, p, dest) ==
    LET offset == dest - (p + 1) IN
    IF offset > S.lim.sBx \/ -offset > S.lim.sBx
    THEN Error(S, "control structure too long")
    ELSE [S EXCEPT !.fs.code[p + 1].b = offset]

\* Some jump of the list does not produce a value.
need_value(code, list) ==
    \E j \in ToSet(JumpList(code, list)) :
        code[getjumpcontrol(code, j) + 1].op # "TESTSET"

\* A TESTSET gets its register, or becomes a TEST when its value is not wanted
\* or already there.
patchtestreg(code, node, reg) ==
    LET c == getjumpcontrol(code, node)
        i == code[c + 1]
    IN  IF i.op # "TESTSET" THEN code
        ELSE [code EXCEPT ![c + 1] =
                IF reg # NO_REG /\ reg # i.b THEN [i EXCEPT !.a = reg]
                ELSE CREATE_ABC("TEST", i.b, 0, i.c)]

patchlistaux(S, list, vtarget, reg, dtarget) ==
    LET Patch(T, j) ==
            LET code == T.fs.code
                tests == code[getjumpcontrol(code, j) + 1].op = "TESTSET"
            IN  fixjump([T EXCEPT !.fs.code = patchtestreg(code, j, reg)],
                        j, IF tests THEN vtarget ELSE dtarget)
    IN  FoldLeft(Patch, S, JumpList(S.fs.code, list))

removevalues(S, list) ==
    [S EXCEPT !.fs.code =
        FoldLeft(LAMBDA c, j : patchtestreg(c, j, NO_REG), @, JumpList(@, list))]

\* Two lists joined: the list and, if the last jump of l1 moved, the code.
luaK_concat(S, l1, l2) ==
    IF l1 = NO_JUMP \/ l2 = NO_JUMP THEN S ELSE fixjump(S, Last(JumpList(S.fs.code, l1)), l2)
Joined(l1, l2) == IF l1 = NO_JUMP THEN l2 ELSE l1

luaK_getlabel(S) == [S EXCEPT !.fs.lasttarget = pc(S)]

luaK_patchtohere(S, list) ==
    LET L == luaK_getlabel(S) IN
    [luaK_concat(L, L.fs.jpc, list) EXCEPT !.fs.jpc = Joined(@, list)]

luaK_patchlist(S, list, target) ==
    IF target = pc(S) THEN luaK_patchtohere(S, list)
    ELSE patchlistaux(S, list, target, NO_REG, target)

(* Instructions *)

dischargejpc(S) ==
    [patchlistaux(S, S.fs.jpc, pc(S), NO_REG, pc(S)) EXCEPT !.fs.jpc = NO_JUMP]

luaK_code(S, i) == [dischargejpc(S) EXCEPT !.fs.code = Append(@, i)]
luaK_codeABC(S, o, a, b, c) == luaK_code(S, CREATE_ABC(o, a, b, c))
luaK_codeABx(S, o, a, bx) == luaK_code(S, CREATE_ABx(o, a, bx))

\* The jump is the last instruction; jumps to it wait with it.
luaK_jump(S) ==
    LET J == luaK_codeABx([S EXCEPT !.fs.jpc = NO_JUMP], "JMP", 0, NO_JUMP)
    IN  luaK_concat(J, pc(S), S.fs.jpc)

luaK_ret(S, first, nret) == luaK_codeABC(S, "RETURN", first, nret + 1, 0)

condjump(S, op, a, b, c) == luaK_jump(luaK_codeABC(S, op, a, b, c))

luaK_nil(S, from, n) ==
    LET i == At(S, pc(S) - 1)
        clean == pc(S) = 0 /\ from >= S.fs.nactvar
        connects == pc(S) > 0 /\ i.op = "LOADNIL" /\ i.a <= from /\ from <= i.b + 1
    IN  IF pc(S) > S.fs.lasttarget /\ clean THEN S
        ELSE IF pc(S) > S.fs.lasttarget /\ connects
        THEN [S EXCEPT !.fs.code[pc(S)].b = IF from + n - 1 > @ THEN from + n - 1 ELSE @]
        ELSE luaK_codeABC(S, "LOADNIL", from, from + n - 1, 0)

\* With every n list items, SETLIST stores them; its count may need a word.
luaK_setlist(S, base, nelems, tostore) ==
    LET c == (nelems - 1) \div S.lim.perFlush + 1
        b == IF tostore = LUA_MULTRET THEN 0 ELSE tostore
        T == IF c <= S.lim.C THEN luaK_codeABC(S, "SETLIST", base, b, c)
             ELSE luaK_code(luaK_codeABC(S, "SETLIST", base, b, 0), CREATE_Word(c))
    IN  [T EXCEPT !.fs.freereg = base + 1]

(* Registers and constants *)

\* (Mutant: the function asks for one register too few.)
luaK_checkstackShort(S, n) ==
    LET newstack == S.fs.freereg + n - 1 IN
    IF newstack <= S.fs.maxstacksize THEN S ELSE [S EXCEPT !.fs.maxstacksize = newstack]
luaK_checkstack(S, n) ==
    LET newstack == S.fs.freereg + n IN
    IF newstack <= S.fs.maxstacksize THEN S
    ELSE IF newstack >= S.lim.stack THEN Error(S, "function or expression too complex")
    ELSE [S EXCEPT !.fs.maxstacksize = newstack]

luaK_reserveregs(S, n) == [luaK_checkstack(S, n) EXCEPT !.fs.freereg = @ + n]

\* Registers are freed in the reverse of their order; misfreed records when
\* the assertion of freereg would fail.
\* (Mutant: those of variables are freed as well.)
freeregOfVariables(S, reg) ==
    IF ISK(reg) THEN S
    ELSE [S EXCEPT !.fs.freereg = @ - 1, !.misfreed = @ \/ reg # S.fs.freereg - 1]
freereg(S, reg) ==
    IF ISK(reg) \/ reg < S.fs.nactvar THEN S
    ELSE [S EXCEPT !.fs.freereg = @ - 1,
                   !.misfreed = @ \/ reg # S.fs.freereg - 1]
freeexp(S, e) == IF e.k = "VNONRELOC" THEN freereg(S, e.info) ELSE S

\* The constant's index; a new one is added to the table.
IndexK(S, v) ==
    LET found == {i \in DOMAIN S.fs.k : RawEqual(S.fs.k[i], v)} IN
    IF found = {} THEN Len(S.fs.k) ELSE (CHOOSE i \in found : TRUE) - 1
addk(S, v) ==
    IF IndexK(S, v) < Len(S.fs.k) THEN S
    ELSE IF Len(S.fs.k) >= S.lim.Bx THEN Error(S, "constant table overflow")
    ELSE [S EXCEPT !.fs.k = Append(@, v)]

(* Expressions *)

luaK_setreturns(S, nresults) ==
    LET e == S.e IN
    IF e.k = "VCALL" THEN [S EXCEPT !.fs.code[e.info + 1].c = nresults + 1]
    ELSE IF e.k = "VVARARG"
    THEN luaK_reserveregs([S EXCEPT !.fs.code[e.info + 1].b = nresults + 1,
                                    !.fs.code[e.info + 1].a = S.fs.freereg], 1)
    ELSE S
luaK_setmultret(S) == luaK_setreturns(S, LUA_MULTRET)

luaK_setoneret(S) ==
    IF S.e.k = "VCALL" THEN In(S, "VNONRELOC", getcode(S).a)
    ELSE IF S.e.k = "VVARARG"
    THEN [S EXCEPT !.fs.code[S.e.info + 1].b = 2, !.e.k = "VRELOCABLE"]
    ELSE S

luaK_dischargevars(S) ==
    LET e == S.e
        Code(T, op, b, c) == In(luaK_codeABC(T, op, 0, b, c), "VRELOCABLE", pc(S))
    IN  CASE e.k = "VLOCAL"   -> In(S, "VNONRELOC", e.info)
          [] e.k = "VUPVAL"   -> Code(S, "GETUPVAL", e.info, 0)
          [] e.k = "VGLOBAL"  -> Code(S, "GETGLOBAL", e.info, 0)
          [] e.k = "VINDEXED" ->
               Code(freereg(freereg(S, e.aux), e.info), "GETTABLE", e.info, e.aux)
          [] OTHER -> luaK_setoneret(S)

code_label(S, a, b, jump) == luaK_codeABC(luaK_getlabel(S), "LOADBOOL", a, b, jump)

discharge2reg(S, reg) ==
    LET D == luaK_dischargevars(S)
        e == D.e
        K(v) == luaK_codeABx(addk(D, v), "LOADK", reg, IndexK(D, v))
        T == CASE e.k = "VNIL"   -> luaK_nil(D, reg, 1)
               [] e.k = "VFALSE" -> luaK_codeABC(D, "LOADBOOL", reg, 0, 0)
               [] e.k = "VTRUE"  -> luaK_codeABC(D, "LOADBOOL", reg, 1, 0)
               [] e.k = "VK"     -> luaK_codeABx(D, "LOADK", reg, e.info)
               [] e.k = "VKNUM"  -> K(Num(e.nval))
               [] e.k = "VRELOCABLE" -> [D EXCEPT !.fs.code[e.info + 1].a = reg]
               [] e.k = "VNONRELOC" /\ reg # e.info ->
                    luaK_codeABC(D, "MOVE", reg, e.info, 0)
               [] OTHER -> D
    IN  IF e.k \in {"VVOID", "VJMP"} THEN D ELSE In(T, "VNONRELOC", reg)

discharge2anyreg(S) ==
    IF S.e.k = "VNONRELOC" THEN S
    ELSE discharge2reg(luaK_reserveregs(S, 1), S.fs.freereg)

\* The value of the expression, with its jumps, ends in reg.
exp2reg(S, reg) ==
    LET D == discharge2reg(S, reg)
        jmp == D.e.k = "VJMP"
        C == IF jmp THEN [luaK_concat(D, D.e.t, D.e.info) EXCEPT !.e.t = Joined(@, D.e.info)]
             ELSE D
        needs == need_value(C.fs.code, C.e.t) \/ need_value(C.fs.code, C.e.f)
        J == IF jmp THEN C ELSE luaK_jump(C)
        fj == IF jmp THEN NO_JUMP ELSE pc(C)
        V == luaK_patchtohere(code_label(code_label(J, reg, 0, 1), reg, 1, 0), fj)
        B == luaK_getlabel(IF needs THEN V ELSE C)
        final == pc(B)
        p_f == IF needs THEN pc(J) ELSE NO_JUMP
        p_t == IF needs THEN pc(J) + 1 ELSE NO_JUMP
        P == patchlistaux(patchlistaux(B, C.e.f, final, reg, p_f), C.e.t, final, reg, p_t)
    IN  With(IF hasjumps(C.e) THEN P ELSE C, expdesc("VNONRELOC", reg))

luaK_exp2nextreg(S) ==
    LET D == luaK_dischargevars(S)
        R == luaK_reserveregs(freeexp(D, D.e), 1)
    IN  exp2reg(R, R.fs.freereg - 1)

luaK_exp2anyreg(S) ==
    LET D == luaK_dischargevars(S) IN
    IF D.e.k = "VNONRELOC" /\ ~ hasjumps(D.e) THEN D
    ELSE IF D.e.k = "VNONRELOC" /\ D.e.info >= D.fs.nactvar THEN exp2reg(D, D.e.info)
    ELSE luaK_exp2nextreg(D)

luaK_exp2val(S) == IF hasjumps(S.e) THEN luaK_exp2anyreg(S) ELSE luaK_dischargevars(S)

\* Nil is a constant too; the C code keeps it under a key of its own.
ConstantOf(e) ==
    CASE e.k = "VNIL" -> Nil
      [] e.k = "VKNUM" -> Num(e.nval)
      [] e.k \in {"VTRUE", "VFALSE"} -> Bool(e.k = "VTRUE")

\* Afterwards S.e is a constant or in a register; RK is the operand.
luaK_exp2RK(S) ==
    LET V == luaK_exp2val(S) IN
    IF V.e.k \in {"VKNUM", "VTRUE", "VFALSE", "VNIL"} /\ Len(V.fs.k) <= V.lim.RK
    THEN In(addk(V, ConstantOf(V.e)), "VK", IndexK(V, ConstantOf(V.e)))
    ELSE IF V.e.k = "VK" /\ V.e.info <= V.lim.RK THEN V
    ELSE luaK_exp2anyreg(V)
RK(e) == IF e.k = "VK" THEN RKASK(e.info) ELSE e.info

\* S.e is the value.
luaK_storevar(S, var) ==
    LET T == IF var.k = "VINDEXED" THEN luaK_exp2RK(S) ELSE luaK_exp2anyreg(S)
        Stored == CASE var.k = "VUPVAL"  -> luaK_codeABC(T, "SETUPVAL", T.e.info, var.info, 0)
                    [] var.k = "VGLOBAL" -> luaK_codeABx(T, "SETGLOBAL", T.e.info, var.info)
                    [] var.k = "VINDEXED" ->
                         luaK_codeABC(T, "SETTABLE", var.info, var.aux, RK(T.e))
                    [] OTHER -> T
    IN  IF var.k = "VLOCAL" THEN exp2reg(freeexp(S, S.e), var.info)
        ELSE freeexp(Stored, T.e)

luaK_self(S, key) ==
    LET O == luaK_exp2anyreg(S)
        R == luaK_reserveregs(freeexp(O, O.e), 2)
        func == R.fs.freereg - 2
        K == luaK_exp2RK(With(R, key))
        C == luaK_codeABC(K, "SELF", func, O.e.info, RK(K.e))
    IN  With(freeexp(C, C.e), [O.e EXCEPT !.info = func, !.k = "VNONRELOC"])

\* S.e is the table, k the key.
luaK_indexed(S, table) == With(S, [table EXCEPT !.aux = RK(S.e), !.k = "VINDEXED"])

(* Conditions *)

invertjump(S) ==
    LET c == getjumpcontrol(S.fs.code, S.e.info) + 1 IN
    [S EXCEPT !.fs.code[c].a = 1 - @]

jumponcond(S, cond) ==
    LET ie == getcode(S)
        D == discharge2anyreg(S)
    IN  IF S.e.k = "VRELOCABLE" /\ ie.op = "NOT"
        THEN condjump([S EXCEPT !.fs.code = Front(@)], "TEST", ie.b, 0, 1 - cond)
        ELSE condjump(freeexp(D, D.e), "TESTSET", NO_REG, D.e.info, cond)

\* Falls through when the expression is true, and jumps when it is false.
luaK_goiftrue(S) ==
    LET D == luaK_dischargevars(S)
        J == CASE D.e.k \in {"VK", "VKNUM", "VTRUE"} -> D
               [] D.e.k = "VFALSE" -> luaK_jump(D)
               [] D.e.k = "VJMP" -> invertjump(D)
               [] OTHER -> jumponcond(D, 0)
        p == CASE D.e.k \in {"VK", "VKNUM", "VTRUE"} -> NO_JUMP
               [] D.e.k = "VJMP" -> D.e.info
               [] OTHER -> pc(J) - 1
    IN  [luaK_patchtohere(luaK_concat(J, J.e.f, p), J.e.t)
            EXCEPT !.e.f = Joined(@, p), !.e.t = NO_JUMP]

luaK_goiffalse(S) ==
    LET D == luaK_dischargevars(S)
        J == CASE D.e.k \in {"VNIL", "VFALSE", "VJMP"} -> D
               [] D.e.k = "VTRUE" -> luaK_jump(D)
               [] OTHER -> jumponcond(D, 1)
        p == CASE D.e.k \in {"VNIL", "VFALSE"} -> NO_JUMP
               [] D.e.k = "VJMP" -> D.e.info
               [] OTHER -> pc(J) - 1
    IN  [luaK_patchtohere(luaK_concat(J, J.e.t, p), J.e.f)
            EXCEPT !.e.t = Joined(@, p), !.e.f = NO_JUMP]

codenot(S) ==
    LET D == luaK_dischargevars(S)
        A == discharge2anyreg(D)
        N == CASE D.e.k \in {"VNIL", "VFALSE"} -> [D EXCEPT !.e.k = "VTRUE"]
               [] D.e.k \in {"VK", "VKNUM", "VTRUE"} -> [D EXCEPT !.e.k = "VFALSE"]
               [] D.e.k = "VJMP" -> invertjump(D)
               [] D.e.k \in {"VRELOCABLE", "VNONRELOC"} ->
                    In(luaK_codeABC(freeexp(A, A.e), "NOT", 0, A.e.info, 0),
                       "VRELOCABLE", pc(A))
    IN  removevalues(removevalues([N EXCEPT !.e.f = N.e.t, !.e.t = N.e.f], N.e.t), N.e.f)

(* Operators *)

Arithmetic == {"ADD", "SUB", "MUL", "DIV", "MOD", "POW"}

constfolding(op, e1, e2) ==
    /\ op \in Arithmetic \cup {"UNM"}
    /\ isnumeral(e1) /\ isnumeral(e2)
    /\ op \in {"DIV", "MOD"} => e2.nval # 0

\* The left operand is e1, the right one S.e; the result is S.e.
codearith(S, op, e1) ==
    LET R == IF op \in {"UNM", "LEN"} THEN S ELSE luaK_exp2RK(S)
        o2 == IF op \in {"UNM", "LEN"} THEN 0 ELSE RK(R.e)
        L == luaK_exp2RK(With(R, e1))
        o1 == RK(L.e)
        F == IF o1 > o2 THEN freeexp(freeexp(L, L.e), R.e) ELSE freeexp(freeexp(L, R.e), L.e)
    IN  IF constfolding(op, e1, S.e) THEN With(S, [e1 EXCEPT !.nval = NumOp(op, e1.nval, S.e.nval)])
        ELSE In(luaK_codeABC(F, op, 0, o1, o2), "VRELOCABLE", pc(F))

codecomp(S, op, cond, e1) ==
    LET L == luaK_exp2RK(With(S, e1))
        R == luaK_exp2RK(With(L, S.e))
        F == With(freeexp(freeexp(R, R.e), L.e), L.e)
        swap == cond = 0 /\ op # "EQ"
        J == IF swap THEN condjump(F, op, 1, RK(R.e), RK(L.e))
             ELSE condjump(F, op, cond, RK(L.e), RK(R.e))
    IN  In(J, "VJMP", pc(J) - 1)

luaK_prefix(S, op) ==
    LET Zero == [expdesc("VKNUM", 0) EXCEPT !.nval = 0]
        A == IF op = "-" /\ isnumeral(S.e) THEN S ELSE luaK_exp2anyreg(S)
    IN  CASE op = "-"   -> codearith(With(A, Zero), "UNM", A.e)
          [] op = "#"   -> codearith(With(A, Zero), "LEN", A.e)
          [] op = "not" -> codenot(S)

luaK_infix(S, op) ==
    CASE op = "and" -> luaK_goiftrue(S)
      [] op = "or"  -> luaK_goiffalse(S)
      [] op = ".."  -> luaK_exp2nextreg(S)
      [] op \in {"+", "-", "*", "/", "%", "^"} -> IF isnumeral(S.e) THEN S ELSE luaK_exp2RK(S)
      [] OTHER -> luaK_exp2RK(S)

\* A concatenation of which the right operand is one is a single instruction.
ConcatOf(S, e1) ==
    LET V == luaK_exp2val(S)
        joins == V.e.k = "VRELOCABLE" /\ getcode(V).op = "CONCAT"
    IN  IF joins THEN [freeexp(V, e1) EXCEPT !.fs.code[V.e.info + 1].b = e1.info,
                                             !.e = [e1 EXCEPT !.k = "VRELOCABLE", !.info = V.e.info]]
        ELSE codearith(luaK_exp2nextreg(V), "CONCAT", e1)

\* e1 op S.e
luaK_posfix(S, op, e1) ==
    LET D == luaK_dischargevars(S) IN
    CASE op = "and" -> [luaK_concat(D, D.e.f, e1.f) EXCEPT !.e.f = Joined(@, e1.f)]
      [] op = "or"  -> [luaK_concat(D, D.e.t, e1.t) EXCEPT !.e.t = Joined(@, e1.t)]
      [] op = ".."  -> ConcatOf(S, e1)
      [] op = "+"   -> codearith(S, "ADD", e1)
      [] op = "-"   -> codearith(S, "SUB", e1)
      [] op = "*"   -> codearith(S, "MUL", e1)
      [] op = "/"   -> codearith(S, "DIV", e1)
      [] op = "%"   -> codearith(S, "MOD", e1)
      [] op = "^"   -> codearith(S, "POW", e1)
      [] op = "=="  -> codecomp(S, "EQ", 1, e1)
      [] op = "~="  -> codecomp(S, "EQ", 0, e1)
      [] op = "<"   -> codecomp(S, "LT", 1, e1)
      [] op = "<="  -> codecomp(S, "LE", 1, e1)
      [] op = ">"   -> codecomp(S, "LT", 0, e1)
      [] op = ">="  -> codecomp(S, "LE", 0, e1)
=============================================================================
