----------------------------- MODULE LuaParser ------------------------------
(***************************************************************************)
(* The parser of the Lua compiler (lparser.c): a recursive descent over    *)
(* the tokens of a program that generates code as it reads.  As in LuaCode *)
(* every operator takes the state of the compilation and returns the state *)
(* after the C function of its name; an expression is left in S.e, a       *)
(* number of expressions in S.n, a finished function in S.closed.          *)
(*                                                                         *)
(* A syntax error is a long jump out of the parser.  Here it records the   *)
(* message and skips the rest of the input.                                *)
(***************************************************************************)
EXTENDS LuaCode

Tok(S) == S.toks[S.at]
luaX_next(S) == [S EXCEPT !.at = IF @ < Len(S.toks) THEN @ + 1 ELSE @]
luaX_lookahead(S) == S.toks[IF S.at < Len(S.toks) THEN S.at + 1 ELSE S.at]

luaX_syntaxerror(S, message) == [Error(S, message) EXCEPT !.at = Len(S.toks)]
errorlimit(S, what) == luaX_syntaxerror(S, "function has too many " \o what)

error_expected(S) == luaX_syntaxerror(S, "token expected")
check(S, c) == IF Tok(S).t = c THEN S ELSE error_expected(S)
checknext(S, c) == luaX_next(check(S, c))
testnext(S, c) == IF Tok(S).t = c THEN luaX_next(S) ELSE S

enterlevel(S) ==
    IF S.level >= S.lim.levels THEN luaX_syntaxerror(S, "chunk has too many syntax levels")
    ELSE [S EXCEPT !.level = @ + 1]
leavelevel(S) == [S EXCEPT !.level = @ - 1]

codestring(S, s) == With(addk(S, Str(s)), expdesc("VK", IndexK(S, Str(s))))
\* The name at the current token, which the caller skips (str_checkname).
NameOf(S) == IF Tok(S).t = "name" THEN Tok(S).v ELSE ""
skipname(S) == checknext(S, "name")
checkname(S) == codestring(skipname(S), NameOf(S))

(* Local variables *)

LocVar(fs, i) == fs.locvars[fs.actvar[i + 1]]

new_localvar(S, name, n) ==
    LET i == S.fs.nactvar + n IN
    IF i + 1 > S.lim.vars THEN errorlimit(S, "local variables")
    ELSE [S EXCEPT
            !.fs.locvars = Append(@, [varname |-> name, startpc |-> 0, endpc |-> 0]),
            !.fs.actvar  = SubSeq(@, 1, i) \o <<Len(S.fs.locvars) + 1>>]

adjustlocalvars(S, nvars) ==
    LET active == S.fs.nactvar + nvars
        started == {S.fs.actvar[i] : i \in S.fs.nactvar + 1 .. active}
    IN  IF S.err # "" THEN S
        ELSE [S EXCEPT !.fs.nactvar = active,
                       !.fs.locvars = FoldSet(LAMBDA i, lv : [lv EXCEPT ![i].startpc = pc(S)], @, started)]

removevars(S, tolevel) ==
    LET ended == {S.fs.actvar[i] : i \in tolevel + 1 .. S.fs.nactvar} IN
    [S EXCEPT !.fs.nactvar = tolevel,
              !.fs.locvars = FoldSet(LAMBDA i, lv : [lv EXCEPT ![i].endpc = pc(S)], @, ended)]

\* The innermost active variable of the name, or -1.
searchvar(fs, name) ==
    LET found == {i \in 0 .. fs.nactvar - 1 : LocVar(fs, i).varname = name} IN
    IF found = {} THEN -1 ELSE CHOOSE i \in found : \A j \in found : j <= i

\* The block that declares the variable closes it when it ends.
markupval(fs, level) ==
    LET outside == {b \in DOMAIN fs.bl : fs.bl[b].nactvar <= level} IN
    IF outside = {} THEN fs
    ELSE [fs EXCEPT !.bl[CHOOSE b \in outside : \A c \in outside : c <= b].upval = TRUE]

indexupvalue(fs, k, info) ==
    LET found == {u \in DOMAIN fs.upvalues : fs.upvalues[u].k = k /\ fs.upvalues[u].info = info} IN
    IF found = {} THEN Len(fs.upvalues) ELSE (CHOOSE u \in found : TRUE) - 1

\* The variable in the i-th of the enclosing functions fss; an upvalue is added
\* to every function between its declaration and its use.
RECURSIVE singlevaraux(_, _, _, _)
singlevaraux(fss, i, name, base) ==
    LET v == searchvar(fss[i], name)
        R == singlevaraux(fss, i - 1, name, FALSE)
        u == indexupvalue(fss[i], R.k, R.info)
        upvalue == [name |-> name, k |-> R.k, info |-> R.info]
    IN  IF i = 0 THEN [fss |-> fss, k |-> "VGLOBAL", info |-> NO_REG]
        ELSE IF v >= 0
        THEN [fss |-> IF base THEN fss ELSE [fss EXCEPT ![i] = markupval(@, v)],
              k |-> "VLOCAL", info |-> v]
        ELSE IF R.k = "VGLOBAL" THEN R
        ELSE [fss |-> IF u < Len(fss[i].upvalues) THEN R.fss
                      ELSE [R.fss EXCEPT ![i].upvalues = Append(@, upvalue), ![i].nups = @ + 1],
              k |-> "VUPVAL", info |-> u]

singlevar(S) ==
    LET name == NameOf(S)
        N == skipname(S)
        R == singlevaraux(Append(N.outer, N.fs), Len(N.outer) + 1, name, TRUE)
        V == With([N EXCEPT !.outer = Front(R.fss), !.fs = Last(R.fss)], expdesc(R.k, R.info))
    IN  IF \E f \in ToSet(R.fss) : Len(f.upvalues) > S.lim.upvals THEN errorlimit(N, "upvalues")
        ELSE IF R.k = "VGLOBAL" THEN With(addk(V, Str(name)), expdesc("VGLOBAL", IndexK(V, Str(name))))
        ELSE V

hasmultret(k) == k \in {"VCALL", "VVARARG"}

\* The last of nexps expressions is S.e; the values of nvars variables follow
\* each other in new registers.
adjust_assign(S, nvars, nexps) ==
    LET extra == nvars - nexps
        wanted == IF extra + 1 < 0 THEN 0 ELSE extra + 1
        M == luaK_setreturns(S, wanted)
        E == IF S.e.k # "VVOID" THEN luaK_exp2nextreg(S) ELSE S
    IN  IF hasmultret(S.e.k) THEN IF wanted > 1 THEN luaK_reserveregs(M, wanted - 1) ELSE M
        ELSE IF extra > 0 THEN luaK_nil(luaK_reserveregs(E, extra), E.fs.freereg, extra)
        ELSE E

(* Blocks and functions *)

enterblock(S, isbreakable) ==
    [S EXCEPT !.fs.bl = Append(@, [breaklist |-> NO_JUMP, nactvar |-> S.fs.nactvar,
                                   upval |-> FALSE, isbreakable |-> isbreakable])]

leaveblock(S) ==
    LET bl == Last(S.fs.bl)
        R == removevars([S EXCEPT !.fs.bl = Front(@)], bl.nactvar)
        C == IF bl.upval THEN luaK_codeABC(R, "CLOSE", bl.nactvar, 0, 0) ELSE R
    IN  luaK_patchtohere([C EXCEPT !.fs.freereg = C.fs.nactvar], bl.breaklist)

NewFuncState ==
    [code |-> << >>, lasttarget |-> -1, jpc |-> NO_JUMP, freereg |-> 0, k |-> << >>,
     p |-> << >>, nactvar |-> 0, actvar |-> << >>, locvars |-> << >>, bl |-> << >>,
     upvalues |-> << >>, nups |-> 0, numparams |-> 0, is_vararg |-> {}, maxstacksize |-> 2]

open_func(S) == [S EXCEPT !.outer = Append(@, S.fs), !.fs = NewFuncState]

close_func(S) ==
    LET R == luaK_ret(removevars(S, 0), 0, 0) IN
    [R EXCEPT !.closed = R.fs, !.fs = Last(R.outer), !.outer = Front(@)]

\* The closure of the function just closed; a MOVE or GETUPVAL after CLOSURE
\* tells the machine where each upvalue is.
pushclosure(S) ==
    LET C == luaK_codeABx([S EXCEPT !.fs.p = Append(@, S.closed)], "CLOSURE", 0, Len(S.fs.p))
        Capture(T, u) == luaK_codeABC(T, IF u.k = "VLOCAL" THEN "MOVE" ELSE "GETUPVAL", 0, u.info, 0)
        U == FoldLeft(Capture, C, S.closed.upvalues)
    IN  With(U, expdesc("VRELOCABLE", pc(C) - 1))

RECURSIVE subexpr(_, _), chunk(_), primaryexp(_)
expr(S) == subexpr(S, 0)

\* param { `,' param }; `...' declares `arg' as well (LUA_COMPAT_VARARG).
RECURSIVE params(_, _)
params(S, nparams) ==
    LET N == new_localvar(skipname(S), NameOf(S), nparams)
        D == [new_localvar(luaX_next(S), "arg", nparams)
                EXCEPT !.fs.is_vararg = {VARARG_HASARG, VARARG_ISVARARG, VARARG_NEEDSARG}]
    IN  CASE Tok(S).t = "name" -> IF Tok(N).t = "," THEN params(luaX_next(N), nparams + 1)
                                  ELSE [N EXCEPT !.n = nparams + 1]
          [] Tok(S).t = "..." -> [D EXCEPT !.n = nparams + 1]
          [] OTHER -> luaX_syntaxerror([S EXCEPT !.n = nparams], "<name> or '...' expected")

parlist(S) ==
    LET P == IF Tok(S).t = ")" THEN [S EXCEPT !.n = 0] ELSE params(S, 0)
        A == adjustlocalvars(P, P.n)
        hasarg == IF VARARG_HASARG \in A.fs.is_vararg THEN 1 ELSE 0
    IN  luaK_reserveregs([A EXCEPT !.fs.numparams = A.fs.nactvar - hasarg], A.fs.nactvar)

body(S, needself) ==
    LET O == checknext(open_func(S), "(")
        M == IF needself THEN adjustlocalvars(new_localvar(O, "self", 0), 1) ELSE O
        B == chunk(checknext(parlist(M), ")"))
    IN  pushclosure(close_func(checknext(B, "end")))

RECURSIVE explist(_, _)
explist(S, n) ==
    LET E == expr(S) IN
    IF Tok(E).t = "," THEN explist(luaK_exp2nextreg(luaX_next(E)), n + 1)
    ELSE [E EXCEPT !.n = n]
explist1(S) == explist(S, 1)

(* Primary expressions *)

field(S) ==
    LET V == luaK_exp2anyreg(S) IN luaK_indexed(luaK_exp2RK(checkname(luaX_next(V))), V.e)

yindex(S) == checknext(luaK_exp2val(expr(luaX_next(S))), "]")

recfield(S, cc) ==
    LET Y == IF Tok(S).t = "name" THEN checkname(S) ELSE yindex(S)
        K == luaK_exp2RK(checknext(Y, "="))
        V == luaK_exp2RK(expr(K))
    IN  [luaK_codeABC(V, "SETTABLE", cc.t.info, RK(K.e), RK(V.e)) EXCEPT !.fs.freereg = S.fs.freereg]

closelistfield(S, cc) ==
    LET N == luaK_exp2nextreg(With(S, cc.v)) IN
    IF cc.v.k = "VVOID" THEN S
    ELSE IF cc.tostore = S.lim.perFlush THEN luaK_setlist(N, cc.t.info, cc.na, cc.tostore)
    ELSE N

lastlistfield(S, cc) ==
    LET V == With(S, cc.v) IN
    IF cc.tostore = 0 THEN S
    ELSE IF hasmultret(cc.v.k) THEN luaK_setlist(luaK_setmultret(V), cc.t.info, cc.na, LUA_MULTRET)
    ELSE luaK_setlist(IF cc.v.k # "VVOID" THEN luaK_exp2nextreg(V) ELSE V,
                      cc.t.info, cc.na, cc.tostore)

\* The items of a constructor; the last one stays pending in S.cc.v.
RECURSIVE items(_, _)
items(S, cc) ==
    LET C == closelistfield(S, cc)
        flushed == IF cc.v.k # "VVOID" /\ cc.tostore = S.lim.perFlush THEN 0 ELSE cc.tostore
        record == Tok(S).t = "[" \/ (Tok(S).t = "name" /\ luaX_lookahead(S).t = "=")
        none == expdesc("VVOID", 0)
        E == IF record THEN recfield(C, cc) ELSE expr(C)
        next == IF record THEN [cc EXCEPT !.v = none, !.nh = @ + 1, !.tostore = flushed]
                ELSE [cc EXCEPT !.v = E.e, !.na = @ + 1, !.tostore = flushed + 1]
    IN  IF Tok(S).t = "}" THEN [S EXCEPT !.cc = cc]
        ELSE IF Tok(E).t \in {",", ";"} THEN items(luaX_next(E), next)
        ELSE [E EXCEPT !.cc = next]

\* The sizes in NEWTABLE are hints (luaO_int2fb); the machine reads them back.
constructor(S) ==
    LET N == luaK_exp2nextreg(With(luaK_codeABC(S, "NEWTABLE", 0, 0, 0), expdesc("VRELOCABLE", pc(S))))
        cc == [v |-> expdesc("VVOID", 0), t |-> N.e, nh |-> 0, na |-> 0, tostore |-> 0]
        I == checknext(items(checknext(N, "{"), cc), "}")
        open == I.cc.tostore > 0 /\ hasmultret(I.cc.v.k)
    IN  With([lastlistfield(I, I.cc) EXCEPT
                 !.fs.code[pc(S) + 1].b = I.cc.na - (IF open THEN 1 ELSE 0),
                 !.fs.code[pc(S) + 1].c = I.cc.nh], N.e)

\* S.e is the function, in the register base.
funcargs(S) ==
    LET f == S.e
        A == CASE Tok(S).t = "(" ->
                    IF luaX_lookahead(S).t = ")"
                    THEN luaX_next(luaX_next(With(S, expdesc("VVOID", 0))))
                    ELSE checknext(luaK_setmultret(explist1(luaX_next(S))), ")")
               [] Tok(S).t = "{" -> constructor(S)
               [] Tok(S).t = "str" -> luaX_next(codestring(S, Tok(S).v))
               [] OTHER -> luaX_syntaxerror(S, "function arguments expected")
        P == IF hasmultret(A.e.k) \/ A.e.k = "VVOID" THEN A ELSE luaK_exp2nextreg(A)
        nparams == IF hasmultret(A.e.k) THEN LUA_MULTRET ELSE P.fs.freereg - (f.info + 1)
    IN  With([luaK_codeABC(P, "CALL", f.info, nparams + 1, 2) EXCEPT !.fs.freereg = f.info + 1],
             expdesc("VCALL", pc(P)))

prefixexp(S) ==
    CASE Tok(S).t = "(" -> luaK_dischargevars(checknext(expr(luaX_next(S)), ")"))
      [] Tok(S).t = "name" -> singlevar(S)
      [] OTHER -> luaX_syntaxerror(S, "unexpected symbol")

method(S) ==
    LET K == checkname(luaX_next(S)) IN funcargs(luaK_self(With(K, S.e), K.e))

subscript(S) ==
    LET V == luaK_exp2anyreg(S) IN luaK_indexed(luaK_exp2RK(yindex(V)), V.e)

RECURSIVE suffixes(_)
suffixes(S) ==
    CASE Tok(S).t = "." -> suffixes(field(S))
      [] Tok(S).t = "[" -> suffixes(subscript(S))
      [] Tok(S).t = ":" -> suffixes(method(S))
      [] Tok(S).t \in {"(", "str", "{"} -> suffixes(funcargs(luaK_exp2nextreg(S)))
      [] OTHER -> S
primaryexp(S) == suffixes(prefixexp(S))

vararg(S) ==
    IF S.fs.is_vararg = {} THEN luaX_syntaxerror(S, "cannot use '...' outside a vararg function")
    ELSE With(luaK_codeABC([S EXCEPT !.fs.is_vararg = @ \ {VARARG_NEEDSARG}], "VARARG", 0, 1, 0),
              expdesc("VVARARG", pc(S)))

simpleexp(S) ==
    LET N == luaX_next(S) IN
    CASE Tok(S).t = "num"   -> With(N, [expdesc("VKNUM", 0) EXCEPT !.nval = Tok(S).v])
      [] Tok(S).t = "str"   -> codestring(N, Tok(S).v)
      [] Tok(S).t = "nil"   -> With(N, expdesc("VNIL", 0))
      [] Tok(S).t = "true"  -> With(N, expdesc("VTRUE", 0))
      [] Tok(S).t = "false" -> With(N, expdesc("VFALSE", 0))
      [] Tok(S).t = "..."   -> luaX_next(vararg(S))
      [] Tok(S).t = "{"     -> constructor(S)
      [] Tok(S).t = "function" -> body(N, FALSE)
      [] OTHER -> primaryexp(S)

(* Operators *)

UnOpr == {"not", "-", "#"}
priority == [op \in {"+", "-", "*", "/", "%", "^", "..", "==", "~=", "<", "<=", ">", ">=", "and", "or"} |->
    CASE op \in {"+", "-"} -> [left |-> 6, right |-> 6]
      [] op \in {"*", "/", "%"} -> [left |-> 7, right |-> 7]
      [] op = "^"   -> [left |-> 10, right |-> 9]
      [] op = ".."  -> [left |-> 5, right |-> 4]
      [] op = "and" -> [left |-> 2, right |-> 2]
      [] op = "or"  -> [left |-> 1, right |-> 1]
      [] OTHER -> [left |-> 3, right |-> 3]]
UNARY_PRIORITY == 8

\* While the operator that follows binds more strongly than limit.
RECURSIVE expand(_, _)
expand(S, limit) ==
    LET op == Tok(S).t
        I == luaK_infix(luaX_next(S), op)
        R == subexpr(I, priority[op].right)
    IN  IF op \notin DOMAIN priority THEN S
        ELSE IF priority[op].left <= limit THEN S
        ELSE expand(luaK_posfix(R, op, I.e), limit)

subexpr(S, limit) ==
    LET E == enterlevel(S)
        U == IF Tok(E).t \in UnOpr
             THEN luaK_prefix(subexpr(luaX_next(E), UNARY_PRIORITY), Tok(E).t)
             ELSE simpleexp(E)
    IN  leavelevel(expand(U, limit))

(* Statements *)

block_follow(token) == token \in {"else", "elseif", "end", "until", "eos"}

block(S) == leaveblock(chunk(enterblock(S, FALSE)))

\* An earlier target of the assignment that uses the local variable v uses a
\* copy of its old value.
check_conflict(S, lh, v) ==
    LET extra == S.fs.freereg
        Safe(x) == IF x.k # "VINDEXED" THEN x
                   ELSE [x EXCEPT !.info = IF @ = v.info THEN extra ELSE @,
                                  !.aux  = IF @ = v.info THEN extra ELSE @]
        safe == [i \in DOMAIN lh |-> Safe(lh[i])]
    IN  [(IF safe = lh THEN S
          ELSE luaK_reserveregs(luaK_codeABC(S, "MOVE", extra, v.info, 0), 1)) EXCEPT !.lh = safe]

\* The targets up to `=', the first of them S.e; they are left in S.lh.
RECURSIVE targets(_, _)
targets(S, lh) ==
    LET all == Append(lh, S.e)
        P == primaryexp(luaX_next(S))
        C == IF P.e.k = "VLOCAL" THEN check_conflict(P, all, P.e) ELSE [P EXCEPT !.lh = all]
    IN  IF S.e.k \notin {"VLOCAL", "VUPVAL", "VGLOBAL", "VINDEXED"}
        THEN luaX_syntaxerror([S EXCEPT !.lh = << >>], "syntax error")
        ELSE IF Tok(S).t # "," THEN [S EXCEPT !.lh = all]
        ELSE IF Len(all) > S.lim.levels - S.level THEN errorlimit([S EXCEPT !.lh = << >>], "variables in assignment")
        ELSE targets(C, C.lh)

\* The last value goes to the last target, and so on (assignment's recursion).
assignment(S) ==
    LET T == targets(S, << >>)
        lh == T.lh
        E == explist1(checknext(T, "="))
        n == Len(lh)
        exact == E.n = n
        A == IF exact THEN luaK_storevar(luaK_setoneret(E), Last(lh))
             ELSE LET J == adjust_assign(E, n, E.n)
                  IN  IF E.n > n THEN [J EXCEPT !.fs.freereg = @ - (E.n - n)] ELSE J
        Default(U, var) == luaK_storevar(With(U, expdesc("VNONRELOC", U.fs.freereg - 1)), var)
    IN  IF T.err # "" THEN T
        ELSE FoldLeft(Default, A, Reverse(IF exact THEN Front(lh) ELSE lh))

\* The jumps taken when the condition is false are left in S.e.f.
cond(S) ==
    LET E == expr(S) IN luaK_goiftrue(IF E.e.k = "VNIL" THEN [E EXCEPT !.e.k = "VFALSE"] ELSE E)

breakstat(S) ==
    LET loops == {b \in DOMAIN S.fs.bl : S.fs.bl[b].isbreakable}
        b == CHOOSE x \in loops : \A y \in loops : y <= x
        upval == \E x \in b + 1 .. Len(S.fs.bl) : S.fs.bl[x].upval
        C == IF upval THEN luaK_codeABC(S, "CLOSE", S.fs.bl[b].nactvar, 0, 0) ELSE S
        J == luaK_jump(C)
    IN  IF loops = {} THEN luaX_syntaxerror(S, "no loop to break")
        ELSE [luaK_concat(J, S.fs.bl[b].breaklist, pc(C)) EXCEPT !.fs.bl[b].breaklist = Joined(@, pc(C))]

whilestat(S) ==
    LET L == luaK_getlabel(luaX_next(S))
        C == cond(L)
        B == block(checknext(enterblock(C, TRUE), "do"))
        J == luaK_patchlist(luaK_jump(B), pc(B), pc(L))
    IN  luaK_patchtohere(leaveblock(checknext(J, "end")), C.e.f)

repeatstat(S) ==
    LET I == enterblock(enterblock(luaK_getlabel(S), TRUE), FALSE)
        C == cond(checknext(chunk(luaX_next(I)), "until"))
        Plain == luaK_patchlist(leaveblock(C), C.e.f, pc(S))
        K == leaveblock(luaK_patchtohere(breakstat(C), C.e.f))
        Closing == luaK_patchlist(luaK_jump(K), pc(K), pc(S))
    IN  leaveblock(IF Last(C.fs.bl).upval THEN Closing ELSE Plain)

exp1(S) == luaK_exp2nextreg(expr(S))

forbody(S, base, nvars, isnum) ==
    LET D == checknext(adjustlocalvars(S, 3), "do")
        P == IF isnum THEN luaK_codeABx(D, "FORPREP", base, NO_JUMP) ELSE luaK_jump(D)
        prep == pc(P) - 1
        V == luaK_reserveregs(adjustlocalvars(enterblock(P, FALSE), nvars), nvars)
        B == luaK_patchtohere(leaveblock(block(V)), prep)
        F == IF isnum THEN luaK_codeABx(B, "FORLOOP", base, NO_JUMP)
             ELSE luaK_jump(luaK_codeABC(B, "TFORLOOP", base, 0, nvars))
    IN  luaK_patchlist(F, pc(F) - 1, prep + 1)

Control(S, names) ==
    new_localvar(new_localvar(new_localvar(S, names[1], 0), names[2], 1), names[3], 2)

fornum(S, varname) ==
    LET V == new_localvar(Control(S, <<"(for index)", "(for limit)", "(for step)">>), varname, 3)
        L == exp1(checknext(exp1(checknext(V, "=")), ","))
        K == addk(L, Num(1))
        T == IF Tok(L).t = "," THEN exp1(luaX_next(L))
             ELSE luaK_reserveregs(luaK_codeABx(K, "LOADK", K.fs.freereg, IndexK(L, Num(1))), 1)
    IN  forbody(T, S.fs.freereg, 1, TRUE)

RECURSIVE fornames(_, _)
fornames(S, nvars) ==
    IF Tok(S).t # "," THEN [S EXCEPT !.n = nvars]
    ELSE LET N == luaX_next(S) IN fornames(new_localvar(skipname(N), NameOf(N), nvars), nvars + 1)

forlist(S, indexname) ==
    LET V == new_localvar(Control(S, <<"(for generator)", "(for state)", "(for control)">>), indexname, 3)
        N == fornames(V, 4)
        E == explist1(checknext(N, "in"))
        A == luaK_checkstack(adjust_assign(E, 3, E.n), 3)
    IN  forbody(A, S.fs.freereg, N.n - 3, FALSE)

forstat(S) ==
    LET L == luaX_next(enterblock(S, TRUE))
        N == skipname(L)
        F == CASE Tok(N).t = "=" -> fornum(N, NameOf(L))
               [] Tok(N).t \in {",", "in"} -> forlist(N, NameOf(L))
               [] OTHER -> luaX_syntaxerror(N, "'=' or 'in' expected")
    IN  leaveblock(checknext(F, "end"))

\* The jumps of a false condition are left in S.e.f.
test_then_block(S) ==
    LET C == cond(luaX_next(S)) IN With(block(checknext(C, "then")), C.e)

RECURSIVE branches(_, _)
branches(S, escapelist) ==
    LET flist == S.e.f
        J == luaK_jump(S)
        E == luaK_concat(J, escapelist, pc(S))
        escapes == Joined(escapelist, pc(S))
        P == luaK_patchtohere(E, flist)
    IN  CASE Tok(S).t = "elseif" -> branches(test_then_block(P), escapes)
          [] Tok(S).t = "else" -> luaK_patchtohere(block(luaX_next(P)), escapes)
          [] OTHER -> luaK_patchtohere(luaK_concat(S, escapelist, flist), Joined(escapelist, flist))
ifstat(S) == checknext(branches(test_then_block(S), NO_JUMP), "end")

localfunc(S) ==
    LET v == expdesc("VLOCAL", S.fs.freereg)
        A == adjustlocalvars(luaK_reserveregs(new_localvar(skipname(S), NameOf(S), 0), 1), 1)
        B == luaK_storevar(body(A, FALSE), v)
    IN  IF B.err # "" THEN B
        ELSE [B EXCEPT !.fs.locvars[Last(B.fs.actvar)].startpc = pc(B)]

RECURSIVE localnames(_, _)
localnames(S, nvars) ==
    LET N == new_localvar(skipname(S), NameOf(S), nvars) IN
    IF Tok(N).t = "," THEN localnames(luaX_next(N), nvars + 1) ELSE [N EXCEPT !.n = nvars + 1]

localstat(S) ==
    LET N == localnames(S, 0)
        E == IF Tok(N).t = "=" THEN explist1(luaX_next(N))
             ELSE With([N EXCEPT !.n = 0], expdesc("VVOID", 0))
    IN  adjustlocalvars(adjust_assign(E, N.n, E.n), N.n)

RECURSIVE fields(_)
fields(S) == IF Tok(S).t = "." THEN fields(field(S)) ELSE S

funcstat(S) ==
    LET V == fields(singlevar(luaX_next(S)))
        needself == Tok(V).t = ":"
        M == IF needself THEN field(V) ELSE V
    IN  luaK_storevar(body(M, needself), M.e)

exprstat(S) ==
    LET P == primaryexp(S) IN
    IF P.e.k = "VCALL" THEN [P EXCEPT !.fs.code[P.e.info + 1].c = 1] ELSE assignment(P)

retstat(S) ==
    LET N == luaX_next(S)
        E == explist1(N)
        M == luaK_setmultret(E)
        tail == E.e.k = "VCALL" /\ E.n = 1
        T == IF tail THEN [M EXCEPT !.fs.code[E.e.info + 1].op = "TAILCALL"] ELSE M
        One == luaK_exp2anyreg(E)
    IN  IF block_follow(Tok(N).t) \/ Tok(N).t = ";" THEN luaK_ret(N, 0, 0)
        ELSE IF hasmultret(E.e.k) THEN luaK_ret(T, T.fs.nactvar, LUA_MULTRET)
        ELSE IF E.n = 1 THEN luaK_ret(One, One.e.info, 1)
        ELSE luaK_ret(luaK_exp2nextreg(E), E.fs.nactvar, E.n)

statement(S) ==
    LET N == luaX_next(S) IN
    CASE Tok(S).t = "if"       -> ifstat(S)
      [] Tok(S).t = "while"    -> whilestat(S)
      [] Tok(S).t = "do"       -> checknext(block(N), "end")
      [] Tok(S).t = "for"      -> forstat(S)
      [] Tok(S).t = "repeat"   -> repeatstat(S)
      [] Tok(S).t = "function" -> funcstat(S)
      [] Tok(S).t = "local"    -> IF Tok(N).t = "function" THEN localfunc(luaX_next(N)) ELSE localstat(N)
      [] Tok(S).t = "return"   -> retstat(S)
      [] Tok(S).t = "break"    -> breakstat(N)
      [] OTHER -> exprstat(S)

\* All temporary registers are free after a statement; leaked records when the
\* assertion of chunk would fail.
RECURSIVE stats(_)
stats(S) ==
    LET islast == Tok(S).t \in {"return", "break"}
        T == testnext(statement(S), ";")
        F == [T EXCEPT !.fs.freereg = T.fs.nactvar,
                       !.leaked = @ \/ T.fs.freereg < T.fs.nactvar
                                    \/ (T.err = "" /\ T.fs.maxstacksize < T.fs.freereg)]
    IN  IF block_follow(Tok(S).t) \/ S.err # "" THEN S
        ELSE IF islast THEN F ELSE stats(F)

chunk(S) == leavelevel(stats(enterlevel(S)))

luaY_parser(toks, lim) ==
    LET none == expdesc("VVOID", 0)
        S == [toks |-> Append(toks, [t |-> "eos"]), at |-> 1, level |-> 0, err |-> "", lim |-> lim,
              e |-> none, n |-> 0, lh |-> << >>, misfreed |-> FALSE, leaked |-> FALSE,
              cc |-> [v |-> none, t |-> none, nh |-> 0, na |-> 0, tostore |-> 0],
              closed |-> NewFuncState, outer |-> << >>, fs |-> NewFuncState]
        O == [S EXCEPT !.outer = <<NewFuncState>>, !.fs.is_vararg = {VARARG_ISVARARG}]
    IN  close_func(check(chunk(O), "eos"))
=============================================================================
