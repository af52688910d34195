------------------------------- MODULE LuaVM --------------------------------
(***************************************************************************)
(* The virtual machine of Lua (lvm.c, with the calls of ldo.c, the         *)
(* upvalues of lfunc.c and the metamethods of ltm.c): one thread that runs *)
(* one of Chunks, one action per instruction.                              *)
(*                                                                         *)
(* L is the lua_State and the objects it reaches.  Cells of the stack are  *)
(* numbered from 0.  A frame of L.ci keeps what the C code does when its   *)
(* function returns: "lua" goes on with the calling function, "tail" with  *)
(* the RETURN that follows a tail call of a C function, and the others     *)
(* with the C function that had called luaD_call.  L.todo is C code that   *)
(* is under way in a step of its own.  L.program and L.proto, the main     *)
(* function's prototype, never change.                                     *)
(***************************************************************************)
EXTENDS LuaOpcodes, SequencesExt, FiniteSetsExt, TLC

CONSTANTS
    Chunks,                 \* what the compiler returned for each program
    LFIELDS_PER_FLUSH,      \* list items that a SETLIST stores at most
    MAXTAGLOOP              \* metamethods that are tables followed at most

VARIABLE L

Strings == INSTANCE LuaStrings

vars == <<L>>

(* The stack *)

Cell(S, i) == IF i < Len(S.stack) THEN S.stack[i + 1] ELSE Nil
Put(S, i, v) ==
    [S EXCEPT !.stack = IF i < Len(@) THEN [@ EXCEPT ![i + 1] = v]
                        ELSE @ \o [j \in 1 .. i - Len(@) |-> Nil] \o <<v>>]
Puts(S, i, vs) == FoldLeftDomain(LAMBDA T, j : Put(T, i + j - 1, vs[j]), S, vs)
\* The cells from .. to - 1.
Slice(S, from, to) == [j \in 1 .. to - from |-> Cell(S, from + j - 1)]

Frame(S) == Last(S.ci)
ProtoAt(S, path) == FoldLeft(LAMBDA p, i : p.p[i], S.proto, path)
Callee(S) == S.closures[Cell(S, Frame(S).func).v]
FrameProto(S) == ProtoAt(S, Callee(S).p)

isfunction(v) == v.t \in {"function", "cfunction", "cclosure"}

(* Tables and metamethods *)

luaH_find(S, h, key) == {i \in DOMAIN S.heap[h].items : RawEqual(S.heap[h].items[i].k, key)}
luaH_get(S, h, key) ==
    LET found == luaH_find(S, h, key) IN
    IF found = {} THEN Nil ELSE S.heap[h].items[CHOOSE i \in found : TRUE].v
\* luaH_set forgets which metamethods are absent, luaH_setnum does not.
luaH_setnum(S, h, key, v) ==
    LET found == luaH_find(S, h, key) IN
    [S EXCEPT !.heap[h].items = IF found = {} THEN Append(@, [k |-> key, v |-> v])
                                ELSE [@ EXCEPT ![CHOOSE i \in found : TRUE].v = v]]
luaH_set(S, h, key, v) == [luaH_setnum(S, h, key, v) EXCEPT !.heap[h].flags = {}]

luaH_new(S) == [S EXCEPT !.heap = Append(@, [items |-> << >>, mt |-> 0, flags |-> {}])]
Table(h) == [t |-> "table", v |-> h]
luaH_getn(S, h) ==
    CHOOSE n \in 0 .. Len(S.heap[h].items) :
        /\ luaH_get(S, h, Num(n + 1)).t = "nil"
        /\ n > 0 => luaH_get(S, h, Num(n)).t # "nil"

\* The tables that exist from the start: of the globals, the string library,
\* and the metatable of all strings.
GlobalTable == Table(1)
StringTable == Table(2)
StringMeta == 3

luaT_gettmbyobj(S, o, event) ==
    CASE o.t = "table" /\ S.heap[o.v].mt # 0 -> luaH_get(S, S.heap[o.v].mt, Str(event))
      [] o.t = "str" -> luaH_get(S, StringMeta, Str(event))
      [] OTHER -> Nil

\* The metamethod of a table, whose absence is cached in the metatable.
fasttm(S, h, event) ==
    LET mt == S.heap[h].mt IN
    IF mt = 0 \/ event \in S.heap[mt].flags THEN Nil ELSE luaH_get(S, mt, Str(event))
noted(S, h, event) ==
    IF S.heap[h].mt = 0 \/ fasttm(S, h, event).t # "nil" THEN S
    ELSE [S EXCEPT !.heap[S.heap[h].mt].flags = @ \cup {event}]

(* Upvalues *)

luaF_findupval(S, level) ==
    LET found == {u \in DOMAIN S.upvals : S.upvals[u].at = level} IN
    IF found = {} THEN Len(S.upvals) + 1 ELSE CHOOSE u \in found : TRUE
opened(S, level) ==
    IF luaF_findupval(S, level) <= Len(S.upvals) THEN S
    ELSE [S EXCEPT !.upvals = Append(@, [at |-> level, v |-> Nil])]

\* (Mutant: the register at the level itself stays open.)
luaF_closeAbove(S, level) ==
    [S EXCEPT !.upvals = [u \in DOMAIN @ |->
        IF @[u].at > level THEN [at |-> -1, v |-> Cell(S, @[u].at)] ELSE @[u]]]
luaF_close(S, level) ==
    [S EXCEPT !.upvals = [u \in DOMAIN @ |->
        IF @[u].at >= level THEN [at |-> -1, v |-> Cell(S, @[u].at)] ELSE @[u]]]

UpValue(S, u) == IF S.upvals[u].at >= 0 THEN Cell(S, S.upvals[u].at) ELSE S.upvals[u].v
SetUpValue(S, u, v) ==
    IF S.upvals[u].at >= 0 THEN Put(S, S.upvals[u].at, v) ELSE [S EXCEPT !.upvals[u].v = v]

(* Calls *)

\* A C function has its own variables in c and says with pc where it is.
NoLocals == << >>
NewFrame(func, base, top, nresults, after) ==
    [func |-> func, base |-> base, top |-> top, pc |-> 0, nresults |-> nresults, after |-> after, c |-> NoLocals]

\* A function without `...' drops its extra arguments; one with it has them
\* below its base, and perhaps in the table `arg' as well.
EnterLua(S, func, nresults, after) ==
    LET p == ProtoAt(S, S.closures[Cell(S, func).v].p)
        args == Slice(S, func + 1, S.top)
        nfix == p.numparams
        actual == IF Len(args) > nfix THEN Len(args) ELSE nfix
        base == IF p.is_vararg = {} THEN func + 1 ELSE func + 1 + actual
        Fixed(j) == IF j <= Len(args) THEN args[j] ELSE Nil
        needsarg == VARARG_NEEDSARG \in p.is_vararg
        nvar == actual - nfix
        arg == [j \in 1 .. nvar |-> [k |-> Num(j), v |-> args[nfix + j]]]
                 \o <<[k |-> Str("n"), v |-> Num(nvar)]>>
        below == IF p.is_vararg = {} THEN << >>
                 ELSE [j \in 1 .. actual |-> IF j <= nfix THEN Nil ELSE args[j]]
        Register(j) == IF j <= nfix THEN Fixed(j)
                       ELSE IF j = nfix + 1 /\ needsarg THEN Table(Len(S.heap) + 1) ELSE Nil
        T == IF needsarg THEN luaH_new(S) ELSE S
    IN  [T EXCEPT !.stack = SubSeq(@, 1, func + 1) \o below
                              \o [j \in 1 .. p.maxstacksize |-> Register(j)],
                  !.heap = IF needsarg THEN [@ EXCEPT ![Len(@)].items = arg] ELSE @,
                  !.top = base + p.maxstacksize,
                  !.ci = Append(@, NewFrame(func, base, base + p.maxstacksize, nresults, after))]

luaD_poscall(S, first) ==
    LET ci == Frame(S)
        results == Slice(S, first, S.top)
        moved == IF ci.nresults = LUA_MULTRET THEN results
                 ELSE [j \in 1 .. ci.nresults |-> IF j <= Len(results) THEN results[j] ELSE Nil]
    IN  [Puts(S, ci.func, moved) EXCEPT !.ci = Front(@), !.top = ci.func + Len(moved)]

\* A conditional jump: the jump is the instruction that follows.
Skip(S, taken) ==
    [S EXCEPT !.ci[Len(S.ci)].pc = @ + 1 + IF taken THEN FrameProto(S).code[@ + 1].b ELSE 0]

\* What the machine does next: the code of the frame, unless C code is under way.
Idle == [k |-> "run"]

\* The instruction whose execution has begun.
Current(S) == FrameProto(S).code[Frame(S).pc]

\* luaD_throw: the action Unwind goes on.
Throw(S, v) == [S EXCEPT !.todo = [k |-> "throw", v |-> v]]
runerror(S, what) == Throw(S, Str(what))

\* luaD_precall.  A C function runs in the next step.  A value that is not a
\* function becomes the first argument of its metamethod (tryfuncTM).
luaD_call(S, func, nresults, after) ==
    LET f == Cell(S, func)
        tm == luaT_gettmbyobj(S, f, "__call")
        shifted == Puts(S, func, <<tm>> \o Slice(S, func, S.top))
        T == IF isfunction(f) THEN S ELSE [shifted EXCEPT !.top = @ + 1]
    IN  IF ~ isfunction(f) /\ ~ isfunction(tm) THEN runerror(S, "call")
        ELSE IF Cell(T, func).t = "function" THEN EnterLua(T, func, nresults, after)
        ELSE [T EXCEPT !.ci = Append(@, NewFrame(func, func + 1, T.top, nresults, after))]

\* The function and its arguments are pushed on the stack.
CallTM(S, tm, args, nresults, after) ==
    luaD_call([Puts(S, S.top, <<tm>> \o args) EXCEPT !.top = @ + 1 + Len(args)],
              S.top, nresults, after)

\* The top is the frame's again.
ToFrameTop(S) == [S EXCEPT !.top = Frame(S).top]

\* The rest of the C code that called a function, once it has returned.
Continue(S, after, nresults) ==
    LET v == Cell(S, S.top - 1)
        P == [S EXCEPT !.top = @ - 1]
        f == Frame(S)
        T == ToFrameTop(S)
        cb == f.base + Current(S).a + 3
    IN  CASE after.k = "lua"  -> IF nresults = LUA_MULTRET THEN S ELSE T
          [] after.k \in {"tail", "none"} -> S
          [] after.k = "res"  -> Put(P, after.at, v)
          [] after.k = "cond" -> Skip(P, (IsFalse(v) = after.negated) = (Current(P).a = 1))
          [] after.k = "concat" ->
               [Put(P, f.base + after.last - 1, v) EXCEPT
                    !.todo = [k |-> "concat", total |-> after.total - 1, last |-> after.last - 1]]
          [] after.k = "for" ->
               Skip(IF Cell(T, cb).t = "nil" THEN T ELSE Put(T, cb - 1, Cell(T, cb)),
                    Cell(T, cb).t # "nil")
          [] after.k = "pcall" ->
               [Puts(S, f.base, <<Bool(TRUE)>> \o Slice(S, f.base, S.top)) EXCEPT
                    !.top = @ + 1, !.todo = [k |-> "return", first |-> f.base]]

Return(S, first) ==
    LET ci == Frame(S)
        P == luaD_poscall(S, first)
    IN  IF ci.after.k = "host" THEN [P EXCEPT !.status = "done"]
        ELSE Continue(P, ci.after, ci.nresults)

(* Operations with metamethods *)

\* t[key] in the cell at.
RECURSIVE luaV_gettable(_, _, _, _, _)
luaV_gettable(S, t, key, at, loop) ==
    LET table == t.t = "table"
        res == luaH_get(S, t.v, key)
        tm == IF table THEN fasttm(S, t.v, "__index") ELSE luaT_gettmbyobj(S, t, "__index")
        N == IF table THEN noted(S, t.v, "__index") ELSE S
    IN  IF loop = MAXTAGLOOP THEN runerror(S, "loop")
        ELSE IF table /\ res.t # "nil" THEN Put(S, at, res)
        ELSE IF table /\ tm.t = "nil" THEN Put(N, at, Nil)
        ELSE IF tm.t = "nil" THEN runerror(S, "index")
        ELSE IF isfunction(tm) THEN CallTM(N, tm, <<t, key>>, 1, [k |-> "res", at |-> at])
        ELSE luaV_gettable(N, tm, key, at, loop + 1)

\* The primitive set makes the key, and forgets which metamethods the table lacks,
\* before the metamethod is looked for; the value then goes to its place as it is.
RECURSIVE luaV_settable(_, _, _, _, _)
luaV_settable(S, t, key, val, loop) ==
    LET table == t.t = "table"
        old == luaH_get(S, t.v, key)
        H == IF table /\ old.t = "nil" THEN luaH_set(S, t.v, key, Nil) ELSE S
        tm == IF table THEN fasttm(H, t.v, "__newindex") ELSE luaT_gettmbyobj(S, t, "__newindex")
        N == IF table THEN noted(H, t.v, "__newindex") ELSE S
    IN  IF loop = MAXTAGLOOP THEN runerror(S, "loop")
        ELSE IF table /\ key.t = "nil" THEN runerror(S, "index is nil")
        ELSE IF table /\ old.t # "nil" THEN luaH_set(S, t.v, key, val)
        ELSE IF table /\ tm.t = "nil" THEN luaH_setnum(N, t.v, key, val)
        ELSE IF tm.t = "nil" THEN runerror(S, "index")
        ELSE IF isfunction(tm) THEN CallTM(N, tm, <<t, key, val>>, 0, [k |-> "none"])
        ELSE luaV_settable(N, tm, key, val, loop + 1)

BinTM(S, p1, p2, event) ==
    LET tm == luaT_gettmbyobj(S, p1, event) IN
    IF tm.t = "nil" THEN luaT_gettmbyobj(S, p2, event) ELSE tm
call_binTM(S, p1, p2, event, after, what) ==
    LET tm == BinTM(S, p1, p2, event) IN
    IF tm.t = "nil" THEN runerror(S, what) ELSE CallTM(S, tm, <<p1, p2>>, 1, after)

Event == [ADD |-> "__add", SUB |-> "__sub", MUL |-> "__mul", DIV |-> "__div",
          MOD |-> "__mod", POW |-> "__pow", UNM |-> "__unm"]

Arith(S, op, ra, rb, rc) ==
    IF isnumber(rb) /\ isnumber(rc)
    THEN Put(S, ra, Num(IF op = "UNM" THEN NumOp(op, numberof(rb), 0)
                        ELSE NumOp(op, numberof(rb), numberof(rc))))
    ELSE call_binTM(S, rb, rc, Event[op], [k |-> "res", at |-> ra], "arithmetic")

\* luaV_equalval, after the types have been compared.
get_compTM(S, h1, h2) ==
    LET tm1 == fasttm(S, h1, "__eq")
        tm2 == fasttm(S, h2, "__eq")
    IN  IF S.heap[h1].mt = S.heap[h2].mt \/ RawEqual(tm1, tm2) THEN tm1 ELSE Nil
equalobj(S, o1, o2) ==
    LET tm == get_compTM(S, o1.v, o2.v)
        N == noted(S, o1.v, "__eq")
        T == IF fasttm(S, o1.v, "__eq").t = "nil" \/ S.heap[o1.v].mt = S.heap[o2.v].mt THEN N
             ELSE noted(N, o2.v, "__eq")
        taken(b) == b = (Current(S).a = 1)
    IN  IF RawEqual(o1, o2) THEN Skip(S, taken(TRUE))
        ELSE IF o1.t # "table" \/ o2.t # "table" THEN Skip(S, taken(FALSE))
        ELSE IF tm.t = "nil" THEN Skip(T, taken(FALSE))
        ELSE CallTM(T, tm, <<o1, o2>>, 1, [k |-> "cond", negated |-> FALSE])

\* The metamethod of an order: both operands have the same one.
OrderTM(S, o1, o2, event) ==
    LET tm1 == luaT_gettmbyobj(S, o1, event)
        tm2 == luaT_gettmbyobj(S, o2, event)
    IN  IF RawEqual(tm1, tm2) THEN tm1 ELSE Nil
order(S, l, r, num, str, TMs) ==
    LET taken(b) == b = (Current(S).a = 1) IN
    CASE l.t = "num" /\ r.t = "num" -> Skip(S, taken(num))
      [] l.t = "str" /\ r.t = "str" -> Skip(S, taken(str))
      [] l.t = r.t /\ l.t \notin {"num", "str"} /\ TMs # << >> ->
           CallTM(S, TMs[1].tm, TMs[1].args, 1, [k |-> "cond", negated |-> TMs[1].negated])
      [] OTHER -> runerror(S, "compare")
\* The metamethods that apply, in the order in which they are tried.
Candidate(tm, args, negated) ==
    IF tm.t = "nil" THEN << >> ELSE <<[tm |-> tm, args |-> args, negated |-> negated]>>

luaV_lessthan(S, l, r) ==
    order(S, l, r, l.t = "num" /\ r.t = "num" /\ l.v < r.v, Before(l.v, r.v),
          Candidate(OrderTM(S, l, r, "__lt"), <<l, r>>, FALSE))
lessequal(S, l, r) ==
    order(S, l, r, l.t = "num" /\ r.t = "num" /\ l.v <= r.v, ~ Before(r.v, l.v),
          Candidate(OrderTM(S, l, r, "__le"), <<l, r>>, FALSE)
            \o Candidate(OrderTM(S, r, l, "__lt"), <<r, l>>, TRUE))

\* The registers up to last, of which total are left, from right to left:
\* as many strings as possible at a time.
RECURSIVE luaV_concat(_, _, _)
luaV_concat(S, total, last) ==
    LET i == Current(S)
        base == Frame(S).base
        top == base + last + 1
        a == Cell(S, top - 2)
        b == Cell(S, top - 1)
        runs == {n \in 2 .. total : \A j \in 1 .. n : isstring(Cell(S, top - j))}
        n == IF luaV_tostring(b) = "" THEN 2 ELSE Max(runs)
        text == FoldLeft(LAMBDA s, v : s \o luaV_tostring(v), "", Slice(S, top - n, top))
    IN  IF total = 1 THEN Put(S, base + i.a, Cell(S, base + i.b))
        ELSE IF isstring(a) /\ isstring(b)
        THEN luaV_concat(Put(S, top - n, Str(text)), total - (n - 1), last - (n - 1))
        ELSE call_binTM(S, a, b, "__concat", [k |-> "concat", total |-> total, last |-> last], "concatenate")

(* The instructions *)

Builtins == <<"emit", "error", "pcall", "setmetatable">>
\* gfind is the old name of gmatch (LUA_COMPAT_GFIND).
StringLibrary == <<"find", "match", "gmatch", "gsub", "sub", "rep", "len", "reverse", "lower", "upper">>
Registered(names) == [i \in DOMAIN names |-> [k |-> Str(names[i]), v |-> [t |-> "cfunction", v |-> names[i]]]]
LibraryTable(items) == [items |-> items, mt |-> 0, flags |-> {}]
luaopen_string == Append(Registered(StringLibrary), [k |-> Str("gfind"), v |-> [t |-> "cfunction", v |-> "gmatch"]])
createmetatable == <<[k |-> Str("__index"), v |-> StringTable]>>
Libraries == <<LibraryTable(Append(Registered(Builtins), [k |-> Str("string"), v |-> StringTable])),
               LibraryTable(luaopen_string), LibraryTable(createmetatable)>>

Start(p, chunk) ==
    LET S == [program |-> p, proto |-> chunk.closed, misfreed |-> chunk.misfreed, leaked |-> chunk.leaked,
              stack |-> <<[t |-> "function", v |-> 1]>>, top |-> 1, ci |-> << >>, heap |-> Libraries,
              closures |-> <<[p |-> << >>, up |-> << >>]>>, upvals |-> << >>, cclosures |-> << >>,
              output |-> << >>, status |-> "running", error |-> Nil, todo |-> Idle]
    IN  IF chunk.err # "" THEN [S EXCEPT !.status = "rejected", !.top = 0]
        ELSE luaD_call(S, 0, LUA_MULTRET, [k |-> "host"])

Init == \E p \in DOMAIN Chunks : L = Start(p, Chunks[p])

\* The instruction at the program counter, and the thread past it.
I == FrameProto(L).code[Frame(L).pc + 1]
N == [L EXCEPT !.ci[Len(L.ci)].pc = @ + 1]
InLua == L.status = "running" /\ L.todo = Idle /\ Cell(L, Frame(L).func).t = "function"
At(op) == InLua /\ I.op = op

base == Frame(L).base
ra == base + I.a
R(b) == Cell(L, base + b)
K(i) == FrameProto(L).k[i + 1]
RK(x) == IF ISK(x) THEN K(INDEXK(x)) ELSE R(x)
jumped(S, offset) == [S EXCEPT !.ci[Len(S.ci)].pc = @ + offset]

OP_MOVE == At("MOVE") /\ L' = Put(N, ra, R(I.b))
OP_LOADK == At("LOADK") /\ L' = Put(N, ra, K(I.b))
OP_LOADBOOL == At("LOADBOOL") /\ L' = jumped(Put(N, ra, Bool(I.b = 1)), IF I.c # 0 THEN 1 ELSE 0)
OP_LOADNIL == At("LOADNIL") /\ L' = Puts(N, ra, [j \in 1 .. I.b - I.a + 1 |-> Nil])
OP_GETUPVAL == At("GETUPVAL") /\ L' = Put(N, ra, UpValue(L, Callee(L).up[I.b + 1]))
OP_SETUPVAL == At("SETUPVAL") /\ L' = SetUpValue(N, Callee(L).up[I.b + 1], R(I.a))
OP_GETGLOBAL == At("GETGLOBAL") /\ L' = luaV_gettable(N, GlobalTable, K(I.b), ra, 0)
OP_SETGLOBAL == At("SETGLOBAL") /\ L' = luaV_settable(N, GlobalTable, K(I.b), R(I.a), 0)
OP_GETTABLE == At("GETTABLE") /\ L' = luaV_gettable(N, R(I.b), RK(I.c), ra, 0)
OP_SETTABLE == At("SETTABLE") /\ L' = luaV_settable(N, R(I.a), RK(I.b), RK(I.c), 0)
OP_NEWTABLE == At("NEWTABLE") /\ L' = Put(luaH_new(N), ra, Table(Len(L.heap) + 1))
OP_SELF ==
    /\ At("SELF")
    /\ LET o == R(I.b)
           key == IF ISK(I.c) \/ I.c # I.a + 1 THEN RK(I.c) ELSE o
       IN  L' = luaV_gettable(Put(N, ra + 1, o), o, key, ra, 0)
OP_ARITH ==
    /\ InLua /\ I.op \in {"ADD", "SUB", "MUL", "DIV", "MOD", "POW"}
    /\ L' = Arith(N, I.op, ra, RK(I.b), RK(I.c))
OP_UNM == At("UNM") /\ L' = Arith(N, "UNM", ra, R(I.b), R(I.b))
OP_NOT == At("NOT") /\ L' = Put(N, ra, Bool(IsFalse(R(I.b))))
OP_LEN ==
    /\ At("LEN")
    /\ L' = CASE R(I.b).t = "table" -> Put(N, ra, Num(luaH_getn(L, R(I.b).v)))
              [] R(I.b).t = "str" -> Put(N, ra, Num(Len(R(I.b).v)))
              [] OTHER -> call_binTM(N, R(I.b), Nil, "__len", [k |-> "res", at |-> ra], "length")
OP_CONCAT == At("CONCAT") /\ L' = luaV_concat(N, I.c - I.b + 1, I.c)
OP_JMP == At("JMP") /\ L' = jumped(N, I.b)
OP_EQ == At("EQ") /\ L' = equalobj(N, RK(I.b), RK(I.c))
OP_LT == At("LT") /\ L' = luaV_lessthan(N, RK(I.b), RK(I.c))
OP_LE == At("LE") /\ L' = lessequal(N, RK(I.b), RK(I.c))
OP_TEST == At("TEST") /\ L' = Skip(N, IsFalse(R(I.a)) # (I.c = 1))
OP_TESTSET ==
    /\ At("TESTSET")
    /\ L' = IF IsFalse(R(I.b)) # (I.c = 1) THEN Skip(Put(N, ra, R(I.b)), TRUE) ELSE Skip(N, FALSE)
OP_CALL ==
    /\ At("CALL")
    /\ L' = luaD_call(IF I.b # 0 THEN [N EXCEPT !.top = ra + I.b] ELSE N, ra, I.c - 1, [k |-> "lua"])
\* The frame of a Lua function replaces the caller's.
OP_TAILCALL ==
    /\ At("TAILCALL")
    /\ LET T == luaD_call(IF I.b # 0 THEN [N EXCEPT !.top = ra + I.b] ELSE N, ra, LUA_MULTRET, [k |-> "tail"])
           old == Frame(L)
           new == Frame(T)
           moved == Slice(T, new.func, T.top)
           C == Puts(luaF_close(T, old.base), old.func, moved)
           top == old.func + Len(moved)
           ci == [old EXCEPT !.base = old.func + (new.base - new.func), !.top = top, !.pc = 0]
       IN  L' = IF T.todo = Idle /\ Cell(T, new.func).t = "function"
                THEN [C EXCEPT !.top = top, !.ci = Append(Front(L.ci), ci)]
                ELSE T
OP_RETURN ==
    /\ At("RETURN")
    /\ L' = Return(luaF_close(IF I.b # 0 THEN [N EXCEPT !.top = ra + I.b - 1] ELSE N, base), ra)
OP_FORLOOP ==
    /\ At("FORLOOP")
    /\ LET step == R(I.a + 2).v
           idx == R(I.a).v + step
           limit == R(I.a + 1).v
           again == IF 0 < step THEN idx <= limit ELSE limit <= idx
       IN  L' = IF again THEN jumped(Put(Put(N, ra, Num(idx)), ra + 3, Num(idx)), I.b) ELSE N
OP_FORPREP ==
    /\ At("FORPREP")
    /\ LET V(j) == Num(numberof(R(I.a + j))) IN
       L' = IF \A j \in 0 .. 2 : isnumber(R(I.a + j))
            THEN jumped(Puts(N, ra, <<Num(V(0).v - V(2).v), V(1), V(2)>>), I.b)
            ELSE runerror(N, "for")
OP_TFORLOOP ==
    /\ At("TFORLOOP")
    /\ L' = luaD_call([Puts(N, ra + 3, <<R(I.a), R(I.a + 1), R(I.a + 2)>>) EXCEPT !.top = ra + 6],
                      ra + 3, I.c, [k |-> "for"])
OP_SETLIST ==
    /\ At("SETLIST")
    /\ LET open == I.b = 0
           n == IF open THEN L.top - ra - 1 ELSE I.b
           c == IF I.c = 0 THEN FrameProto(L).code[Frame(L).pc + 2].b ELSE I.c
           first == (c - 1) * LFIELDS_PER_FLUSH
           T == jumped(IF open THEN ToFrameTop(N) ELSE N, IF I.c = 0 THEN 1 ELSE 0)
           Store(S, j) == luaH_setnum(S, R(I.a).v, Num(first + j), R(I.a + j))
       IN  L' = FoldLeft(Store, T, [j \in 1 .. n |-> n + 1 - j])
OP_CLOSE == At("CLOSE") /\ L' = luaF_close(N, ra)
\* The instructions after it tell where each upvalue is.
OP_CLOSURE ==
    /\ At("CLOSURE")
    /\ LET path == Append(Callee(L).p, I.b + 1)
           nup == ProtoAt(L, path).nups
           Where(j) == FrameProto(L).code[Frame(L).pc + 1 + j]
           Capture(S, j) ==
               LET level == base + Where(j).b
                   O == opened(S, level)
               IN  IF Where(j).op = "GETUPVAL"
                   THEN [S EXCEPT !.closures[Len(S.closures)].up = Append(@, Callee(L).up[Where(j).b + 1])]
                   ELSE [O EXCEPT !.closures[Len(S.closures)].up = Append(@, luaF_findupval(S, level))]
           C == [jumped(N, nup) EXCEPT !.closures = Append(@, [p |-> path, up |-> << >>])]
           U == FoldLeft(Capture, C, [j \in 1 .. nup |-> j])
       IN  L' = Put(U, ra, [t |-> "function", v |-> Len(U.closures)])
OP_VARARG ==
    /\ At("VARARG")
    /\ LET n == Frame(L).base - Frame(L).func - FrameProto(L).numparams - 1
           wanted == IF I.b - 1 = LUA_MULTRET THEN n ELSE I.b - 1
           vs == [j \in 1 .. wanted |-> IF j <= n THEN Cell(L, base - n + j - 1) ELSE Nil]
       IN  L' = [Puts(N, ra, vs) EXCEPT !.top = IF I.b = 0 THEN ra + n ELSE @]

(* C code *)

\* Where a C function is: at its start, in a protected call, in the loop of
\* gsub, or waiting for the value that replaces a match.
PCALL == -1
GSUB == -2
VALUE == -3
InFrame(pc) == L.status = "running" /\ L.todo = Idle /\ Frame(L).pc = pc
Running(t) == Cell(L, Frame(L).func).t = t
InC(name) == InFrame(0) /\ Running("cfunction") /\ Cell(L, Frame(L).func).v = name
Args == Slice(L, base, L.top)

\* The host's function, and those of the library that programs call.
C_emit == InC("emit") /\ L' = Return([L EXCEPT !.output = @ \o Args], L.top)
C_error == InC("error") /\ L' = Throw(L, IF Args = << >> THEN Nil ELSE Args[1])
C_pcall ==
    /\ InC("pcall")
    /\ L' = IF Args = << >> THEN runerror(L, "value expected")
            ELSE luaD_call([L EXCEPT !.ci[Len(L.ci)].pc = PCALL], base, LUA_MULTRET, [k |-> "pcall"])
C_setmetatable ==
    /\ InC("setmetatable")
    /\ L' = IF Len(Args) < 2 \/ Args[1].t # "table" \/ Args[2].t \notin {"nil", "table"}
            THEN runerror(L, "table expected")
            ELSE Return([L EXCEPT !.heap[Args[1].v].mt = IF Args[2].t = "nil" THEN 0 ELSE Args[2].v,
                                  !.top = base + 1], base)

(* The string library *)

Pushed(S, vs) == [Puts(S, S.top, vs) EXCEPT !.top = @ + Len(vs)]
Returning(S, r) == IF r.err # "" THEN runerror(S, r.err) ELSE Return(Pushed(S, r.vals), S.top)
C_string == \E name \in Strings!strlib : InC(name) /\ L' = Returning(L, Strings!Apply(name, Args))

\* gmatch returns a C closure with the subject, the pattern and where it is.
C_gmatch ==
    /\ InC("gmatch")
    /\ LET wrong == Strings!luaL_argerror(Args, <<"string", "string">>)
           closure == [s |-> Args[1], p |-> Args[2], src |-> 1]
       IN  L' = IF wrong # "" THEN runerror(L, wrong)
                ELSE Returning([L EXCEPT !.cclosures = Append(@, closure)],
                               Strings!Results(<<[t |-> "cclosure", v |-> Len(L.cclosures) + 1]>>))
C_gmatch_aux ==
    /\ InFrame(0) /\ Running("cclosure")
    /\ LET which == Cell(L, Frame(L).func).v
           up == L.cclosures[which]
           next == Strings!gmatch_aux(Strings!NewMatch(Strings!Chars(up.s), Strings!Chars(up.p)), up.src)
       IN  L' = Returning([L EXCEPT !.cclosures[which].src = next.src], next.r)

\* gsub has the place it has come to, src, the number of matches, the end of
\* the last one, and the text so far.
Gsub == Frame(L).c
Subject == Strings!Chars(Args[1])
Pattern == Strings!Chars(Args[2])
Replacement == Args[3]
Going(S, c) == [S EXCEPT !.ci[Len(S.ci)].pc = GSUB, !.ci[Len(S.ci)].c = c]
C_gsub ==
    /\ InC("gsub")
    /\ LET wrong == Strings!luaL_argerror(Args, <<"string", "string">>)
           type == Strings!Arg(Args, 3).t
           limit == Strings!Arg(Args, 4)
       IN  L' = IF wrong # "" THEN runerror(L, wrong)
                ELSE IF limit.t # "nil" /\ ~ isnumber(limit) THEN runerror(L, "number expected")
                ELSE IF type \notin {"num", "str", "table"} /\ ~ isfunction(Strings!Arg(Args, 3))
                THEN runerror(L, "string/function/table expected")
                ELSE Going(L, [src |-> 1, n |-> 0, e |-> 0, b |-> ""])

GsubEnds(c) ==
    Returning(L, Strings!Results(<<Str(c.b \o Strings!Part(Subject, c.src, Len(Subject) + 1)), Num(c.n)>>))
\* After a match of c.e - c.src characters, or none if c.e is 0.
advance(S, c) ==
    LET next == IF c.e > c.src THEN [c EXCEPT !.src = c.e]
                ELSE [c EXCEPT !.src = @ + 1, !.b = @ \o Subject[c.src]]
    IN  IF c.e <= c.src /\ c.src > Len(Subject) THEN GsubEnds(c)
        ELSE IF Strings!Anchored(Pattern) THEN GsubEnds(next) ELSE Going(S, next)

\* What M matched is replaced: by a string, by what a function returns or by
\* what a table holds.
add_value(M) ==
    LET c == [Gsub EXCEPT !.n = @ + 1, !.e = M.at]
        news == Strings!add_s(M, Strings!Chars(Replacement), Gsub.src, M.at)
        captures == Strings!push_captures(M, Gsub.src, M.at)
        first == Strings!push_onecapture(M, 1, Gsub.src, M.at)
        W == [Going(L, c) EXCEPT !.ci[Len(L.ci)].pc = VALUE]
    IN  CASE M.err # "" -> runerror(L, M.err)
          [] M.at = 0 -> advance(L, [Gsub EXCEPT !.e = 0])
          [] isstring(Replacement) ->
               IF news.err # "" THEN runerror(L, news.err)
               ELSE advance(L, [c EXCEPT !.b = @ \o news.vals[1].v])
          [] isfunction(Replacement) ->
               IF captures.err # "" THEN runerror(L, captures.err)
               ELSE luaD_call(Pushed(W, <<Replacement>> \o captures.vals), L.top, 1, [k |-> "none"])
          [] OTHER ->
               IF first.err # "" THEN runerror(L, first.err)
               ELSE luaV_gettable(Pushed(W, first.vals), Replacement, first.vals[1], L.top, 0)
GsubPass ==
    /\ InFrame(GSUB)
    /\ L' = IF Gsub.n >= Strings!luaL_optinteger(Args, 4, Len(Subject) + 1) THEN GsubEnds(Gsub)
            ELSE add_value(Strings!match(Strings!NewMatch(Subject, Pattern), Gsub.src,
                                       Strings!First(Pattern)))
\* A value that is false keeps the match.
GsubValue ==
    /\ InFrame(VALUE)
    /\ LET v == Cell(L, L.top - 1)
           P == [L EXCEPT !.top = @ - 1]
           text == IF IsFalse(v) THEN Strings!Part(Subject, Gsub.src, Gsub.e) ELSE luaV_tostring(v)
       IN  L' = IF ~ IsFalse(v) /\ ~ isstring(v) THEN runerror(L, "invalid replacement value")
                ELSE advance(P, [Gsub EXCEPT !.b = @ \o text])

Doing(k) == L.status = "running" /\ L.todo.k = k
Resumed == [L EXCEPT !.todo = Idle]

\* The innermost protected call returns false and the error (luaD_throw,
\* luaD_pcall, luaB_pcall).
Unwind ==
    /\ Doing("throw")
    /\ LET handlers == {i \in DOMAIN L.ci : L.ci[i].pc = PCALL}
           h == CHOOSE i \in handlers : \A j \in handlers : j <= i
           oldtop == L.ci[h].base
           U == [luaF_close(Resumed, oldtop) EXCEPT !.ci = SubSeq(@, 1, h)]
       IN  L' = IF handlers = {} THEN [Resumed EXCEPT !.status = "error", !.error = L.todo.v]
                ELSE Return([Puts(U, oldtop, <<Bool(FALSE), L.todo.v>>) EXCEPT !.top = oldtop + 2], oldtop)
EndPcall == Doing("return") /\ L' = Return(Resumed, L.todo.first)
Concat == Doing("concat") /\ L' = luaV_concat(Resumed, L.todo.total, L.todo.last)

Halted == L.status # "running" /\ UNCHANGED L

Next ==
    \/ OP_MOVE \/ OP_LOADK \/ OP_LOADBOOL \/ OP_LOADNIL \/ OP_GETUPVAL \/ OP_SETUPVAL
    \/ OP_GETGLOBAL \/ OP_SETGLOBAL \/ OP_GETTABLE \/ OP_SETTABLE \/ OP_NEWTABLE \/ OP_SELF
    \/ OP_ARITH \/ OP_UNM \/ OP_NOT \/ OP_LEN \/ OP_CONCAT \/ OP_JMP \/ OP_EQ \/ OP_LT \/ OP_LE
    \/ OP_TEST \/ OP_TESTSET \/ OP_CALL \/ OP_TAILCALL \/ OP_RETURN \/ OP_FORLOOP \/ OP_FORPREP
    \/ OP_TFORLOOP \/ OP_SETLIST \/ OP_CLOSE \/ OP_CLOSURE \/ OP_VARARG
    \/ C_emit \/ C_error \/ C_pcall \/ C_setmetatable
    \/ C_string \/ C_gmatch \/ C_gmatch_aux \/ C_gsub \/ GsubPass \/ GsubValue
    \/ Unwind \/ EndPcall \/ Concat \/ Halted

Spec == Init /\ [][Next]_vars
=============================================================================
