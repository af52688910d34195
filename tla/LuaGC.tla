------------------------------- MODULE LuaGC --------------------------------
(***************************************************************************)
(* The incremental collector of Lua (lgc.c) between the instructions of a  *)
(* program: marking in small steps with write barriers, an atomic step that*)
(* ends it, sweeping in small steps, finalizers, weak tables, and the      *)
(* objects that are brought back while they wait to be swept (interned     *)
(* strings in lstring.c, open upvalues in lfunc.c).                        *)
(*                                                                         *)
(* g is the global_State.  An object is a number and g.obj its record, so  *)
(* an object that has been freed is outside DOMAIN g.obj; Nil is no object.*)
(* `marked' is a set of bits.  The lists linked through `next' and         *)
(* `gclist' are sequences, and a pointer into a list is the number of      *)
(* elements before it.  The debt that decides when the collector steps is  *)
(* left out: it may step between any two operations of the program.        *)
(*                                                                         *)
(* The registry and the table of globals are one table here, Globals.      *)
(***************************************************************************)
EXTENDS Integers, SequencesExt, FiniteSetsExt, TLC

CONSTANTS
    Programs,       \* what programs do: kinds of objects and how many
    Hash(_),        \* the hash of the content of a string
    GCSWEEPMAX,     \* elements swept in a step
    MINSTRTABSIZE,  \* the smallest table of strings
    Registers       \* registers of a thread

VARIABLES g, prog, done

vars == <<g, prog, done>>

Nil == 0
MainThread == 1
Globals == 2
Index == -1         \* a key that is not collectable

Bits == {"white0", "white1", "black", "finalized", "keyweak", "valueweak", "fixed", "sfixed"}
WHITEBITS == {"white0", "white1"}

(* Colours *)

marked(S, o) == S.obj[o].marked
iswhite(S, o) == marked(S, o) \cap WHITEBITS # {}
isblack(S, o) == "black" \in marked(S, o)
isgray(S, o) == ~ iswhite(S, o) /\ ~ isblack(S, o)
otherwhite(S) == CHOOSE w \in WHITEBITS : w # S.currentwhite
isdead(S, o) == otherwhite(S) \in marked(S, o)

white2gray(S, o) == [S EXCEPT !.obj[o].marked = @ \ WHITEBITS]
gray2black(S, o) == [S EXCEPT !.obj[o].marked = @ \cup {"black"}]
black2gray(S, o) == [S EXCEPT !.obj[o].marked = @ \ {"black"}]
makewhite(S, o) == [S EXCEPT !.obj[o].marked = (@ \ (WHITEBITS \cup {"black"})) \cup {S.currentwhite}]
changewhite(S, o) ==
    [S EXCEPT !.obj[o].marked = {IF b \in WHITEBITS THEN CHOOSE w \in WHITEBITS : w # b ELSE b : b \in @}]
stringmark(S, o) == white2gray(S, o)

(* Marking *)

\* The register or the place of its own where an upvalue keeps its value.
isopen(uv) == uv.th # Nil
UpValue(S, uv) == IF isopen(uv) THEN S.obj[uv.th].regs[uv.level] ELSE uv.v

RECURSIVE reallymarkobject(_, _)
markobject(S, o) == IF o \in DOMAIN S.obj /\ iswhite(S, o) THEN reallymarkobject(S, o) ELSE S
markobjects(S, os) == FoldLeft(markobject, S, os)
\* Userdata are never gray, and open upvalues never black.
blackclosed(S, uv) == IF isopen(S.obj[uv]) THEN S ELSE gray2black(S, uv)
markinside(S, o) ==
    LET x == S.obj[o] IN
    CASE x.tt = "string" -> S
      [] x.tt = "userdata" -> markobjects(gray2black(S, o), <<x.mt, x.env>>)
      [] x.tt = "upval" -> blackclosed(markobject(S, UpValue(S, x)), o)
      [] OTHER -> [S EXCEPT !.gray = <<o>> \o @]
reallymarkobject(S, o) == markinside(white2gray(S, o), o)

\* What the metatable mt says under __mode and __gc.
WeakKeys(S, mt) == mt # Nil /\ S.obj[mt].mode \in {"k", "kv"}
WeakValues(S, mt) == mt # Nil /\ S.obj[mt].mode \in {"v", "kv"}
HasGC(S, mt) == mt \in DOMAIN S.obj /\ S.obj[mt].gc

\* The entry of an empty value keeps no key.
removeentries(S, h) ==
    [S EXCEPT !.obj[h].items = [i \in DOMAIN @ |-> IF @[i].v = Nil THEN [k |-> Index, v |-> Nil] ELSE @[i]]]

SetWeak(S, h, bits) ==
    IF bits = {} THEN S
    ELSE [S EXCEPT !.obj[h].marked = (@ \ {"keyweak", "valueweak"}) \cup bits, !.weak = <<h>> \o @]
markentries(S, h, bits) ==
    LET items == S.obj[h].items IN
    markobjects(S, (IF "keyweak" \in bits THEN << >> ELSE [i \in DOMAIN items |-> items[i].k])
                   \o (IF "valueweak" \in bits THEN << >> ELSE [i \in DOMAIN items |-> items[i].v]))
\* A weak table stays gray, and if both are weak nothing of it is visited.
graytable(S, h, bits) == IF bits = {} THEN S ELSE black2gray(S, h)
traversetable(S, h) ==
    LET mt == S.obj[h].mt
        bits == (IF WeakKeys(S, mt) THEN {"keyweak"} ELSE {}) \cup (IF WeakValues(S, mt) THEN {"valueweak"} ELSE {})
        W(T) == SetWeak(markobject(T, mt), h, bits)
    IN  IF Cardinality(bits) = 2 THEN graytable(W(S), h, bits)
        ELSE graytable(markentries(removeentries(W(S), h), h, bits), h, bits)

traverseproto(S, f) == markobjects(FoldLeft(stringmark, S, S.obj[f].k), S.obj[f].p)
traverseclosure(S, cl) == markobjects(S, <<S.obj[cl].env, S.obj[cl].p>> \o S.obj[cl].upvals)
\* A thread that resumed another keeps it on its stack.
Resumed(S, th) == LET i == SelectInSeq(S.running, LAMBDA t : t = th) IN
                  IF i \in 1..Len(S.running) - 1 THEN S.running[i + 1] ELSE Nil
traversestack(S, th) == markobjects(S, <<Globals, Resumed(S, th)>> \o S.obj[th].regs)

\* One gray object becomes black; a weak table stays gray and a thread, whose
\* stack has no barrier, is traversed again in the atomic step.
traverseobject(S, o) ==
    CASE S.obj[o].tt = "table" -> traversetable(S, o)
      [] S.obj[o].tt = "function" -> traverseclosure(S, o)
      [] S.obj[o].tt = "thread" -> traversestack([black2gray(S, o) EXCEPT !.grayagain = <<o>> \o @], o)
      [] S.obj[o].tt = "proto" -> traverseproto(S, o)
propagatemark(S) == traverseobject(gray2black([S EXCEPT !.gray = Tail(@)], Head(S.gray)), Head(S.gray))
\* An object is gray once.
propagateall(S) == FoldSet(LAMBDA o, T : IF T.gray = << >> THEN T ELSE propagatemark(T), S, DOMAIN S.obj)

markroot(S) ==
    markobjects([S EXCEPT !.gray = << >>, !.grayagain = << >>, !.weak = << >>, !.gcstate = "propagate"],
                <<MainThread, Globals>>)

\* (Mutant: the upvalues of a thread that is not marked are left alone.)
remarkupvalsNone(S) == S
\* Open upvalues that are marked although their thread may not be (uvhead).
remarkupvals(S) ==
    LET open == {u \in DOMAIN S.obj : S.obj[u].tt = "upval" /\ isopen(S.obj[u]) /\ isgray(S, u)} IN
    FoldSet(LAMBDA u, T : markobject(T, UpValue(T, T.obj[u])), S, open)

(* Finalizers and weak tables *)

\* Userdata follow the main thread in the list of all objects.
Before(S) == SelectInSeq(S.rootgc, LAMBDA o : o = MainThread)
\* (Mutants: they are not marked as separated; they are put at the front.)
luaC_separateudataAgain(S, all) ==
    LET waiting == SelectSeq(SubSeq(S.rootgc, Before(S) + 1, Len(S.rootgc)),
                       LAMBDA u : (iswhite(S, u) \/ all) /\ HasGC(S, S.obj[u].mt))
    IN  [S EXCEPT !.rootgc = SelectSeq(@, LAMBDA o : o \notin ToSet(waiting)), !.tmudata = @ \o waiting]
luaC_separateudata(S, all) ==
    LET udata == SubSeq(S.rootgc, Before(S) + 1, Len(S.rootgc))
        Separate(T, u) ==
            IF ~ (iswhite(T, u) \/ all) \/ "finalized" \in marked(T, u) THEN T
            ELSE LET F == [T EXCEPT !.obj[u].marked = @ \cup {"finalized"}] IN
                 IF ~ HasGC(T, T.obj[u].mt) THEN F
                 ELSE [F EXCEPT !.rootgc = SelectSeq(@, LAMBDA o : o # u), !.tmudata = Append(@, u)]
    IN  FoldLeft(Separate, S, udata)
marktmu(S) == FoldLeft(LAMBDA T, u : reallymarkobject(makewhite(T, u), u), S, S.tmudata)

\* A value or key that a weak table loses; strings are values and never lost.
iscleared(S, o, iskey) ==
    /\ o \in DOMAIN S.obj /\ S.obj[o].tt # "string"
    /\ iswhite(S, o) \/ (S.obj[o].tt = "userdata" /\ ~ iskey /\ "finalized" \in marked(S, o))
cleartable(S) ==
    LET weaktables == ToSet(S.weak)
        Lost(h, e) == IF e.k = Index THEN "valueweak" \in marked(S, h) /\ iscleared(S, e.v, FALSE)
                      ELSE iscleared(S, e.k, TRUE) \/ iscleared(S, e.v, FALSE)
        Entries(h) == {e \in ToSet(S.obj[h].items) : e.v # Nil}
        kept == UNION {UNION {{e.k} \cup (IF iscleared(S, e.k, TRUE) THEN {} ELSE {e.v}) : e \in Entries(h)} :
                          h \in weaktables}
        strings == {s \in kept \cap DOMAIN S.obj : S.obj[s].tt = "string"}
        C == [S EXCEPT !.obj = [h \in DOMAIN @ |->
                 IF h \in weaktables
                 THEN [@[h] EXCEPT !.items = [i \in DOMAIN @ |->
                          IF @[i].v # Nil /\ Lost(h, @[i]) THEN [k |-> Index, v |-> Nil] ELSE @[i]]]
                 ELSE @[h]]]
    IN  FoldSet(LAMBDA s, T : stringmark(T, s), C, strings)

\* The weak tables and the running thread, then what is gray again.
remarkweak(S) == markobject([S EXCEPT !.gray = S.weak, !.weak = << >>], Last(S.running))
remarkgray(S) == [S EXCEPT !.gray = S.grayagain, !.grayagain = << >>]
flipwhite(S) ==
    [S EXCEPT !.currentwhite = otherwhite(S), !.sweepstrgc = 0, !.sweepgc = 0, !.gcstate = "sweepstring"]
remark(S) == propagateall(remarkgray(propagateall(remarkweak(propagateall(remarkupvals(S))))))
atomic(S) == flipwhite(cleartable(propagateall(marktmu(luaC_separateudata(remark(S), FALSE)))))

(* Lists of objects *)

\* What is used again while it waits to be freed is brought back.
\* (Mutant: it is not.)
ResurrectNot(S, o) == S
Resurrect(S, o) == IF isdead(S, o) THEN changewhite(S, o) ELSE S

New(S, x) == x @@ [marked |-> {S.currentwhite}]
Free(S, o) == [S EXCEPT !.obj = [x \in DOMAIN @ \ {o} |-> @[x]]]

luaC_barrierf(S, o, v) == IF S.gcstate = "propagate" THEN reallymarkobject(S, v) ELSE makewhite(S, o)
luaC_barrier(S, o, v) ==
    IF v \in DOMAIN S.obj /\ iswhite(S, v) /\ isblack(S, o) THEN luaC_barrierf(S, o, v) ELSE S
\* (Mutant: the table stays black.)
luaC_barrierbackBlack(S, t) == [S EXCEPT !.grayagain = <<t>> \o @]
luaC_barrierback(S, t) == [black2gray(S, t) EXCEPT !.grayagain = <<t>> \o @]
luaC_barriert(S, t, v) ==
    IF v \in DOMAIN S.obj /\ iswhite(S, v) /\ isblack(S, t) THEN luaC_barrierback(S, t) ELSE S

\* At the front; a position that is not the front moves with its element.
Linked(S, o) == [S EXCEPT !.rootgc = <<o>> \o @, !.sweepgc = IF @ = 0 THEN 0 ELSE @ + 1]
luaC_link(S, o, x) == Linked([S EXCEPT !.obj = @ @@ (o :> New(S, x))], o)
luaC_linkupval(S, uv) ==
    IF ~ isgray(S, uv) THEN Linked(S, uv)
    ELSE IF S.gcstate = "propagate" THEN luaC_barrier(gray2black(Linked(S, uv), uv), uv, S.obj[uv].v)
    ELSE makewhite(Linked(S, uv), uv)

\* Open upvalues of a thread, from the highest register down.
luaF_findupval(S, th, level, new) ==
    LET found == {u \in ToSet(S.obj[th].openupval) : S.obj[u].level = level}
        above == SelectSeq(S.obj[th].openupval, LAMBDA u : S.obj[u].level > level)
        below == SelectSeq(S.obj[th].openupval, LAMBDA u : S.obj[u].level < level)
    IN  IF found # {} THEN LET u == CHOOSE f \in found : TRUE IN
                           [S |-> Resurrect(S, u), uv |-> u]
        ELSE [S |-> [S EXCEPT !.obj = [@ EXCEPT ![th].openupval = above \o <<new>> \o below]
                                      @@ (new :> New(S, [tt |-> "upval", th |-> th, level |-> level, v |-> Nil]))],
              uv |-> new]
luaF_close(S, th, level) ==
    LET Close(T, uv) ==
            LET P == [T EXCEPT !.obj[th].openupval = Tail(@)] IN
            IF isdead(T, uv) THEN Free(P, uv)
            ELSE luaC_linkupval([P EXCEPT !.obj[uv].v = UpValue(T, T.obj[uv]), !.obj[uv].th = Nil], uv)
    IN  FoldLeft(Close, S, SelectSeq(S.obj[th].openupval, LAMBDA u : S.obj[u].level >= level))
luaE_freethread(S, th) == Free(luaF_close(S, th, 1), th)
freeobj(S, o) == IF S.obj[o].tt = "thread" THEN luaE_freethread(S, o) ELSE Free(S, o)

(* Sweeping *)

Survives(S, o) == ~ isdead(S, o) \/ "fixed" \in marked(S, o)
\* The strings of a bucket or the open upvalues of a thread.
SweepShort(S, list) == FoldLeft(LAMBDA T, o : IF Survives(S, o) THEN makewhite(T, o) ELSE Free(T, o), S, list)
Survivors(S, list) == SelectSeq(list, LAMBDA o : Survives(S, o))

SweepUpvalues(S, o) ==
    IF S.obj[o].tt # "thread" THEN S
    ELSE [SweepShort(S, S.obj[o].openupval) EXCEPT !.obj[o].openupval = Survivors(S, S.obj[o].openupval)]
SweepObject(S, curr) ==
    IF Survives(S, curr) THEN [makewhite(S, curr) EXCEPT !.sweepgc = @ + 1]
    ELSE freeobj([S EXCEPT !.rootgc = RemoveAt(@, S.sweepgc + 1)], curr)
SweepOne(S) == SweepObject(SweepUpvalues(S, S.rootgc[S.sweepgc + 1]), S.rootgc[S.sweepgc + 1])
AllSwept(S) == S.sweepgc >= Len(S.rootgc)
sweeplist(S) == FoldLeft(LAMBDA T, i : IF AllSwept(T) THEN T ELSE SweepOne(T), S, [i \in 1..GCSWEEPMAX |-> i])

nuse(S) == FoldLeft(LAMBDA n, b : n + Len(b), 0, S.strt)
lmod(h, size) == (h % size) + 1
\* Rehashing turns the order of every bucket round.
luaS_resize(S, newsize) ==
    IF S.gcstate = "sweepstring" THEN S
    ELSE [S EXCEPT !.strt = [i \in 1..newsize |->
             Reverse(SelectSeq(FlattenSeq(S.strt), LAMBDA s : lmod(Hash(S.obj[s].s), newsize) = i))]]
checkSizes(S) ==
    IF nuse(S) < Len(S.strt) \div 4 /\ Len(S.strt) > MINSTRTABSIZE * 2
    THEN luaS_resize(S, Len(S.strt) \div 2) ELSE S

StringsSwept(S) == IF S.sweepstrgc >= Len(S.strt) THEN [S EXCEPT !.gcstate = "sweep"] ELSE S
sweepstring(S) ==
    LET i == S.sweepstrgc + 1 IN
    StringsSwept([SweepShort(S, S.strt[i]) EXCEPT !.strt[i] = Survivors(S, @), !.sweepstrgc = i])
ObjectsSwept(S) == IF AllSwept(S) THEN [checkSizes(S) EXCEPT !.gcstate = "finalize"] ELSE S
sweep(S) == ObjectsSwept(sweeplist(S))

\* The finalizer gets the userdata in a register of the running thread, if
\* one is free, and what it does with it are the next steps of the program.
GCTM(S) ==
    LET u == Head(S.tmudata)
        th == Last(S.running)
        T == makewhite([S EXCEPT !.tmudata = Tail(@), !.rootgc = InsertAt(@, Before(S) + 1, u)], u)
        free == {r \in 1..Registers : S.obj[th].regs[r] = Nil}
    IN  IF ~ HasGC(S, S.obj[u].mt) THEN T
        ELSE [T EXCEPT !.obj[u].calls = @ + 1,
                       !.obj[th].regs = IF free = {} THEN @ ELSE [@ EXCEPT ![Min(free)] = u]]

singlestep(S) ==
    CASE S.gcstate = "pause" -> markroot(S)
      [] S.gcstate = "propagate" /\ S.gray # << >> -> propagatemark(S)
      [] S.gcstate = "propagate" /\ S.gray = << >> -> atomic(S)
      [] S.gcstate = "sweepstring" -> sweepstring(S)
      [] S.gcstate = "sweep" -> sweep(S)
      [] S.gcstate = "finalize" /\ S.tmudata # << >> -> GCTM(S)
      [] OTHER -> [S EXCEPT !.gcstate = "pause"]
\* Each object is marked and swept, each bucket swept.
stepsToFinalize(S) ==
    FoldSet(LAMBDA i, T : IF T.gcstate = "finalize" THEN T ELSE singlestep(T), S,
            1..2 * Cardinality(DOMAIN S.obj) + Len(S.strt) + 3)

\* (Mutant: the cycle that has begun is the last.)
luaC_fullgcOnce(S) == stepsToFinalize(IF S.gcstate = "finalize" THEN markroot(S) ELSE S)
\* Up to the finalizers, which are called in the next steps.
Reset(S) ==
    IF S.gcstate \in {"pause", "propagate"}
    THEN [S EXCEPT !.sweepstrgc = 0, !.sweepgc = 0, !.gray = << >>, !.grayagain = << >>, !.weak = << >>,
                   !.gcstate = "sweepstring"]
    ELSE S
luaC_fullgc(S) == stepsToFinalize(markroot(stepsToFinalize(Reset(S))))

(* What the program does.  A step of the collector falls between two of    *)
(* these operations (luaC_checkGC), each of which leaves what it made in a *)
(* register of the running thread.                                         *)

L == Last(g.running)
regs == g.obj[L].regs
Held == {regs[r] : r \in 1..Registers} \ {Nil}
IsA(o, tt) == o \in DOMAIN g.obj /\ g.obj[o].tt = tt
HeldA(tt) == {o \in Held : IsA(o, tt)}
Tables == (IF "fields" \in prog.ops THEN HeldA("table") ELSE {}) \cup (IF "globals" \in prog.ops THEN {Globals} ELSE {})
Unused == (3..prog.max) \ DOMAIN g.obj
FreeRegisters == {r \in 1..Registers : regs[r] = Nil}

\* While the state closes the program runs in finalizers only.
Finalizers == {u \in DOMAIN g.obj : IsA(u, "userdata") /\ g.obj[u].calls > 0}
Does(ops) ==
    /\ ops \cap prog.ops # {} /\ done < prog.steps /\ g.gcstate # "closed" /\ (g.closing => Finalizers # {})
    /\ done' = done + 1 /\ UNCHANGED prog
Put(S, v) == [S EXCEPT !.obj[L].regs[Min(FreeRegisters)] = v]
Makes(op) == Does({op}) /\ FreeRegisters # {} /\ Unused # {}
Made(S) == [S EXCEPT !.born = @ + 1]
Link(x) == g' = Put(Made(luaC_link(g, Min(Unused), x)), Min(Unused))

EmptyTable(mode, gc) ==
    [tt |-> "table", mt |-> Nil, mode |-> mode, gc |-> gc, items |-> << [k |-> Index, v |-> Nil] >>]
EmptyThread == [tt |-> "thread", regs |-> [r \in 1..Registers |-> Nil], openupval |-> << >>]
EmptyProto == [tt |-> "proto", k |-> << >>, p |-> << >>]

NewTable == Makes("table") /\ Link(EmptyTable(prog.mode, prog.gc))
NewThread == Makes("thread") /\ Link(EmptyThread)
OpenFunc == Makes("proto") /\ Link(EmptyProto)

luaS_newudata ==
    /\ Makes("userdata")
    /\ LET u == Min(Unused)
           x == [tt |-> "userdata", mt |-> Nil, env |-> Globals, calls |-> 0, born |-> g.born + 1]
           S == [g EXCEPT !.obj = @ @@ (u :> New(g, x)),
                          !.rootgc = InsertAt(@, Before(g) + 1, u),
                          !.sweepgc = IF @ > Before(g) THEN @ + 1 ELSE @]
       IN  g' = Put(Made(S), u)

\* The string with this content, new or found; found dead, it is brought back.
newlstr(S, s, new) ==
    LET h == lmod(Hash(s), Len(S.strt))
        N == [S EXCEPT !.obj = @ @@ (new :> New(S, [tt |-> "string", s |-> s])), !.strt[h] = <<new>> \o @]
    IN  IF nuse(N) > Len(N.strt) THEN luaS_resize(N, Len(N.strt) * 2) ELSE N
\* (Mutant: a dead string is passed over.)
findstringAlive(S, s) == {o \in ToSet(S.strt[lmod(Hash(s), Len(S.strt))]) : S.obj[o].s = s /\ ~ isdead(S, o)}
findstring(S, s) == {o \in ToSet(S.strt[lmod(Hash(s), Len(S.strt))]) : S.obj[o].s = s}
luaS_newlstr(s) ==
    LET found == findstring(g, s) IN
    /\ Does({"string"}) /\ FreeRegisters # {}
    /\ IF found # {} THEN \E o \in found : g' = Put(Resurrect(g, o), o)
           ELSE Makes("string") /\ g' = Put(Made(newlstr(g, s, Min(Unused))), Min(Unused))

\* OP_CLOSURE for a register of the thread or for the upvalue of a closure,
\* of a prototype of the program or of the main chunk, which is left out.
Closure(p, uv) == [tt |-> "function", env |-> Globals, p |-> p, upvals |-> uv]
Protos == IF "proto" \in prog.ops THEN HeldA("proto") ELSE {Nil}
ClosureOfRegister(level) ==
    /\ Makes("closure") /\ level \in 1..Registers
    /\ \/ Cardinality(Unused) > 1
       \/ \E u \in ToSet(g.obj[L].openupval) : g.obj[u].level = level
    /\ \E p \in Protos :
          LET f == Min(Unused)
              new == IF Unused = {f} THEN Nil ELSE Min(Unused \ {f})
              F == luaF_findupval(luaC_link(g, f, Closure(p, << >>)), L, level, new)
          IN  g' = Put(Made([F.S EXCEPT !.obj[f].upvals = <<F.uv>>]), f)
ClosureOfUpvalue ==
    Makes("closure") /\ \E p \in Protos, f \in HeldA("function") : Link(Closure(p, g.obj[f].upvals))
\* A C function keeps the value itself.
lua_pushcclosure == Makes("cclosure") /\ \E v \in Held : Link(Closure(Nil, <<v>>))

Clear == Does({"clear"}) /\ \E r \in 1..Registers : regs[r] # Nil /\ g' = [g EXCEPT !.obj[L].regs[r] = Nil]

\* luaH_set finds the entry or makes one with the key, then the value is set.
luaV_settable ==
    /\ Does({"fields", "globals"})
    /\ \E t \in Tables, v \in Held \cup {Nil}, k \in {Index} \cup (IF "keys" \in prog.ops THEN Held ELSE {}) :
         LET i == IF \E e \in DOMAIN g.obj[t].items : g.obj[t].items[e].k = k
                  THEN CHOOSE e \in DOMAIN g.obj[t].items : g.obj[t].items[e].k = k ELSE 0
             free == {e \in DOMAIN g.obj[t].items : g.obj[t].items[e].v = Nil}
             K == IF i # 0 THEN g ELSE luaC_barriert([g EXCEPT !.obj[t].items[Min(free)].k = k], t, k)
             e == IF i # 0 THEN i ELSE Min(free)
         IN  /\ i # 0 \/ (free # {} /\ v # Nil)
             /\ g' = luaC_barriert([K EXCEPT !.obj[t].items[e].v = v], t, v)
\* By key, or both by next().
luaV_gettable ==
    /\ Does({"fields", "globals"})
    /\ FreeRegisters # {}
    /\ \E t \in Tables : \E e \in ToSet(g.obj[t].items) :
          e.v # Nil /\ \E v \in {e.k, e.v} \ {Index} : g' = Put(g, v)

\* Once for an object.
lua_setmetatable ==
    /\ Does({"setmetatable"})
    /\ \E mt \in HeldA("table") :
          \/ \E t \in HeldA("table") : g.obj[t].mt = Nil /\ g' = luaC_barriert([g EXCEPT !.obj[t].mt = mt], t, mt)
          \/ \E u \in HeldA("userdata") : g.obj[u].mt = Nil /\ g' = luaC_barrier([g EXCEPT !.obj[u].mt = mt], u, mt)
lua_setfenv ==
    /\ Does({"setfenv"})
    /\ \E e \in HeldA("table"), o \in HeldA("function") \cup HeldA("userdata") :
          g' = luaC_barrier([g EXCEPT !.obj[o].env = e], o, e)

GetUpval ==
    /\ Does({"upval"}) /\ FreeRegisters # {}
    /\ \E f \in HeldA("function") : \E u \in ToSet(g.obj[f].upvals) :
          g' = Put(g, IF IsA(u, "upval") THEN UpValue(g, g.obj[u]) ELSE u)
SetUpval ==
    /\ Does({"upval"})
    /\ \E f \in HeldA("function"), v \in Held : \E u \in ToSet(g.obj[f].upvals) :
          g' = IF ~ IsA(u, "upval") THEN luaC_barrier([g EXCEPT !.obj[f].upvals = <<v>>], f, v)
               ELSE IF isopen(g.obj[u]) THEN [g EXCEPT !.obj[g.obj[u].th].regs[g.obj[u].level] = v]
               ELSE luaC_barrier([g EXCEPT !.obj[u].v = v], u, v)
OP_CLOSE == Does({"close"}) /\ \E level \in 1..Registers :
                g' = [luaF_close(g, L, level) EXCEPT !.obj[L].regs[level] = Nil]

\* The parser adds a constant or an inner function to the one it compiles.
addk == /\ Does({"proto"})
        /\ \E f \in HeldA("proto"), s \in HeldA("string") :
              g.obj[f].k = << >> /\ g' = luaC_barrier([g EXCEPT !.obj[f].k = <<s>>], f, s)
pushclosure ==
        /\ Does({"proto"})
        /\ \E f, p \in HeldA("proto") :
              f # p /\ g.obj[f].p = << >> /\ g' = luaC_barrier([g EXCEPT !.obj[f].p = <<p>>], f, p)

\* Values move between the two stacks without a barrier.
Moved(S, th, v) == LET free == {r \in 1..Registers : S.obj[th].regs[r] = Nil} IN
                   IF free = {} THEN S ELSE [S EXCEPT !.obj[th].regs[Min(free)] = v]
lua_resume == /\ Does({"thread"})
              /\ \E co \in HeldA("thread"), v \in Held \cup {Nil} :
                    co \notin ToSet(g.running) /\ g' = Moved([g EXCEPT !.running = Append(@, co)], co, v)
lua_yield == /\ Does({"thread"}) /\ Len(g.running) > 1
             /\ \E v \in Held \cup {Nil} :
                   g' = Moved([g EXCEPT !.running = Front(@)], g.running[Len(g.running) - 1], v)

Collect == Does({"fullgc"}) /\ g' = luaC_fullgc(g)

\* The collector's own step.  While the state closes there is none: GCTM puts
\* the threshold at twice what is allocated.
luaC_step == UNCHANGED <<prog, done>> /\ g.gcstate # "closed" /\ ~ g.closing /\ g' = singlestep(g)

\* The host closes the state: all finalizers are called, then all is freed.
lua_close ==
    /\ "exit" \in prog.ops /\ ~ g.closing /\ UNCHANGED <<prog, done>>
    /\ LET S == [luaF_close(g, MainThread, 1) EXCEPT !.running = <<MainThread>>, !.closing = TRUE] IN
       g' = [luaC_separateudata(S, TRUE) EXCEPT !.obj[MainThread].regs = [r \in 1..Registers |-> Nil]]
luaC_callGCTM == UNCHANGED <<prog, done>> /\ g.closing /\ g.tmudata # << >> /\ g' = GCTM(g)
\* Everything but the main thread, which alone has the bit sfixed.
\* (Mutant: the strings are left.)
luaC_freeallButStrings(S) ==
    LET kept == {o \in DOMAIN S.obj : "sfixed" \in marked(S, o) \/ S.obj[o].tt = "string"} IN
    [S EXCEPT !.obj = [o \in kept |-> @[o]], !.rootgc = SelectSeq(@, LAMBDA o : o \in kept), !.gcstate = "closed"]
luaC_freeall(S) ==
    LET kept == {o \in DOMAIN S.obj : "sfixed" \in marked(S, o)} IN
    [S EXCEPT !.obj = [o \in kept |-> @[o]], !.rootgc = SelectSeq(@, LAMBDA o : o \in kept),
              !.strt = [i \in DOMAIN @ |-> << >>], !.gcstate = "closed"]
close_state ==
    /\ g.closing /\ g.tmudata = << >> /\ g.gcstate # "closed" /\ UNCHANGED <<prog, done>>
    /\ g' = luaC_freeall(luaF_close(g, MainThread, 1))

Next ==
    \/ NewTable \/ NewThread \/ OpenFunc \/ luaS_newudata
    \/ \E s \in prog.strings : luaS_newlstr(s)
    \/ \E level \in 1..Registers : ClosureOfRegister(level)
    \/ ClosureOfUpvalue \/ lua_pushcclosure \/ Clear
    \/ luaV_settable \/ luaV_gettable \/ lua_setmetatable \/ lua_setfenv
    \/ GetUpval \/ SetUpval \/ OP_CLOSE \/ addk \/ pushclosure
    \/ lua_resume \/ lua_yield \/ Collect
    \/ luaC_step \/ lua_close \/ luaC_callGCTM \/ close_state

lua_newstate ==
    [obj |-> (MainThread :> (EmptyThread @@ [marked |-> {"white0", "fixed", "sfixed"}]))
             @@ (Globals :> (EmptyTable("", FALSE) @@ [marked |-> {"white0"}])),
     currentwhite |-> "white0", gcstate |-> "pause", gray |-> << >>, grayagain |-> << >>, weak |-> << >>,
     tmudata |-> << >>, rootgc |-> <<Globals, MainThread>>, sweepstrgc |-> 0, sweepgc |-> 0,
     strt |-> [i \in 1..MINSTRTABSIZE |-> << >>], running |-> <<MainThread>>, closing |-> FALSE, born |-> 0]
\* A coroutine that made a function of one of its registers and yielded it.
Suspended ==
    LET T == luaC_link(luaC_link(lua_newstate, 3, EmptyThread), 4, Closure(Nil, <<5>>))
        S == [luaF_findupval(T, 3, 1, 5).S EXCEPT !.obj[MainThread].regs = [@ EXCEPT ![1] = 3, ![2] = 4]]
    IN  Made(Made(S))
Init == prog \in Programs /\ done = 0 /\ g = IF prog.suspended THEN Suspended ELSE lua_newstate
Spec == Init /\ [][Next]_vars

(* Properties *)

\* What an object refers to; through a strong reference only, or any.
Refers(S, o, strong) ==
    IF o \notin DOMAIN S.obj THEN {}
    ELSE LET x == S.obj[o] IN
         CASE x.tt = "table" ->
                LET entries == {e \in ToSet(x.items) : e.v # Nil}
                    Strings(os) == {s \in os \cap DOMAIN S.obj : S.obj[s].tt = "string"}
                    keys == {e.k : e \in entries}
                    values == {e.v : e \in entries}
                IN  {x.mt} \cup (IF strong /\ WeakKeys(S, x.mt) THEN Strings(keys) ELSE keys)
                           \cup (IF strong /\ WeakValues(S, x.mt) THEN Strings(values) ELSE values)
           [] x.tt = "userdata" -> {x.mt, x.env}
           [] x.tt = "function" -> {x.env, x.p} \cup ToSet(x.upvals)
           [] x.tt = "upval" -> {UpValue(S, x)}
           [] x.tt = "thread" -> ToSet(x.regs) \cup {Globals, Resumed(S, o)}
           [] x.tt = "proto" -> ToSet(x.k) \cup ToSet(x.p)
           [] OTHER -> {}
RECURSIVE Reached(_, _, _)
Reached(S, os, strong) ==
    LET more == UNION {Refers(S, o, strong) : o \in os} \ {Nil, Index} IN
    IF more \subseteq os THEN os ELSE Reached(S, os \cup more, strong)
Roots(S) == {MainThread, Globals, Last(S.running)} \cup ToSet(S.tmudata)

\* The collector never frees, nor is about to free, an object the program can
\* still get at: through registers, closures, weak tables or a finalizer
\* (the cases of singlestep and of the barriers, lgc.c:556, 662, 675).
NoDangling ==
    g.gcstate # "closed" =>
        \A o \in Reached(g, Roots(g), FALSE) : o \in DOMAIN g.obj /\ Survives(g, o)

\* While marking, no black object refers to a white one (lgc.c:665: "must
\* keep invariant"), and each gray object with a list field is in exactly one
\* of the three lists that share this field, once.
TriColour ==
    g.gcstate = "propagate" =>
        LET lists == g.gray \o g.grayagain \o g.weak IN
        /\ ~ g.closing => \A o \in DOMAIN g.obj : isblack(g, o) =>
               \A r \in Refers(g, o, FALSE) \cap DOMAIN g.obj : ~ iswhite(g, r)
        /\ IsInjective(lists)
        /\ ToSet(lists) = {o \in DOMAIN g.obj : isgray(g, o) /\ g.obj[o].tt \in {"table", "function", "thread", "proto"}}

\* Every string is there once, so strings can be compared by address, also
\* when one that waits to be freed is asked for again (lstring.c:88).
Interned ==
    \A o1, o2 \in {o \in DOMAIN g.obj : g.obj[o].tt = "string"} : g.obj[o1].s = g.obj[o2].s => o1 = o2

NewestFirst ==
    \A i, j \in DOMAIN g'.tmudata :
        i < j /\ {g'.tmudata[i], g'.tmudata[j]} \cap ToSet(g.tmudata) = {}
            => g'.obj[g'.tmudata[i]].born > g'.obj[g'.tmudata[j]].born

\* A userdata is finalized at most once, and is freed, or the state closed,
\* only after it was or while it waits for it (lgc.c:128, 445, lstate.c:203);
\* those found together wait in the order opposite to their creation.
FinalizedBeforeFreed ==
    [][/\ NewestFirst
       /\ \A u \in DOMAIN g.obj : g.obj[u].tt = "userdata" =>
             LET waits == u \in ToSet(g'.tmudata) IN
             /\ g.obj[u].calls <= 1
             /\ u \in ToSet(g.tmudata) => waits \/ (u \in DOMAIN g'.obj /\ g'.obj[u].calls = 1)
             /\ (u \notin DOMAIN g'.obj \/ g'.closing) /\ ~ g.closing /\ HasGC(g, g.obj[u].mt)
                    => waits \/ g.obj[u].calls = 1]_vars

\* A full collection leaves what the program holds, and nothing else.
FullCollection ==
    [][g'.gcstate = "finalize" /\ g'.currentwhite # g.currentwhite => DOMAIN g'.obj = Reached(g', Roots(g'), TRUE)]_vars

\* The state is closed with nothing left.
ClosedEmpty == g.gcstate = "closed" => DOMAIN g.obj = {MainThread} /\ nuse(g) = 0 /\ g.rootgc = <<MainThread>>
=============================================================================
