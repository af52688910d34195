------------------------------ MODULE LuaChunk ------------------------------
(***************************************************************************)
(* Precompiled chunks: a function written as a sequence of items (ldump.c) *)
(* and read back (lundump.c).  An item is what one block of bytes holds: a *)
(* header, an integer, a byte, a number, a size or the bytes that follow.  *)
(***************************************************************************)
EXTENDS LuaVerifier, FiniteSetsExt

LUAI_MAXCCALLS == 200

NULL == "(null)"

\* What luaU_header depends on: the version, the format and the sizes of the
\* machine's types.
luaU_header == [t |-> "header", v |-> "this machine"]

(* Writing *)

DumpInt(n) == <<[t |-> "int", v |-> n]>>
DumpChar(c) == <<[t |-> "char", v |-> c]>>
\* NULL is written as the size 0; the bytes include a terminating zero.
DumpString(s) ==
    IF s = NULL THEN <<[t |-> "size", v |-> 0]>>
    ELSE <<[t |-> "size", v |-> Len(s) + 1], [t |-> "bytes", v |-> s]>>
DumpVector(items) == DumpInt(Len(items)) \o items

DumpConstant(o) ==
    DumpChar(o.t) \o
    CASE o.t = "nil" -> << >>
      [] o.t = "bool" -> DumpChar(o.v)
      [] o.t = "num" -> <<[t |-> "number", v |-> o.v]>>
      [] o.t = "str" -> DumpString(o.v)

Joined(items) == FoldLeft(LAMBDA a, b : a \o b, << >>, items)

DumpDebug(f, strip) ==
    LET Loc(v) == DumpString(v.varname) \o DumpInt(v.startpc) \o DumpInt(v.endpc) IN
    IF strip THEN DumpInt(0) \o DumpInt(0)
    ELSE DumpInt(Len(f.locvars)) \o Joined([i \in DOMAIN f.locvars |-> Loc(f.locvars[i])])
           \o DumpInt(Len(f.upvalues)) \o Joined([i \in DOMAIN f.upvalues |-> DumpString(f.upvalues[i].name)])

RECURSIVE DumpFunction(_, _, _, _)
DumpFunction(f, source, parent, strip) ==
    DumpString(IF source = parent \/ strip THEN NULL ELSE source)
      \o DumpChar(f.nups) \o DumpChar(f.numparams) \o DumpChar(f.is_vararg) \o DumpChar(f.maxstacksize)
      \o DumpVector([i \in DOMAIN f.code |-> [t |-> "instruction", v |-> f.code[i]]])
      \o DumpInt(Len(f.k)) \o Joined([i \in DOMAIN f.k |-> DumpConstant(f.k[i])])
      \o DumpInt(Len(f.p)) \o Joined([i \in DOMAIN f.p |-> DumpFunction(f.p[i], source, source, strip)])
      \o DumpDebug(f, strip)

luaU_dump(f, source, strip) == <<luaU_header>> \o DumpFunction(f, source, NULL, strip)

(* Reading *)

\* The reader has the input, its place in it, the value just read and the error.
Failed(R, why) == IF R.err = "" THEN [R EXCEPT !.err = why] ELSE R
Load(R) ==
    IF R.err # "" THEN R
    ELSE IF R.at > Len(R.in) THEN Failed(R, "unexpected end")
    ELSE [R EXCEPT !.v = R.in[R.at].v, !.at = @ + 1]
LoadString(R) ==
    LET S == Load(R) IN
    IF S.err # "" THEN S ELSE IF S.v = 0 THEN [S EXCEPT !.v = NULL] ELSE Load(S)
\* A count and as many values.
LoadMany(R, LoadOne(_)) ==
    LET N == Load(R)
        Next1(Q, i) == LET X == LoadOne(Q) IN [X EXCEPT !.v = Append(Q.v, X.v)]
    IN  IF N.err # "" THEN N
        ELSE FoldLeft(Next1, [N EXCEPT !.v = << >>], [i \in 1 .. N.v |-> i])

LoadConstant(R) ==
    LET T == Load(R)
        S == Load(T)
        Z == LoadString(T)
    IN  CASE T.err # "" -> T
          [] T.v = "nil" -> [T EXCEPT !.v = Nil]
          [] T.v = "bool" -> [S EXCEPT !.v = Bool(S.v)]
          [] T.v = "num" -> [S EXCEPT !.v = Num(S.v)]
          [] T.v = "str" -> [Z EXCEPT !.v = Str(Z.v)]
          [] OTHER -> Failed(T, "bad constant")

LoadLocVar(R) ==
    LET name == LoadString(R)
        startpc == Load(name)
        endpc == Load(startpc)
    IN  [endpc EXCEPT !.v = [varname |-> name.v, startpc |-> startpc.v, endpc |-> endpc.v]]
LoadUpvalue(R) == LET S == LoadString(R) IN [S EXCEPT !.v = [name |-> S.v]]

\* A function without a name has its parent's.  (Mutant: it has none.)
LoadSourceUnnamed(R, parent) == LoadString(R)
LoadSource(R, parent) ==
    LET S == LoadString(R) IN IF S.err = "" /\ S.v = NULL THEN [S EXCEPT !.v = parent] ELSE S

Fields == <<"source", "nups", "numparams", "is_vararg", "maxstacksize", "code", "k", "p", "locvars", "upvalues">>

NoFunction ==
    [source |-> NULL, nups |-> 0, numparams |-> 0, is_vararg |-> {}, maxstacksize |-> 0, code |-> << >>,
     k |-> << >>, p |-> << >>, locvars |-> << >>, upvalues |-> << >>]

\* A function, field by field; one that the checker refuses is not loaded.
RECURSIVE LoadFunction(_, _, _)
LoadField(R, name, f, parent, nCcalls) ==
    LET LoadInner(Q) == LoadFunction(Q, f.source, nCcalls + 1)
    IN  CASE name = "source" -> LoadSource(R, parent)
          [] name = "code" -> LoadMany(R, Load)
          [] name = "k" -> LoadMany(R, LoadConstant)
          [] name = "p" -> LoadMany(R, LoadInner)
          [] name = "locvars" -> LoadMany(R, LoadLocVar)
          [] name = "upvalues" -> LoadMany(R, LoadUpvalue)
          [] OTHER -> Load(R)
LoadFunction(R, parent, nCcalls) ==
    LET Next1(S, name) ==
            LET X == LoadField(S.reader, name, S.f, parent, nCcalls)
            IN  [reader |-> X, f |-> [S.f EXCEPT ![name] = X.v]]
        Z == FoldLeft(Next1, [reader |-> R, f |-> NoFunction], Fields)
    IN  IF nCcalls > LUAI_MAXCCALLS THEN Failed(R, "code too deep")
        ELSE IF Z.reader.err # "" THEN Z.reader
        ELSE IF ~ luaG_checkcode(Z.f) THEN Failed(Z.reader, "bad code")
        ELSE [Z.reader EXCEPT !.v = Z.f]

luaU_undump(in) ==
    LET H == Load([in |-> in, at |-> 1, v |-> 0, err |-> ""]) IN
    IF H.err # "" THEN H
    ELSE IF H.v # luaU_header.v THEN Failed(H, "bad header")
    ELSE LoadFunction(H, "=?", 1)

(* What is kept *)

\* A function as it is read back: the debug information may be stripped.
RECURSIVE Kept(_, _, _)
Kept(f, source, strip) ==
    [source |-> IF strip THEN "=?" ELSE source, nups |-> f.nups, numparams |-> f.numparams,
     is_vararg |-> f.is_vararg, maxstacksize |-> f.maxstacksize, code |-> f.code, k |-> f.k,
     p |-> [i \in DOMAIN f.p |-> Kept(f.p[i], source, strip)],
     locvars |-> IF strip THEN << >> ELSE f.locvars,
     upvalues |-> IF strip THEN << >> ELSE [i \in DOMAIN f.upvalues |-> [name |-> f.upvalues[i].name]]]
=============================================================================
