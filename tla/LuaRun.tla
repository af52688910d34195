------------------------------- MODULE LuaRun -------------------------------
(***************************************************************************)
(* Properties of the compiler and the machine together: the programs of    *)
(* Chunks have been compiled by LuaParser and Meanings says what each does *)
(* by the manual (LuaReference).                                           *)
(***************************************************************************)
EXTENDS LuaVM

CONSTANTS
    Meanings,       \* what each program means
    Cut             \* the programs whose precompiled chunks are also read in parts

Verifier == INSTANCE LuaVerifier
Format == INSTANCE LuaChunk

Same(v, w) == v.t = w.t /\ (v.t \in {"num", "str", "bool"} => v.v = w.v)
AllSame(vs, ws) == Len(vs) = Len(ws) /\ \A i \in DOMAIN vs : Same(vs[i], ws[i])
Results == IF L.status = "error" THEN <<L.error>> ELSE Slice(L, 0, L.top)

\* A program that ends has printed what the manual says and ends with the
\* results or the error that the manual says; the compiler rejects exactly
\* the programs that are not well formed.
SameResult ==
    L.status # "running" =>
        LET M == Meanings[L.program] IN
        /\ L.status = M.status
        /\ AllSame(L.output, M.output)
        /\ AllSame(Results, M.values)

Loaded == L.status = "running" /\ Len(L.ci) = 1 /\ Frame(L).pc = 0
RECURSIVE Checked(_)
Checked(pt) == Verifier!luaG_checkcode(pt) /\ \A i \in DOMAIN pt.p : Checked(pt.p[i])

\* The compiler's code passes the checks that precompiled code must pass
\* before it is run (luaG_checkcode).
Verified == Loaded => Checked(L.proto)

\* The compiler frees registers in the reverse order of their allocation, and
\* after a statement all that are no variables (lua_assert in freereg and in
\* chunk); the machine has the top of the stack at the frame's between two
\* instructions, unless the next one takes an open number of values
\* (lua_assert in luaV_execute).
StackDiscipline ==
    /\ L.status # "rejected" => ~ L.misfreed /\ ~ L.leaked
    /\ InLua => L.top = Frame(L).top \/ Verifier!luaG_checkopenop(I)

\* An open upvalue is the register of a local variable of an active function
\* that is in scope where that function is, and no two are the same register:
\* every way out of a block closes what leaves scope, or the register would be
\* reused under the closures that share it.
InScope(ci, at) ==
    LET locvars == ProtoAt(L, L.closures[Cell(L, ci.func).v].p).locvars
    IN  at - ci.base < Cardinality({i \in DOMAIN locvars :
                                      locvars[i].startpc <= ci.pc /\ ci.pc <= locvars[i].endpc})
OpenUpvalues ==
    L.status = "running" => \A u \in DOMAIN L.upvals : L.upvals[u].at >= 0 =>
        /\ LET owners == {i \in DOMAIN L.ci : L.ci[i].base <= L.upvals[u].at}
               owner == L.ci[CHOOSE i \in owners : \A j \in owners : j <= i]
           IN  Cell(L, owner.func).t = "function" /\ InScope(owner, L.upvals[u].at)
        /\ \A w \in DOMAIN L.upvals : L.upvals[w].at = L.upvals[u].at => w = u

\* A chunk that string.dump writes is read back as it was, with or without
\* its debug information, and no proper part of it is accepted.
ReadBack ==
    \A strip \in BOOLEAN :
        LET F == Format!luaU_undump(Format!luaU_dump(L.proto, "@p", strip)) IN
        F.err = "" /\ F.v = Format!Kept(L.proto, "@p", strip)
NoPartAccepted ==
    LET items == Format!luaU_dump(L.proto, "@p", FALSE) IN
    \A n \in 0 .. Len(items) - 1 : Format!luaU_undump(SubSeq(items, 1, n)).err # ""
ChunksWhole == Loaded => ReadBack /\ (L.program \in Cut => NoPartAccepted)
=============================================================================
