---------------------------- MODULE LuaVerifier -----------------------------
(***************************************************************************)
(* The checker of the code of a function (ldebug.c): every instruction is  *)
(* looked at once, without following jumps.  Tracing one register, by which*)
(* the same walk finds the names in messages of errors, is left out.       *)
(***************************************************************************)
EXTENDS LuaOpcodes, SequencesExt

MAXSTACK == 250

NeedsArg(pt) == VARARG_NEEDSARG \in pt.is_vararg
HasArg(pt) == VARARG_HASARG \in pt.is_vararg
Op(pt, pc) == pt.code[pc + 1].op
size(pt) == Len(pt.code)

precheck(pt) ==
    /\ pt.maxstacksize <= MAXSTACK
    /\ pt.numparams + (IF HasArg(pt) THEN 1 ELSE 0) <= pt.maxstacksize
    /\ NeedsArg(pt) => HasArg(pt)
    /\ Len(pt.upvalues) <= pt.nups
    /\ size(pt) > 0 /\ Op(pt, size(pt) - 1) = "RETURN"

\* What may follow an instruction that leaves an open number of values.
luaG_checkopenop(i) == i.op \in {"CALL", "TAILCALL", "RETURN", "SETLIST"} /\ i.b = 0
checkopenop(pt, pc) == luaG_checkopenop(pt.code[pc + 2])

checkreg(pt, reg) == reg < pt.maxstacksize

checkArgMode(pt, r, mode) ==
    CASE mode = "N" -> r = 0
      [] mode = "U" -> TRUE
      [] mode = "R" -> checkreg(pt, r)
      [] mode = "K" -> IF ISK(r) THEN INDEXK(r) < Len(pt.k) ELSE checkreg(pt, r)

\* A jump lands on an instruction, and not on the count of a SETLIST.
IsOpenList(i) == i.op = "SETLIST" /\ i.c = 0
checkjump(pt, dest) ==
    /\ 0 <= dest /\ dest < size(pt)
    /\ LET lists == {j \in 0 .. dest : \A m \in 0 .. j - 1 : IsOpenList(pt.code[dest - m])}
       IN  (CHOOSE j \in lists : \A m \in lists : m <= j) % 2 = 0

checkargs(pt, pc) ==
    LET i == pt.code[pc + 1] IN
    CASE getOpMode(i.op) = "ABC" ->
           checkArgMode(pt, i.b, getBMode(i.op)) /\ checkArgMode(pt, i.c, getCMode(i.op))
      [] getOpMode(i.op) = "ABx" -> getBMode(i.op) = "K" => i.b < Len(pt.k)
      [] getOpMode(i.op) = "AsBx" -> getBMode(i.op) = "R" => checkjump(pt, pc + 1 + i.b)

\* The conditions of the operation itself.
checkop(pt, pc) ==
    LET i == pt.code[pc + 1]
        a == i.a
        b == i.b
        c == i.c
        next == pt.code[pc + 2]
        nup == pt.p[b + 1].nups
    IN  CASE i.op = "LOADBOOL" -> c = 1 => pc + 2 < size(pt) /\ ~ IsOpenList(next)
          [] i.op \in {"GETUPVAL", "SETUPVAL"} -> b < pt.nups
          [] i.op \in {"GETGLOBAL", "SETGLOBAL"} -> pt.k[b + 1].t = "str"
          [] i.op = "SELF" -> checkreg(pt, a + 1)
          [] i.op = "CONCAT" -> b < c
          [] i.op = "TFORLOOP" -> c >= 1 /\ checkreg(pt, a + 2 + c)
          [] i.op \in {"FORLOOP", "FORPREP"} -> checkreg(pt, a + 3)
          [] i.op \in {"CALL", "TAILCALL"} ->
               /\ b # 0 => checkreg(pt, a + b - 1)
               /\ IF c - 1 = LUA_MULTRET THEN checkopenop(pt, pc)
                  ELSE c - 1 # 0 => checkreg(pt, a + c - 2)
          [] i.op = "RETURN" -> b - 1 > 0 => checkreg(pt, a + b - 2)
          [] i.op = "SETLIST" -> (b > 0 => checkreg(pt, a + b)) /\ (c = 0 => pc + 1 < size(pt) - 1)
          [] i.op = "CLOSURE" ->
               /\ b < Len(pt.p) /\ pc + nup < size(pt)
               /\ \A j \in 1 .. nup : Op(pt, pc + j) \in {"GETUPVAL", "MOVE"}
          [] i.op = "VARARG" ->
               /\ VARARG_ISVARARG \in pt.is_vararg /\ ~ NeedsArg(pt)
               /\ b - 1 = LUA_MULTRET => checkopenop(pt, pc)
               /\ checkreg(pt, a + b - 2)
          [] OTHER -> TRUE

checkinstruction(pt, pc) ==
    /\ Op(pt, pc) \in DOMAIN luaP_opmodes
    /\ checkreg(pt, pt.code[pc + 1].a)
    /\ checkargs(pt, pc)
    /\ testTMode(Op(pt, pc)) => pc + 2 < size(pt) /\ Op(pt, pc + 1) = "JMP"
    /\ checkop(pt, pc)

\* Every instruction in turn, without the words that are none.
RECURSIVE symbexec(_, _)
symbexec(pt, pc) ==
    \/ pc >= size(pt)
    \/ /\ checkinstruction(pt, pc)
       /\ symbexec(pt, IF IsOpenList(pt.code[pc + 1]) THEN pc + 2 ELSE pc + 1)
luaG_checkcode(pt) == precheck(pt) /\ symbexec(pt, 0)
=============================================================================
