------------------------------ MODULE LuaCall -------------------------------
(***************************************************************************)
(* Calls, errors and coroutines of Lua (ldo.c, with the coroutine library  *)
(* of lbaselib.c): the stack of CallInfos of each thread, the C stack that *)
(* all the threads share, the limits on both, and the long jumps that      *)
(* unwind them.                                                            *)
(*                                                                         *)
(* A state S has the lua_States S.th, the error that is on its way, S.raise, *)
(* and the C stack S.C, a sequence of the activations of C functions that  *)
(* matter here:                                                            *)
(*   "execute"  luaD_call and the luaV_execute that runs its Lua function  *)
(*   "handler"  the same, for the error handler of luaG_errormsg           *)
(*   "pcall"    luaD_pcall, which catches errors                           *)
(*   "resume"   lua_resume and its luaV_execute; it catches errors too     *)
(* n is nexeccalls, the Lua functions that a luaV_execute is running.  The *)
(* thread of the last activation runs; its code is always a Lua function   *)
(* between two steps, since a C function of a library runs in one step.    *)
(* An errorJmp is a place in S.C, or 0.  Errors are their kinds, and the   *)
(* values on the stacks are left out, with the space for them.             *)
(***************************************************************************)
EXTENDS Integers, SequencesExt, FiniteSets

CONSTANTS
    Main, Coroutines,
    BASIC_CI_SIZE,  \* CallInfos of a new thread
    MAXCALLS,       \* LUAI_MAXCALLS, the limit of nested calls of a thread
    MAXCCALLS,      \* LUAI_MAXCCALLS, the limit of nested C calls
    ERRCCALLS,      \* the limit while an error is handled
    Programs        \* the nested C calls of the host, and what a program does

ASSUME LuaCallAssumption ==
    /\ Main \notin Coroutines
    /\ BASIC_CI_SIZE \in Nat \ {0}
    /\ MAXCALLS \in Nat
    /\ BASIC_CI_SIZE <= MAXCALLS
    /\ MAXCCALLS \in Nat
    /\ ERRCCALLS \in Nat
    /\ MAXCCALLS < ERRCCALLS
    /\ \A p \in Programs : p.host \in 0 .. MAXCCALLS - 1

Threads == {Main} \cup Coroutines

VARIABLES
    s,      \* the state of the interpreter
    prog,   \* the program
    done    \* its operations so far

vars == <<s, prog, done>>

Cur(S) == Last(S.C).th
L(S) == S.th[Cur(S)]

NewThread(nCcalls, ci) ==
    [status |-> "ok", ci |-> ci, size |-> BASIC_CI_SIZE, nCcalls |-> nCcalls, baseCcalls |-> 0,
     errorJmp |-> 0, errfunc |-> FALSE, body |-> FALSE]
Unborn == [NewThread(0, <<"base">>) EXCEPT !.status = "none"]

Push(S, act) == [S EXCEPT !.C = Append(@, act)]
Pop(S) == [S EXCEPT !.C = Front(@)]

\* An activation in thread x begins.  luaD_pcall and lua_resume restore the
\* state of the thread from it; luaD_call has no use for it.
Activation(S, kind, x, handler, wrap) ==
    [kind |-> kind, th |-> x, n |-> 0, handler |-> handler, wrap |-> wrap,
     ci |-> Len(S.th[x].ci), previous |-> S.th[x].errorJmp, nCcalls |-> S.th[x].nCcalls,
     errfunc |-> S.th[x].errfunc]

(* Errors *)

restore_stack_limit(size, inuse) ==
    IF size > MAXCALLS /\ inuse + 1 < MAXCALLS THEN MAXCALLS ELSE size

\* luaD_poscall of a C function of the running thread.
poscall(S) == [S EXCEPT !.th[Cur(S)].ci = Front(@)]

\* luaD_pcall returns: pcall gives its results to the Lua function below, and
\* the host's own pcall ends the program.
PcallReturns(S) == IF S.C = <<>> THEN S ELSE poscall(S)

\* (Mutant: the handler of the error is still the one of the pcall.)
CaughtWithHandler(S, x, j) ==
    PcallReturns(
        [S EXCEPT !.th[x].errorJmp = S.C[j].previous, !.th[x].nCcalls = S.C[j].nCcalls,
                  !.th[x].ci = SubSeq(@, 1, S.C[j].ci),
                  !.th[x].size = restore_stack_limit(@, S.C[j].ci - 1),
                  !.C = SubSeq(@, 1, j - 1)])
\* luaD_pcall, at place j of the C stack, catches an error of thread x.
Caught(S, x, j) ==
    PcallReturns(
        [S EXCEPT !.th[x].errorJmp = S.C[j].previous, !.th[x].nCcalls = S.C[j].nCcalls,
                  !.th[x].errfunc = S.C[j].errfunc, !.th[x].ci = SubSeq(@, 1, S.C[j].ci),
                  !.th[x].size = restore_stack_limit(@, S.C[j].ci - 1),
                  !.C = SubSeq(@, 1, j - 1)])

\* (Mutant: the coroutine is not marked.)
DiesUnmarked(S, x, j, code) ==
    [S EXCEPT !.th[x].errorJmp = S.C[j].previous, !.th[x].nCcalls = @ - 1, !.C = SubSeq(@, 1, j - 1)]
\* lua_resume, at place j, catches an error of coroutine x and marks it dead.
Dies(S, x, j, code) ==
    [S EXCEPT !.th[x].errorJmp = S.C[j].previous, !.th[x].nCcalls = @ - 1, !.th[x].status = code,
              !.C = SubSeq(@, 1, j - 1)]

\* An error is on its way: "message" until luaG_errormsg has seen to the handler,
\* then the code that luaD_throw is called with.
Codes == {"ERRRUN", "ERRMEM", "ERRERR"}
Raise(S, error) == [S EXCEPT !.raise = error]

\* resume returns false and the error; a function made by wrap raises it.
ResumeFails(S, wrap) == IF wrap THEN Raise(S, "message") ELSE poscall(S)

(* Calls *)

\* (Mutant: an overflow while an overflow is handled is one more overflow.)
HandlingOverflowNever(S) == FALSE
HandlingOverflow(S) == L(S).size > MAXCALLS

\* There is no CallInfo left, and there will be none.
Full(S) == Len(L(S).ci) = L(S).size /\ (HandlingOverflow(S) \/ 2 * L(S).size > MAXCALLS)
growCI(S) ==
    IF HandlingOverflow(S) THEN Raise(S, "ERRERR")
    ELSE Raise([S EXCEPT !.th[Cur(S)].size = 2 * @], "message")

\* One more CallInfo.
inc_ci(S, frame) ==
    [S EXCEPT !.th[Cur(S)].ci = Append(@, frame),
              !.th[Cur(S)].size = IF Len(L(S).ci) = @ THEN 2 * @ ELSE @]

\* One more Lua function in the luaV_execute that runs.
EnterLua(S) ==
    IF Full(S) THEN growCI(S) ELSE [inc_ci(S, "Lua") EXCEPT !.C[Len(S.C)].n = @ + 1]

\* luaD_call of a Lua function, as an activation of the C stack.
CountedCall(S, n) ==
    IF n = MAXCCALLS THEN Raise(S, "message")
    ELSE IF n >= ERRCCALLS THEN Raise(S, "ERRERR")
    ELSE EnterLua(S)
luaD_call(S, x, kind) ==
    CountedCall(Push([S EXCEPT !.th[x].nCcalls = @ + 1], Activation(S, kind, x, FALSE, FALSE)),
                S.th[x].nCcalls + 1)

\* luaD_pcall in thread x, with or without an error handler.
luaD_pcall(S, x, handler) ==
    luaD_call(Push([S EXCEPT !.th[x].errorJmp = Len(S.C) + 1, !.th[x].errfunc = handler],
                   Activation(S, "pcall", x, handler, FALSE)),
              x, "execute")

\* luaD_pcall returns with no error.
PcallEnds(S, x) ==
    PcallReturns(Pop([S EXCEPT !.th[x].errorJmp = Last(S.C).previous,
                               !.th[x].errfunc = Last(S.C).errfunc]))

\* luaD_call returns in thread x: to luaD_pcall, to a function of a library, or
\* to the Lua function whose metamethod it called.
CallEnds(S, x) ==
    IF Last(S.C).kind = "pcall" THEN PcallEnds(S, x)
    ELSE IF Last(L(S).ci) = "C" THEN poscall(S)
    ELSE S

(* Coroutines *)

\* lua_resume returns from thread x, which leaves the chain as `status'.
lua_resumeReturns(S, x, status) ==
    poscall(Pop([S EXCEPT !.th[x].errorJmp = Last(S.C).previous, !.th[x].nCcalls = @ - 1,
                          !.th[x].status = status]))

costatus(S, x) ==
    IF x = Cur(S) THEN "running"
    ELSE CASE S.th[x].status = "YIELD" -> "suspended"
           [] S.th[x].status = "ok" /\ Len(S.th[x].ci) > 1 -> "normal"
           [] S.th[x].status = "ok" /\ Len(S.th[x].ci) = 1 /\ S.th[x].body -> "suspended"
           [] OTHER -> "dead"

\* The body of a new coroutine is called; a suspended one completes its call
\* of yield, and all its Lua functions run in a new luaV_execute.
Started(S, co) == EnterLua([S EXCEPT !.th[co].body = FALSE])
\* (Mutant: only the last of the functions runs there.)
ContinuedOne(S, co) == [poscall(S) EXCEPT !.th[co].status = "ok", !.C[Len(S.C)].n = 1]
Continued(S, co) ==
    [poscall(S) EXCEPT !.th[co].status = "ok", !.C[Len(S.C)].n = Len(S.th[co].ci) - 2]
resume(S, co) == IF S.th[co].status = "ok" THEN Started(S, co) ELSE Continued(S, co)

lua_resume(S, co, wrap) ==
    resume(Push([S EXCEPT !.th[co].nCcalls = @ + 1, !.th[co].baseCcalls = S.th[co].nCcalls + 1,
                          !.th[co].errorJmp = Len(S.C) + 1],
                [Activation(S, "resume", co, FALSE, wrap) EXCEPT !.ci = 1]),
           co)

\* resume_error for lack of C stack; it overwrites the body of a new coroutine.
resume_error(S, co, wrap) == ResumeFails([S EXCEPT !.th[co].body = FALSE], wrap)

\* (Mutant: the coroutine counts its C calls from none.)
lua_setlevelNone(S, co) == [S EXCEPT !.th[co].nCcalls = 0]
lua_setlevel(S, co) == [S EXCEPT !.th[co].nCcalls = L(S).nCcalls]
auxresume(S, co, wrap) ==
    IF costatus(S, co) # "suspended" THEN ResumeFails(S, wrap)
    ELSE IF L(S).nCcalls >= MAXCCALLS THEN resume_error(lua_setlevel(S, co), co, wrap)
    ELSE lua_resume(lua_setlevel(S, co), co, wrap)

\* (Mutant: one C call may be in the way.)
lua_yieldAcross(S, x) ==
    IF S.th[x].nCcalls > S.th[x].baseCcalls + 1 THEN Raise(S, "message")
    ELSE lua_resumeReturns(S, x, "YIELD")
lua_yield(S, x) ==
    IF S.th[x].nCcalls > S.th[x].baseCcalls THEN Raise(S, "message")
    ELSE lua_resumeReturns(S, x, "YIELD")

(* Steps of the program *)

Start(host) ==
    [th |-> [x \in Threads |-> IF x = Main THEN NewThread(host, <<"base">>) ELSE Unborn],
     C |-> <<>>, raise |-> "no"]

Init ==
    /\ prog \in Programs
    /\ done = 0
    /\ s = luaD_pcall(Start(prog.host), Main, FALSE)

Running == s.C # <<>> /\ s.raise = "no"

Op(name) ==
    /\ Running
    /\ name \in prog.ops
    /\ done < prog.steps
    /\ done' = done + 1
    /\ UNCHANGED prog

\* A C function of a library is called and gives S, unless its CallInfo is
\* missing.
Library(S) == s' = IF Full(s) THEN growCI(s) ELSE S
called == inc_ci(s, "C")

\* A Lua function, a metamethod, or a function of a library that calls back.
Call == Op("call") /\ s' = EnterLua(s)
CallMetamethod == Op("metamethod") /\ s' = luaD_call(s, Cur(s), "execute")
CallBack == Op("callback") /\ Library(luaD_call(called, Cur(s), "execute"))

Pcall(handler) ==
    Op(IF handler THEN "xpcall" ELSE "pcall") /\ Library(luaD_pcall(called, Cur(s), handler))

Error == Op("error") /\ Library(Raise(called, "message"))
MemoryError == Op("memory") /\ s' = Raise(s, "ERRMEM")

Create(co) ==
    /\ Op("create")
    /\ s.th[co].status = "none"
    /\ Library(poscall([called EXCEPT !.th[co] = [NewThread(0, <<"base">>) EXCEPT !.body = TRUE]]))

Resume(co, wrap) ==
    /\ Op(IF wrap THEN "wrap" ELSE "resume")
    /\ s.th[co].status # "none"
    /\ Library(auxresume(called, co, wrap))

Yield == Op("yield") /\ Library(lua_yield(called, Cur(s)))

\* A Lua function returns: in the same luaV_execute, or from it.
Returned == [s EXCEPT !.th[Cur(s)].ci = Front(@), !.C[Len(s.C)].n = @ - 1]
LeaveC(S) == Pop([S EXCEPT !.th[Cur(S)].nCcalls = @ - 1])
InReturn(kind) == Running /\ Last(s.C).kind \in kind /\ UNCHANGED <<prog, done>>

Return == InReturn({"execute", "handler", "resume"}) /\ Last(s.C).n > 1 /\ s' = Returned
ReturnFromCall ==
    InReturn({"execute"}) /\ Last(s.C).n = 1 /\ s' = CallEnds(LeaveC(Returned), Cur(s))
\* The error is thrown once its handler has seen it.
ReturnFromHandler ==
    InReturn({"handler"}) /\ Last(s.C).n = 1 /\ s' = Raise(LeaveC(Returned), "ERRRUN")
ReturnFromBody ==
    InReturn({"resume"}) /\ Last(s.C).n = 1 /\ s' = lua_resumeReturns(Returned, Cur(s), "ok")

\* The handler of the error is called, if there is one.
luaG_errormsg ==
    /\ s.raise = "message"
    /\ s' = IF L(s).errfunc THEN luaD_call(Raise(s, "no"), Cur(s), "handler")
            ELSE Raise(s, "ERRRUN")
    /\ UNCHANGED <<prog, done>>

\* The long jump, and what the function that catches it does.
luaD_throw ==
    /\ s.raise \in Codes
    /\ LET j == L(s).errorJmp
           S == Raise(s, "no")
       IN  s' = IF s.C[j].kind = "pcall" THEN Caught(S, Cur(s), j)
                ELSE ResumeFails(Dies(S, Cur(s), j, s.raise), s.C[j].wrap)
    /\ UNCHANGED <<prog, done>>

\* The collector traverses a thread and gives back CallInfos it does not use.
checkstacksizes(x) ==
    /\ Running
    /\ s.th[x].size <= MAXCALLS
    /\ 4 * (Len(s.th[x].ci) - 1) < s.th[x].size
    /\ 2 * BASIC_CI_SIZE < s.th[x].size
    /\ s' = [s EXCEPT !.th[x].size = @ \div 2]
    /\ UNCHANGED <<prog, done>>

Next ==
    \/ Call
    \/ CallMetamethod
    \/ CallBack
    \/ \E handler \in BOOLEAN : Pcall(handler)
    \/ Error
    \/ MemoryError
    \/ \E co \in Coroutines : Create(co)
    \/ \E co \in Coroutines, wrap \in BOOLEAN : Resume(co, wrap)
    \/ Yield
    \/ Return
    \/ ReturnFromCall
    \/ ReturnFromHandler
    \/ ReturnFromBody
    \/ luaG_errormsg
    \/ luaD_throw
    \/ \E x \in Threads : checkstacksizes(x)

Spec == Init /\ [][Next]_vars

(* Properties *)

\* Also, the CallInfos in use fit in their array, even after it has been shrunk,
\* and neither stack passes its limit, whatever errors are caught and wherever.
TypeOK ==
    \A x \in Threads :
        LET T == s.th[x]
        IN  /\ T.status \in {"none", "ok", "YIELD", "ERRRUN", "ERRMEM", "ERRERR"}
            /\ Len(T.ci) \in 1 .. T.size
            /\ T.size <= 2 * MAXCALLS
            /\ T.nCcalls <= ERRCCALLS
            /\ s.raise # "ERRERR" => T.nCcalls < ERRCCALLS
            /\ T.errorJmp \in 0 .. Len(s.C)

\* What has become of thread x, and who waits for it.
StatusOf(S, x) ==
    IF S.th[x].status = "none" THEN "none"
    ELSE IF S.C # <<>> THEN costatus(S, x)
    ELSE IF x # Main /\ (S.th[x].status = "YIELD" \/ S.th[x].body) THEN "suspended"
    ELSE "dead"
ResumerOf(S, x) ==
    LET resumed == {j \in DOMAIN S.C : S.C[j].kind = "resume" /\ S.C[j].th = x}
    IN  IF resumed = {} THEN x ELSE S.C[(CHOOSE j \in resumed : TRUE) - 1].th

\* coroutine.status tells of every coroutine what it has been through, so a
\* coroutine runs, waits or dies as the callers of resume and wrap expect.
P == INSTANCE LuaCoroutines WITH
         status <- [x \in Threads |-> StatusOf(s, x)],
         resumer <- [x \in Threads |-> ResumerOf(s, x)]
Coroutine == P!Spec

\* nCcalls, counted by each thread apart, is the depth of the one C stack: at
\* the thread that runs, and at each that waits for one it resumed.
CountsOneStack ==
    \A i \in DOMAIN s.C : (i = Len(s.C) \/ s.C[i + 1].kind = "resume") =>
        s.th[s.C[i].th].nCcalls = prog.host + Cardinality({j \in 1 .. i : s.C[j].kind # "pcall"})

\* An error jumps to the innermost frame of its thread that catches it, one
\* that has not returned; it is seen first by the handler of that frame, if it
\* is an xpcall, and by no handler that has returned or is outside the coroutine.
ErrorsToInnermost ==
    \A x \in Threads :
        LET j == s.th[x].errorJmp
            catches == {i \in DOMAIN s.C : s.C[i].th = x /\ s.C[i].kind \in {"pcall", "resume"}}
        IN  /\ j \in catches \cup {0}
            /\ \A i \in catches : i <= j
            /\ s.th[x].errfunc = (j # 0 /\ s.C[j].handler)

\* The CallInfos of a thread are, in order, those of its activations: each runs
\* the n Lua functions that follow its beginning, so that none returns too early
\* or runs functions that are not its own, and between two there is at most the
\* CallInfo of one C function.
SharedOut ==
    \A i \in DOMAIN s.C :
        LET a == s.C[i]
            ci == s.th[a.th].ci
            first == i = 1 \/ a.kind = "resume"
            last == i = Len(s.C) \/ s.C[i + 1].kind = "resume"
            end == IF last THEN Len(ci) ELSE s.C[i + 1].ci
        IN  /\ first => a.ci = 1
            /\ \A k \in a.ci + 1 .. a.ci + a.n : ci[k] = "Lua"
            /\ end = a.ci + a.n \/ (end = a.ci + a.n + 1 /\ ci[end] = "C")

\* A coroutine yields only when no C function but lua_resume would be lost.
YieldsNoCall ==
    [][\A x \in Threads : (s.th[x].status # "YIELD" /\ s'.th[x].status = "YIELD")
        => Last(s.C).kind = "resume" /\ Last(s.C).th = x /\ s'.C = Front(s.C)]_vars
=============================================================================
