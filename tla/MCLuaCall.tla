----------------------------- MODULE MCLuaCall ------------------------------
(***************************************************************************)
(* A small instance of LuaCall: the host calls the program with all of the *)
(* C stack left, or with little of it.                                     *)
(***************************************************************************)
EXTENDS LuaCall, TLC

CONSTANTS main, co1, co2

MCCoroutines == {co1, co2}
Program(host, ops, steps) == [host |-> host, ops |-> ops, steps |-> steps]
Coroutining == {"create", "resume", "yield"}
MCPrograms == {
    Program(0, Coroutining \cup {"wrap", "call", "pcall", "error"}, 9),
    Program(0, Coroutining \cup {"metamethod", "xpcall", "error", "memory"}, 9),
    Program(2, {"create", "wrap", "resume", "yield", "callback", "xpcall", "error"}, 9),
    Program(0, {"call", "xpcall", "pcall", "error"}, 11)}
=============================================================================
