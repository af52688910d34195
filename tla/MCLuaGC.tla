------------------------------ MODULE MCLuaGC ------------------------------
(* Small programs for the collector: which operations they use and how many *)
(* objects they have at a time, the main thread and the globals included.   *)
EXTENDS LuaGC

Program(ops, max) == [ops |-> ops, max |-> max, steps |-> 6, mode |-> "", gc |-> FALSE, strings |-> {},
                      suspended |-> FALSE]

MCPrograms == {
    [Program({"table", "clear", "fields", "keys", "setmetatable"}, 4) EXCEPT !.mode = "k"],
    [Program({"table", "string", "clear", "fields", "keys", "setmetatable"}, 4) EXCEPT !.mode = "v", !.strings = {"a"}],
    [Program({"table", "clear", "fields", "globals", "setmetatable"}, 4) EXCEPT !.mode = "kv"],
    [Program({"string", "clear", "fullgc", "exit"}, 5) EXCEPT !.strings = {"a", "b", "c"}],
    [Program({"table", "userdata", "clear", "globals", "setmetatable", "exit"}, 5) EXCEPT !.gc = TRUE],
    Program({"closure", "upval", "table", "clear", "close", "fullgc"}, 5),
    Program({"cclosure", "upval", "table", "clear", "setfenv"}, 4),
    [Program({"thread", "closure", "table", "upval", "clear", "close"}, 6) EXCEPT !.steps = 5, !.suspended = TRUE],
    [Program({"proto", "string", "closure", "clear"}, 5) EXCEPT !.strings = {"a"}] }

MCHash(s) == CASE s = "a" -> 3 [] s = "b" -> 5 [] s = "c" -> 2
=============================================================================
