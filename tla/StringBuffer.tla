---------------------------- MODULE StringBuffer ----------------------------
(***************************************************************************)
(* StringBuffer.lua, the buffer the formatter collects a page in.  It      *)
(* keeps a stack of strings and joins them from the top like discs, so     *)
(* that long strings are seldom copied.  The bytes added are numbered from *)
(* 1 in the order in which they were added, and a string of the stack is a *)
(* range of them: [from, to], empty when to = from - 1.                    *)
(*                                                                         *)
(* The loops run from stack.n, a field that table.insert and table.remove  *)
(* of Lua 5.0 keep up to date, and those of Lua 5.1 only when they are     *)
(* compiled with LUA_COMPAT_GETN.  MoonWiki's build files link Lua 5.0;    *)
(* src/lua is Lua 5.1 with LUA_COMPAT_GETN undefined.                      *)
(***************************************************************************)
EXTENDS Integers, Sequences

CONSTANTS
    MaxAdd,     \* longest string added
    MaxBytes,   \* bound on the bytes of a buffer
    LUA_COMPAT_GETN     \* does the table library set the field n of a table?

ASSUME StringBufferAssumption ==
    MaxAdd \in Nat /\ MaxBytes \in Nat /\ LUA_COMPAT_GETN \in BOOLEAN

VARIABLES
    stack,      \* self.stack, its strings
    n,          \* self.stack.n
    i,          \* the loop variable of addString or toString
    pc,         \* which loop runs: "idle", "add" or "join"
    added,      \* how many bytes were added so far
    result      \* what the last toString returned; Nil is Lua's nil

vars == <<stack, n, i, pc, added, result>>

Nil == [from |-> 0, to |-> 0]

Length(s) == s.to + 1 - s.from

\* s .. t of Lua; the ranges are adjacent (see Adjacent below).
Concat(s, t) == [from |-> s.from, to |-> t.to]

\* luaL_setn(L, 1, k), which table.insert and table.remove call with the new size.
SizeSet(k) == IF LUA_COMPAT_GETN THEN k ELSE n

Init ==
    /\ stack = << >>
    /\ n = 0
    /\ i = 0
    /\ pc = "idle"
    /\ added = 0
    /\ result = Nil

\* addString(s): table.insert(stack, s), and the loop starts at stack.n - 1.
AddString ==
    /\ pc = "idle"
    /\ \E k \in 0..MaxAdd :
         /\ added + k <= MaxBytes
         /\ stack' = Append(stack, [from |-> added + 1, to |-> added + k])
         /\ added' = added + k
    /\ n' = SizeSet(Len(stack) + 1)
    /\ i' = n' - 1
    /\ pc' = "add"
    /\ UNCHANGED result

\* stack[i] = stack[i] .. table.remove(stack)
JoinWithoutRemove ==        \* mutation: the joined string stays on the stack
    /\ stack' = [stack EXCEPT ![i] = Concat(stack[i], stack[Len(stack)])]
    /\ n' = SizeSet(Len(stack) - 1)
    /\ i' = i - 1
Join ==
    /\ stack' = [SubSeq(stack, 1, Len(stack) - 1) EXCEPT ![i] =
                    Concat(stack[i], stack[Len(stack)])]
    /\ n' = SizeSet(Len(stack) - 1)
    /\ i' = i - 1

\* The loop of addString breaks below a longer string.
LongerBelow == Length(stack[i]) > Length(stack[i + 1])

AddJoins ==
    /\ pc = "add"
    /\ i >= 1
    /\ ~ LongerBelow
    /\ Join
    /\ UNCHANGED <<pc, added, result>>

AddReturnsEarly ==          \* mutation: only one string is joined
    /\ pc = "add"
    /\ i < Len(stack)
    /\ pc' = "idle"
    /\ UNCHANGED <<stack, n, i, added, result>>
AddReturns ==
    /\ pc = "add"
    /\ i >= 1 => LongerBelow
    /\ pc' = "idle"
    /\ UNCHANGED <<stack, n, i, added, result>>

\* toString() joins everything and returns stack[1], nil when nothing was added.
ToString ==
    /\ pc = "idle"
    /\ i' = n - 1
    /\ pc' = "join"
    /\ UNCHANGED <<stack, n, added, result>>

ToStringJoins ==
    /\ pc = "join"
    /\ i >= 1
    /\ Join
    /\ UNCHANGED <<pc, added, result>>

ToStringReturnsEarly ==     \* mutation: the loop stops above the bottom
    /\ pc = "join"
    /\ i <= 1
    /\ result' = IF stack = << >> THEN Nil ELSE stack[1]
    /\ pc' = "idle"
    /\ UNCHANGED <<stack, n, i, added>>
ToStringReturns ==
    /\ pc = "join"
    /\ i < 1
    /\ result' = IF stack = << >> THEN Nil ELSE stack[1]
    /\ pc' = "idle"
    /\ UNCHANGED <<stack, n, i, added>>

Next ==
    \/ AddString \/ AddJoins \/ AddReturns
    \/ ToString \/ ToStringJoins \/ ToStringReturns

Spec == Init /\ [][Next]_vars

-----------------------------------------------------------------------------

Strings == [from : 0..(MaxBytes + 1), to : 0..MaxBytes]

TypeOK ==
    /\ stack \in Seq(Strings)
    /\ n \in 0..Len(stack)
    /\ i \in -1..Len(stack)
    /\ pc \in {"idle", "add", "join"}
    /\ added \in 0..MaxBytes
    /\ result \in Strings

\* The strings of the stack, read from the bottom, are the bytes added so far in
\* the order of the calls of addString: joining loses, repeats and swaps nothing.
Adjacent ==
    /\ stack # << >> => stack[1].from = 1 /\ stack[Len(stack)].to = added
    /\ stack = << >> => added = 0
    /\ \A k \in 1..(Len(stack) - 1) : stack[k + 1].from = stack[k].to + 1

\* Between two calls every string is longer than the one above it, so the stack
\* stays short and a long string is copied only when as much was added on top.
Decreasing ==
    pc = "idle" => \A k \in 1..(Len(stack) - 1) : Length(stack[k]) > Length(stack[k + 1])

\* When toString returns, its result is everything added since the buffer was made.
ReturnsEverything ==
    [][pc = "join" /\ pc' = "idle" =>
          result' = IF stack = << >> THEN Nil ELSE [from |-> 1, to |-> added]]_vars
=============================================================================
