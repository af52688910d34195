# MoonWiki in TLA+

MoonWiki is a wiki in one process: a small C program (`MoonWiki.c`) that serves
one connection at a time and an embedded Lua program (`script/*.lua`) that reads
the request, keeps the pages as files and renders them as HTML.  The repository
also holds the sources of Lua 5.1.4 (`lua/src`).  They are two systems: the build
files of MoonWiki link a Lua 5.0 that is not in the repository (`README:15`,
`Makefile`, `build.bat`), and `MoonWiki.c` uses its interface.  So the Lua modules
model `lua/src` on its own, and where the scripts depend on the version of Lua
(`StringBuffer.lua`) they are modelled with both.  These modules model the two, the
configurations check the models with TLC, and the `*Proofs` modules prove the
properties that matter most with TLAPS, for every value of the constants.  Paths
below are relative to `moonwiki/` unless they start with `lua/`.

## 1. The system

| Component | State | Operations | Interacts with |
|---|---|---|---|
| Process and accept loop (`MoonWiki.c`) | `connectionSocket`, the Lua state `L`, the port, the queue of the listening socket | `createAcceptSocket`, `runServer`, `doCall`, `fatalError`, `main` | calls `processRequest` in Lua; a Lua error ends the process |
| Socket reader (`readFromSocket`) | none beyond the socket | one `recv`, retried while it would block | called by `parseHttpRequest` |
| Socket writer (`writeToSocket`) | `dbuf`, `dlen`, `olen` | a loop of `send` on a non-blocking socket | called by `runServer` with the whole reply |
| HTTP requests (`HttpServer.lua`) | `request`, `response` of one request | `parseHttpRequest`, `handleRequest`, one handler per method | overridden by `WikiEngine` |
| HTTP replies | `response.status`, `location`, `content` | `createHttpHeader`, `prepareErrorResponse`, `redirectToPage`, `processRawFile` | |
| Wiki engine (`WikiEngine.lua`) | one object per request: store, formatter | `handleGetRequest`, `handlePostRequest`, `processRequest`, the pages built in, the handlers of forms | store, formatter |
| Page store (`WikiStore.lua`) | the files `rootDir/<title>.txt` | `topicExists`, `loadPage`, `savePage` | files that other programs edit as well |
| Page renderer (`WikiFormatter.lua`) | stacks of open lists, flags for tables, `<pre>`, `<noautolink>` | `formatWikiPage`, `formatWikiLine`, `emitList`, `processTableLine`, links | string buffer, store (links), engine (special pages) |
| String buffer (`StringBuffer.lua`) | a stack of strings | `addString`, `toString` | renderer |
| Special pages (`WikiEngine.lua`) | none | index, recent changes, reverse links, search | `findFiles`, store |
| Exporter, printable and export formatters | none | export of all pages | `findFiles`, `copyFile`, store |
| Object system (`Object.lua`), HTML constructors (`htk.lua`) | classes | method lookup, text | everything |
| Command line (`main.lua`, `readConfiguration`) | `serverConfig` | options, log file | process |
| Lua compiler (`llex.c`, `lparser.c`, `lcode.c`, `ldump.c`, `lundump.c`, `ldebug.c`) | the function being compiled: code, constants, blocks, free registers | tokens, statements and expressions, jumps to be patched, precompiled chunks and the check of their code | the virtual machine runs what it makes |
| Lua virtual machine (`lvm.c`, `ltm.c`, `lfunc.c`) | registers, call frames, open upvalues | one instruction, with its metamethods | tables, strings, libraries |
| Lua calls and coroutines (`ldo.c`, `lbaselib.c`) | the CallInfos of each thread, the C stack that all share, counters, the chain of long jumps | calls, `pcall`, `xpcall`, `error`, `resume`, `yield`, `wrap` | the collector shrinks the stacks |
| Lua tables (`ltable.c`, `ltablib.c`) | array part, nodes and their chains, `lastfree` | read, store, rehash, `next`, `#`, `insert`, `remove`, `sort` | the collector kills the keys of empty nodes |
| Lua collector and strings (`lgc.c`, `lstring.c`) | colours, lists of gray objects, the place of the sweep, the string table | mark, atomic step, sweep, finalize, barriers, interning | every operation that creates or links an object |
| Lua libraries (`l*lib.c`) | none | strings and patterns; input, output, time, modules | C library |
| luadoc (`luadoc/`) | none between runs | documentation of Lua files | not used by the server |

The process has one thread, but its environment has many actors: browsers that
send a request in pieces, close the connection or stay silent; the queue of the
listening socket; other programs that edit the files; the user who stops the
server by terminating it; the disk that is full.  The hard behaviour of the wiki
is between those actors and the *several* steps of one request: the header
arrives by any number of `recv` calls but the body is read by *one*; a save
opens (and empties), writes and closes the file; a view tests that the page
exists and then opens it again; the reply leaves through a non-blocking socket;
and an error in any request takes the process, with every connection, down.

The hard behaviour of the runtime is in long sequences of legal operations: the
collector takes a step between any two of them; an error jumps over any number
of C functions that had changed counters; a store moves nodes that a traversal
will look for; a jump that was generated is patched a page of source later.

What makes each part correct:

* writer: the client gets the bytes of the reply, in order, once, all of them
  when the function says so, and the loop ends;
* process: every connection is accepted once and is answered or lost;
* requests and engine: no request that the wiki's own pages make ends the
  process, whatever arrives late;
* store: pages are atomic registers, a redirection after a save means that the
  page is stored, and no file but the one named by a form changes;
* string buffer: nothing is lost or reordered by its lazy concatenation;
* renderer: elements nest, items are at their level, nothing stays open;
* compiler and machine: a program does what the reference manual says;
* calls: counters, error jumps and handlers are always those of the innermost
  call, and coroutines run, wait and die as the manual says;
* tables: a map, whatever the array and hash parts are;
* collector: nothing the program can reach is freed, everything else is.

The hazards, each at its line, are listed in `PROJECT.json`.

## 2. Modules

| Module | Models | Proofs |
|---|---|---|
| `SocketWriter` | `writeToSocket` | `SocketWriterProofs` |
| `PageStore` | what pages promise: atomic registers (abstract) | |
| `WikiServer` | process, browsers, request reading, engine, page store | `WikiServerProofs`, `WikiAtomicProofs`, `WikiFaultProofs` |
| `StringBuffer` | `addString`, `toString` | `StringBufferProofs` |
| `PageRenderer` | the line-to-line state of `formatWikiPage` | `PageRendererProofs` |
| `LuaOpcodes` | the instructions (`lopcodes.h`) | |
| `LuaLexer` | the scanner (`llex.c`) | |
| `LuaCode`, `LuaParser` | the code generator and the parser (`lcode.c`, `lparser.c`) | |
| `LuaVerifier`, `LuaChunk` | `luaG_checkcode`; `ldump.c` and `lundump.c` | |
| `LuaVM` | the interpreter, upvalues, metamethods, calls of one thread | |
| `LuaStrings` | the string library and its patterns | |
| `LuaReference`, `LuaPatternReference` | what programs and patterns mean by the manual (abstract) | |
| `LuaTexts`, `LuaStringPrograms`, `LuaPrograms` | the programs and texts that are compiled and run | |
| `LuaRun` | the properties of compiler and machine together | |
| `LuaGC` | the collector, weak tables, finalizers, the string table | |
| `LuaTable` | tables and the table library | |
| `LuaTableSpec` | what a table promises: a map (abstract) | |
| `LuaCall` | calls, errors and coroutines of any number of threads | `LuaCallProofs`, `LuaCoroutineProofs` |
| `LuaCoroutines` | what coroutines promise (abstract) | |
| `MCWikiServer`, `MCLua`, `MCLuaGC`, `MCLuaTable`, `MCLuaCall` | values of the constants for TLC | |

### SocketWriter

A byte is its offset in the reply and `wire` is what the socket has taken.
`SendRest` is one pass of the branch `dlen < 65536`, `SendChunk` of the other,
which advances by a whole chunk whatever `send` returned; `SendFails` is an
error other than `WSAEWOULDBLOCK`.  Would-block itself changes nothing and is a
stuttering step, so it needs no action.  `Chunk` stands for 65536, `SendBuffer`
for the free space of the socket.

### WikiServer

`disk` maps titles to contents; a content is absent, empty, or the first cells of
a text.  A request is a number of cells, and reading is a matter of *how many*
cells have been sent and taken.  The form of `createSpecialEditPage` fixes their
order: the value of the button (`action`), the text, and at the end the hidden
field `page`.  A field is there once its `name=` has arrived, because
`parseHttpRequest` matches `([^=?&;]+)=([^;&%s]*)`; its value may be cut, and a
cut title names another file (`CutTitle`).

`pc` says where the process is:

| `pc` | code |
|---|---|
| `accept` | `accept()` in `runServer` |
| `header`, `body` | the header loop and the single read of the body |
| `handle` | `handleGetRequest`, `handlePostRequest`, `handleHeadRequest` |
| `load` | between `topicExists` and `loadPage` in `processRequest` |
| `write`, `close` | after `io.open`, after `file:write` in `savePage` |
| `reply` | `writeToSocket`, until its loop ends, and `closesocket` |
| `error` | a Lua error on its way to `fatalError` |
| `down` | no process; `Start` is the user who starts it again |

`Send`, `Abort`, `Kill` and `Editor` are the environment.  The constant `Faults`
chooses what it may do: `ioctlFails` (a connection cannot be made non-blocking and
is closed unanswered, `AcceptFails`), `shortRead` (the read of the body returns less than is
missing), `openFails`, `diskFull`, `editor` (another program changes a file that
is not being saved) and `kill`.  `Ops` chooses the requests; `BareForm` is a POST
without form fields, which no page of the engine makes.  An empty text is not
among the texts, so an empty file is always a damaged one; a form that names no
page writes the file `.txt` (`EmptyName`).  Browsers send the Content-Length of
their form; one that is no number (`script/HttpServer.lua:177`) or another number is
not among the requests.

### PageStore

The abstract specification: every request takes effect at one instant between
being asked and being answered.  `WikiServer` instantiates it with the mapping
that hides a save in progress (the file being saved still has its old content)
and takes the reply being prepared as the answer.  `PagesAreAtomic` is its
specification as a property of `WikiServer`.

### StringBuffer

A string is a range of the bytes added so far, so that the order of concatenation
is visible.  One action is one pass of a loop; `i` is the loop variable and `n` the
field `stack.n` that both loops start from.  `table.insert` and `table.remove` set
it in Lua 5.0, and in Lua 5.1 when it is compiled with `LUA_COMPAT_GETN`, the
constant of that name; `lua/src/luaconf.h:322` leaves it undefined, and
`luaL_setn` is then no operation (`lua/src/lauxlib.h:23`).  `script/htk.lua:66` and
`75` have the same two loops.

### PageRenderer

A line is its kind: a list item with the spaces before its bullet, text, blank,
indented text, a table row, one that contains `<pre>` or `</pre>` ("pre"), or one
that contains both ("preline").  Pages whose own tags do not match, with a `<pre>`
inside another or a `</pre>` where none is open, are left out.  The state
is that of the formatter (`listTypes`, `isList`, `insideTable`, `insidePre`) and
what a reader of the HTML knows (`open`, `nested`).  A line writes end tags and then
start tags (`Emit`).

Two kinds of `<pre>` make the formatter write tags that do not nest.  A line with both
`<pre>` and `</pre>` takes the first branch of `script/WikiFormatter.lua:606-610` only,
so `insidePre` stays set and line 641 adds a second `</pre>`; a `<pre>` right below a
table leaves the table open around it, and it is closed inside the `<pre>` or after it.
Both are lines of the model (`PreOneLine`, and `PreStart` with `insideTable`);
`oddPre` remembers that the page has had one, and `WellNested` excepts what follows.
The other two properties hold on those pages too.

### The compiler and the machine

`LuaLexer`, `LuaCode` and `LuaParser` are operators: each takes the state of the
compilation and returns the state after the C function of its name, with the
jumps chained through their own targets as in `lcode.c`.  `LuaVM` is a state
machine, one action per instruction; C code that can call Lua again
(metamethods, `gsub`, `gmatch`) is under way in
`L.todo`.  `LuaReference` is an evaluator of syntax trees written from sections
2.3 to 2.8 of `lua/doc/manual.html`: it knows no register, and a variable is a
place in a store.  `LuaRun` relates the two: what a compiled program prints,
returns or raises is what the evaluator says, and the compiler rejects exactly
the ill-formed ones.  `LuaPatternReference` does the same for patterns: it gives
*all* the ways in which a pattern matches, the preferred one first, where
`lstrlib.c` backtracks.

Left out: line numbers (no token depends on them), hexadecimal exponents, the
locale's decimal point and the zero byte that `strchr` finds in every set; of the
string library `format`, `byte`, `char` and `dump`; characters that a TLA+ string
cannot hold (embedded zeros, control characters, the backquote).  A table of
`LuaVM` is a map with the flags of absent metamethods, without the nodes of
`ltable.c`: the pointer into a metatable that `luaV_settable` keeps while it stores
again (`lua/src/lvm.c:155`) cannot dangle in the model.

### LuaGC

An object is a number and `g.obj` its record, so a freed object is outside
`DOMAIN g.obj` and a dangling reference is visible.  `marked` is a set of bits,
with the two whites of `lgc.h`; the lists linked by `next` and `gclist` are
sequences.  One action is one operation of the program (which uses the barriers
that `lapi.c`, `lvm.c` and `lfunc.c` use) or one `singlestep`.  The collector may
step between any two operations: the debt that says when it does is left out, so
the model has every schedule the code can have.  The registry and the table of
globals are one table.

### LuaTable

Nodes, `next` pointers, `lastfree` and the array part are as in `ltable.c`; the
hash of an integer is that of its double.  The actions are what programs do with
a table, among them `next`, `#`, `table.insert`, `table.remove` and `table.sort`,
and the collector that kills the keys of empty nodes.  `LuaTableSpec` is a map with
a traversal that visits each field once and a length that is *some* border, and
`Promise` says that `LuaTable` implements it.  Left out: keys that are booleans,
pointers or no integers (they differ in their hash only), allocations that fail,
and order functions that are not orders.

### LuaCall

`s.C` is the C stack, of the activations that matter: `luaD_call` with the
`luaV_execute` it enters ("execute", or "handler" when it calls an error
handler), `luaD_pcall` and `lua_resume`.  An activation keeps what the C function
keeps in its local variables (`nexeccalls`, the old `errorJmp`, `nCcalls`,
`errfunc`, `ci`).  `s.th[x]` is the `lua_State` of thread `x`.  A step is an
operation of the Lua function that runs: call, metamethod, call back from a C
function, `pcall`, `xpcall`, `error`, a failed allocation, `coroutine.create`,
`resume`, `wrap`, `yield`, return.  An error on its way is a state: from there
`luaG_errormsg` calls the handler and `luaD_throw` does the long jump and what
the C function it jumps to does next.  `checkstacksizes` is the collector, which
halves the CallInfos of any thread at any time.

`LuaCoroutines` knows only who runs and who waits for whom; `Coroutine` maps the
stack to it.  Left out: hooks, stack slots, C functions as the body of a `pcall`
or coroutine, and tail calls.

## 3. Runs

| Run | Shows | Bounds |
|---|---|---|
| `writer` | order, completeness below a chunk, termination | chunk 3, socket buffer 2, replies up to 7 bytes: two chunks and a rest, partial sends of both branches, rest 0 |
| `wiki_register` | refinement of `PageStore`, acknowledged saves, no Lua error, every request answered or its connection lost | two browsers that may leave, a page, a special title with a file of its own and the file without a name, one text, opening and ioctlsocket may fail, queue of two |
| `wiki_faults` | types; one connection per client; damage bounded by the faults; the four causes of a Lua error; only pages that forms name change | two browsers, two pages of which one's cut title is the other, all faults at once, one kill or failed write, queue of one (so it is full) |
| `buffer` | nothing lost, decreasing stack, with a table library that sets `n` | up to four bytes at a time and nine in all: a join runs over several strings, with empty strings among them |
| `page` | nesting, levels, nothing open at the end | six lines of every kind; indentations that are and are not multiples of three |
| `lua` | results and errors by the manual, verified code, stack discipline, upvalues, whole chunks | 3775 programs, of them about 2400 texts for the scanner, all 165 pairs of pattern items, captured patterns and MoonWiki's own |
| `gc` | nothing reachable freed, tri-colour invariant, unique strings, finalizers in order, full collections | nine programs of five or six operations with up to six objects, one per kind of object and barrier; a step between any two operations |
| `table` | a map through collisions, rehashes and traversals | five programs of up to seven operations, keys with colliding hashes, both parts, lists with holes |
| `call` | both limits, error jumps, handlers, shared CallInfos, coroutines | four programs of 9 to 11 operations, two coroutines, 3 to 7 CallInfos, 6 and 8 C calls |

Two actors suffice for the properties of `WikiServer`: the process handles one
connection at a time, so a third browser can only wait in the queue like the
second.  Bounded are the kills and failed writes (`MaxFaults`), the queue
(`Backlog`), the length of a reply (`MaxLen`), of a page (`MaxLines`), of a
buffer (`MaxBytes`) and the operations of a program (`steps`).  `TwoBrowsers` is a
symmetry of `wiki_faults`, which has no liveness
property: the browsers are interchangeable and no constant tells them apart.

The limits of the Lua runs are small enough to be reached: in `call` (787,925
states) both stacks overflow, also while an overflow is handled, and an array of
CallInfos grows twice and shrinks; in `table` (40,144 states) an array doubles
and a hash part is moved to it; in `gc` (1.64 million states) a sweep
(`GCSWEEPMAX` 2) takes several steps and the string table is resized.  In `lua` (47,566
states) a table constructor is flushed every two fields and a chain of
metamethods ends.  Two coroutines suffice for a chain of three threads, with one
that is neither the first nor the last.

Deadlock is checked in every run but these: `writer` and `writer_whole`
(`writeToSocket` returns), `gc` (a closed state), `table` and `call` (the program
ends or has made its operations).

Three runs expect a violation; each checks what a comment or a document says of
the program:

| Run | What the code does | What is said |
|---|---|---|
| `writer_whole` | a partial send of a 65536-byte chunk loses bytes | `MoonWiki.c:114` |
| `wiki_cut_form` | a form read in part is handled | `script/HttpServer.lua:65` |
| `lua_constants` | `and` and `or` with constant operands lose a jump: `((1 or false) and true) or false` gives 1 | `lua/doc/manual.html:1039-1044` |

The programs of `lua_constants` are not among those of `lua`, whose conditions have no
two constant operands.

The properties that hold say how far these go.  A cut form *never* leaves a half
text in a file (`DamageBounded` counts none for it, and the theorem `PagesStayWhole`
says so for any number of pages): the title comes after the text, so a form that
names its page has the whole text.  It may store the whole text under a cut
title: `OnlyNamedPageChanges` says which file that is, and `AcknowledgedSaved` and
the refinement are checked without `shortRead`.  A kill during a save leaves that
page empty or partial and no other (`DamageBounded`), although `README:74`
recommends terminating the process.  `OnlyKnownErrors` lists what takes the
process down: HEAD, a POST without `action` (tested for `nil` only after it was
used, `script/WikiEngine.lua:321`), a cancelled form without `page`, and a page
deleted between `topicExists` and `loadPage`.

Other places where code and documentation differ, seen while modelling and kept
out of the runs by their inputs or by what the models leave out:

* `script/WikiStore.lua:32`: the results of `write` and `close` are ignored, so a save
  that fails on a full disk is answered like one that succeeded, although
  `script/WikiEngine.lua:338` has an answer for failed saves; `AcknowledgedSaved` is
  checked without `diskFull`, `DamageBounded` with it;
* `script/WikiFormatter.lua:606`, `641` and `622-629`: the two kinds of `<pre>` of
  section 2, although line 635 says that it closes started tags;
* `script/StringBuffer.lua:20`, `32`: with the table library of `lua/src` the loops do
  not run and `toString` returns only the first string (the theorem `NothingIsJoined`),
  although line 29 says otherwise;
* `lua/src/lvm.c:142`: a table that is its own metatable and is given `__newindex` by an
  assignment keeps the note that it has none, against `lua/doc/manual.html:1882`; the
  model stores as the code does (`luaV_settable`), and the programs of `lua` have no
  such table;
* `script/HttpServer.lua:81`: HEAD, declared as a method that is handled, ends the
  process (an operation of `wiki_faults`, a case of `OnlyKnownErrors`);
* `lua/src/lcode.c:833-836`: the word that follows a SETLIST of many fields may be
  taken for the instruction before (`lcode.c:43-44`, `109-114`);
* `lua/src/ldo.c:71-78`: an overflow that is caught with all CallInfos of the limit
  in use leaves the array above the limit, so the next one is an error in error
  handling; `TypeOK` allows the size that remains;
* `lua/src/lbaselib.c:531-533`: "too many results to resume" leaves a coroutine that
  looks suspended;
* `lua/src/ltable.c:295-327`: an allocation that fails after the array part has
  grown hides keys; `ltable.c:12-14` says "at least half" where line 205 tests for
  more than half;
* `lua/src/lstrlib.c:183`: a pattern whose only special character is `)` is searched
  for plainly.

## 4. Fairness

`writer`: weak fairness of the passes of the loop (it is a loop of one thread)
and of the client's reading; nothing makes the client close.  `WriteEnds` is
about a client that keeps reading or goes away.

`WikiServer`: weak fairness of the steps of the process (its one thread runs),
except the end of a reply to a client that is still connected (`WaitsForClient`).
`writeToSocket` retries a `send` that would block as long as the client is there and
does not read, so that step depends on the client, and so does the arrival of a form.
Both are assumptions about browsers: one that stays connected sends its whole request
(`Send`) and reads its whole reply (`Respond /\ conn = c`).  The code has no timeout,
and a client that does neither stops the server for everyone.  Nothing makes a browser
connect or leave.  A process that ends takes all connections with it (`Exit`), so
`Answered` does not need the user to restart it.

The Lua modules state no fairness: their properties are safety properties, and a
program may stop at any operation.

## 5. Proofs

All proof modules follow one pattern: an inductive invariant `IInv`, a lemma that
`Init` implies it, lemmas that each action keeps it, and theorems that take
`[]IInv` to the property.

* `SocketWriterProofs`: `IInv` adds to the types that `dbuf + dlen = olen`, that
  every byte on the wire is below `dbuf` and, for a reply below a chunk, that the
  wire is exactly the first `dbuf` bytes.  Order then follows because each `Put`
  appends offsets from `dbuf` on.  Assumed: the chunk, the buffer and the bound
  are positive.
* `WikiServerProofs`: `IInv` is the type invariant and `Queued`: the queue has no
  duplicate, holds only clients with a request and not the one being served, and
  every other client with a request is in it.  `OneConnectionEach` counts the
  positions from that.  `PagesStayWhole` (assuming no kill and no failed write)
  needs `SavingWhole`: a save that has been opened has the whole text, because
  the field `page` comes after it.
* `WikiFaultProofs`, in any mix of faults.  `DamageIsBounded`: the damaged files
  are a finite set (`Cut`) of at most as many pages as there were kills and failed
  writes, for any number of pages; the set can only grow by the one file being
  saved, and `SavingWhole` is needed because a cut form would grow it without a
  fault.  `ErrorsAreKnown` needs `LoadsExisting`: between `topicExists` and
  `loadPage` the page is there unless another program deleted it.
  `OnlyNamedPages` needs `SavesTitle`: the save in progress is the one of the form
  being handled, under the title that has arrived.
* `WikiAtomicProofs`: assuming whole forms, no kill, no failed write and no other
  program (`Faults` without the harmful ones), `FormInv` says that a form being
  handled is whole and that the save in progress is the one of the form.
  `WikiImplementsPages` proves `Init => P!Init` and, action by action, that a step
  is a step of `PageStore` or stutters.
* `StringBufferProofs`: `NothingLost` holds for both table libraries.
  `LongStringsBelow` and `ToStringReturnsEverything` assume `LUA_COMPAT_GETN`, a library
  that sets `n`; `NothingIsJoined` says what happens with one that does not.  Their
  invariant adds that `n` is the length of the stack or stays 0, that while `addString`
  or `toString` runs the loop variable is next to its top, and that the strings below it
  decrease.
* `PageRendererProofs`, for pages of any length and items of any indentation.
  `IInv` says that the elements open in the HTML are exactly those that the
  formatter's state stands for (`Around`): a table, a `<pre>`, or each open list
  with its item; only after an odd `<pre>` may there be a table around the `<pre>`, or
  no `<pre>` although the formatter takes itself to be inside one.
* `LuaCallProofs`, for any number of coroutines, any limits and any programs;
  assumed is only `LuaCallAssumption` (the limits are numbers, the limit for
  errors is above the other, the host has C calls left).  `TypeCorrect`,
  `OneStackCounted`, `ErrorsReachInnermost` and `CallInfosShared` state the four
  invariants of the run `call`.  None is inductive: a long jump restores
  `errorJmp`, `nCcalls` and the CallInfos from the activation it reaches, a return
  ends `luaV_execute` by its count `n`, and a resumed coroutine takes its count
  from the CallInfos it was left with.  So `IInv` says what *every* activation
  keeps, not only the last:
  - `Chained`: the activations of a thread are together, `Main` is at the bottom
    and each other thread begins with its `resume`;
  - `Saved`: an activation keeps the depth of the C stack below it, the innermost
    activation of its thread that catches errors, and that one's handler;
  - `Divided` and `Filled`: the CallInfos of a thread are divided among its
    activations in order, `n` Lua functions each, with at most one C function in
    between, and a `pcall` has none;
  - `Waiting`: a thread on the C stack has status 0, its counter is the depth of
    its last activation, and all but the running one are in the C function that
    resumed the next;
  - `Threading`: each thread's `errorJmp` is its innermost catching activation, a
    suspended coroutine has Lua functions below its call of `yield`, and only the
    running thread, with an error in error handling, has counted to the limit;
  - `Protects` and `Exact`, which hold between steps: a `pcall` always has the call
    it protects above it, and the running function is the last one of the last
    activation.

  Within a step (a C function that pushes, changes a counter and then fails) only
  `Weak`, the first six, holds; `Inv` is `Weak` with the rest.  There is one lemma
  for each operator of `LuaCall` (`poscall`, `inc_ci`, `growCI`, `luaD_call`,
  `luaD_pcall`, `lua_resume`, `Caught`, `Dies`, ...), resting on what pushing and
  cutting the C stack do to each part, and one for each action.
* `LuaCoroutineProofs` extends `LuaCallProofs`, with the same assumption.
  `CoroutinesImplemented` is the refinement `Coroutine`, step by step, and
  `YieldsLoseNoCall` the action property `YieldsNoCall`.  Of a state of `LuaCall`
  the refinement sees little: which threads are on the C stack (`On`), the last of
  them (`Top`), who resumed whom (`By`), the status and the body of each thread
  (`Marks`), and the CallInfos of those that are off the stack (`Rests`).  One lemma
  per operator says what it changes of that, and `NextKnows` combines them: a step
  changes nothing (`Quiet`), ends the program (`Finishes`), creates a coroutine or
  lets it die unstarted (`Becomes`), resumes one (`Enters`) or has the running one
  yield, return or fail (`Departs`).  `StatusOf` and `ResumerOf`, which read the
  stack of activations, are shown to be functions of what is seen.  The invariant
  is `CInv`: `IInv` and `Idle`, which says what a thread can wait in.  It is needed
  because the status 0 of a coroutine does not tell a dead one from a new one or from
  one that runs; `Chained` of `IInv` is what makes the resumer of each thread unique.

What is only model-checked:

* the liveness properties `WriteEnds` and `Answered`: fairness is out of the
  prover's reach;
* `LuaRun`, `LuaGC` and `LuaTable`: the compiler, the evaluator of the manual, the
  collector's traversal and the rehash are recursive operators or folds, and what
  they compute for every input needs an induction over data that the provers
  installed do not do.

## 6. Not modelled, and the plan

Left out on purpose: formatting, log messages, headers' layout, links and
emphasis inside a line, `htk.lua` and `luadoc` (no state); the libraries of Lua
that translate arguments for the C library.  `WikiServer` has no byte of HTTP in
it; which status a request gets from its method and its parameters is a module of
its own (below).

In order:

1. Proofs: an abstract tri-colour collector (objects, colours, a barrier, a
   sweep) proved to free only garbage, with `LuaGC` checked to implement it; the
   chains of `LuaTable`.
2. `RequestHandler`: methods, statuses, raw files, special pages that refuse;
   the status a reply has against the one its handler set.
3. `PageIndex`: index, recent changes and reverse links against a directory that
   changes while they read it; `WikiLinks`: plurals and missing pages, as
   operators checked against a definition of the intended link.
4. `CommandLine` and `WikiExporter`: options, the order of their effects, and the
   export that stops half-way; `ObjectModel`: method lookup and `setFormatter`.

The runs of the new modules stay small: two or three objects, keys or pages and
the faults one at a time, with one run that combines them.
