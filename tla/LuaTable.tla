------------------------------ MODULE LuaTable ------------------------------
(***************************************************************************)
(* The tables of Lua (ltable.c): an array part, a chained scatter table    *)
(* with Brent's variation that never frees a node before the next rehash,  *)
(* the rehash that divides the integer keys between the two parts, the     *)
(* traversal, and the search for a border; with the operations of          *)
(* ltablib.c that are built on them and the collector that kills the keys  *)
(* of empty nodes.                                                         *)
(*                                                                         *)
(* t.node is the hash part.  Nodes are numbered from 1 and 0 is the null   *)
(* pointer; t.lastfree is the number of nodes below the pointer; t.dummy   *)
(* says that the hash part is the shared dummynode.  t.full is TRUE when a *)
(* key was put in a table with no free node while it was being resized.    *)
(***************************************************************************)
EXTENDS Integers, SequencesExt, FiniteSetsExt

CONSTANTS
    Ints, Strings,  \* the keys
    Values, Nil,
    Orders,         \* the order functions: sets of pairs <<less, greater>>
    Lists,          \* the positional items of constructors
    Programs,       \* the keys, values and operations a program uses
    HashNum(_),     \* the sum of the words of a number
    HashStr(_),     \* the hash of a string
    MAXBITS,        \* the array part has at most 2^MAXBITS slots
    MAX_INT

Keys == Ints \cup Strings

VARIABLES
    t,
    fields,     \* what luaH_get finds for each key
    cursor,     \* the key that the traversal gave last
    trav,       \* as in LuaTableSpec: what the program did and was given
    prog,       \* the program
    done        \* its operations so far

vars == <<t, fields, cursor, trav, prog, done>>

sizearray(T) == Len(T.array)
sizenode(T) == Len(T.node)
EmptyNode == [k |-> Nil, dead |-> FALSE, v |-> Nil, next |-> 0]
Nodes(n) == [i \in 1 .. n |-> EmptyNode]

ceillog2(n) == CHOOSE i \in 0 .. n : 2 ^ i >= n /\ (i = 0 \/ 2 ^ (i - 1) < n)
Odd(n) == IF n % 2 = 0 THEN n + 1 ELSE n

(* Where a key is *)

hashnum(T, k) == IF k = 0 THEN 1 ELSE 1 + (HashNum(k) % Odd(sizenode(T) - 1))
mainposition(T, k) ==
    IF k \in Strings THEN 1 + (HashStr(k) % sizenode(T)) ELSE hashnum(T, k)

\* The nodes of the chain that starts at node i.
Chain(T, i) ==
    FoldLeft(LAMBDA c, n : IF T.node[Last(c)].next = 0 THEN c ELSE Append(c, T.node[Last(c)].next),
             <<i>>, Tail(T.node))

InArray(T, k) == k \in Ints /\ 1 <= k /\ k <= sizearray(T)

\* The first of the nodes that holds key k, dead or alive as the caller asks.
FirstWith(T, k, nodes, deadToo) ==
    LET i == SelectInSeq(nodes, LAMBDA n : T.node[n].k = k /\ (T.node[n].dead => deadToo))
    IN  IF i = 0 THEN 0 ELSE nodes[i]
Node(T, k) == FirstWith(T, k, Chain(T, mainposition(T, k)), FALSE)
luaH_get(T, k) ==
    IF InArray(T, k) THEN T.array[k]
    ELSE LET n == Node(T, k) IN IF n = 0 THEN Nil ELSE T.node[n].v

(* Traversal *)

\* Slots are numbered from 1, those of the array first; 0 is before them all
\* and NoKey is the error "invalid key to `next'".
NoKey == -1
SlotOf(T, n) == IF n = 0 THEN NoKey ELSE sizearray(T) + n
\* (Mutant: a dead key is not found.)
findindexAlive(T, k) ==
    IF k = Nil THEN 0 ELSE IF InArray(T, k) THEN k ELSE SlotOf(T, Node(T, k))
findindex(T, k) ==
    IF k = Nil THEN 0
    ELSE IF InArray(T, k) THEN k
    ELSE SlotOf(T, FirstWith(T, k, Chain(T, mainposition(T, k)), TRUE))

\* The slots after slot i that hold a value, and the key of a slot.
Rest(T, i) ==
    {j \in i + 1 .. sizearray(T) + sizenode(T) :
        IF j <= sizearray(T) THEN T.array[j] # Nil ELSE T.node[j - sizearray(T)].v # Nil}
KeyAt(T, j) == IF j <= sizearray(T) THEN j ELSE T.node[j - sizearray(T)].k
luaH_next(T, k) ==
    LET rest == Rest(T, findindex(T, k)) IN IF rest = {} THEN Nil ELSE KeyAt(T, Min(rest))

(* Inserting in the hash part *)

Fill(T, i, k, v) == [T EXCEPT !.node[i].k = k, !.node[i].dead = FALSE, !.node[i].v = v]

getfreepos(T) ==
    LET free == {i \in 1 .. T.lastfree : T.node[i].k = Nil} IN IF free = {} THEN 0 ELSE Max(free)


\* The colliding node mp, not in its main position, gives way to the new key.
MoveColliding(T, mp, n, previous, k, v) ==
    Fill([T EXCEPT !.lastfree = n - 1, !.node[previous].next = n,
                   !.node[n] = T.node[mp], !.node[mp].next = 0], mp, k, v)
\* (Mutant: the new node goes to the end of the chain.)
ChainLast(T, mp, n, k, v) ==
    Fill([T EXCEPT !.lastfree = n - 1, !.node[Last(Chain(T, mp))].next = n], n, k, v)
\* The new key goes to the free node n, next after the colliding node mp.
ChainFree(T, mp, n, k, v) ==
    Fill([T EXCEPT !.lastfree = n - 1, !.node[n].next = T.node[mp].next, !.node[mp].next = n],
         n, k, v)

Previous(T, mp) ==
    LET chain == Chain(T, mainposition(T, T.node[mp].k))
    IN  chain[SelectInSeq(chain, LAMBDA i : T.node[i].next = mp)]

newkeyColliding(T, mp, n, k, v) ==
    IF n = 0 THEN [T EXCEPT !.full = TRUE]
    ELSE IF mainposition(T, T.node[mp].k) # mp THEN MoveColliding(T, mp, n, Previous(T, mp), k, v)
    ELSE ChainFree(T, mp, n, k, v)

newkey(T, k, v) ==
    LET mp == mainposition(T, k)
    IN  IF T.node[mp].v = Nil /\ ~ T.dummy THEN Fill(T, mp, k, v)
        ELSE newkeyColliding(T, mp, getfreepos(T), k, v)

\* luaH_set and an assignment to the place that it returns, with no rehash.
SetNoRehash(T, k, v) ==
    IF InArray(T, k) THEN [T EXCEPT !.array[k] = v]
    ELSE LET n == Node(T, k) IN IF n = 0 THEN newkey(T, k, v) ELSE [T EXCEPT !.node[n].v = v]

(* Rehash *)

\* nums[i]: how many of the integer keys ks are in (2^(i-1), 2^i].
countint(ks) ==
    [i \in 0 .. MAXBITS |-> Cardinality({k \in ks \cap Ints : k >= 1 /\ ceillog2(k) = i})]
numusearray(T) == {i \in 1 .. sizearray(T) : T.array[i] # Nil}
numusehash(T) == {T.node[n].k : n \in {m \in 1 .. sizenode(T) : T.node[m].v # Nil}}

UpTo(nums, i) == FoldFunctionOnSet(+, 0, nums, 0 .. i)

\* (Mutant: half of the slots are enough.)
computesizesHalf(nums, narray) ==
    LET full == {i \in 0 .. MAXBITS : /\ 2 ^ i \div 2 < narray
                                      /\ nums[i] > 0
                                      /\ UpTo(nums, i) >= 2 ^ i \div 2}
    IN  IF full = {} THEN <<0, 0>> ELSE <<2 ^ Max(full), UpTo(nums, Max(full))>>
\* The size of the array part, when narray keys could go there: the largest
\* 2^i of which more than a half would be in use.
computesizes(nums, narray) ==
    LET full == {i \in 0 .. MAXBITS : /\ 2 ^ i \div 2 < narray
                                      /\ nums[i] > 0
                                      /\ UpTo(nums, i) > 2 ^ i \div 2}
    IN  IF full = {} THEN <<0, 0>> ELSE <<2 ^ Max(full), UpTo(nums, Max(full))>>

setarrayvector(T, size) ==
    [T EXCEPT !.array = [i \in 1 .. size |-> IF i <= sizearray(T) THEN T.array[i] ELSE Nil]]

setnodevector(T, size) ==
    IF size = 0 THEN [T EXCEPT !.node = Nodes(1), !.dummy = TRUE, !.lastfree = 0]
    ELSE [T EXCEPT !.node = Nodes(2 ^ ceillog2(size)), !.dummy = FALSE,
                   !.lastfree = 2 ^ ceillog2(size)]

\* The elements of the vanishing slice of the array, then those of the old
\* hash part from its last node, are inserted again.
ReinsertArray(T, array) ==
    FoldLeft(LAMBDA U, i : IF array[i] = Nil THEN U ELSE SetNoRehash(U, i, array[i]),
             T, [j \in 1 .. Len(array) - sizearray(T) |-> sizearray(T) + j])
ReinsertNodes(T, node) ==
    FoldRight(LAMBDA n, U : IF n.v = Nil THEN U ELSE SetNoRehash(U, n.k, n.v), node, T)

resize(T, nasize, nhsize) ==
    LET grown == IF nasize > sizearray(T) THEN setarrayvector(T, nasize) ELSE T
    IN  ReinsertNodes(
            ReinsertArray(setarrayvector(setnodevector(grown, nhsize), nasize), grown.array),
            T.node)

luaH_resizearray(T, nasize) == resize(T, nasize, IF T.dummy THEN 0 ELSE sizenode(T))

\* sizes: the new size of the array part, and how many keys go there.
ResizeTo(T, totaluse, sizes) == resize(T, sizes[1], totaluse - sizes[2])
RehashFor(T, ints, totaluse) ==
    ResizeTo(T, totaluse, computesizes(countint(ints), Cardinality(ints)))
IsIndex(k) == k \in Ints /\ 1 <= k /\ k <= 2 ^ MAXBITS
rehash(T, ek) ==
    RehashFor(T, {k \in numusearray(T) \cup numusehash(T) \cup {ek} : IsIndex(k)},
              Cardinality(numusearray(T)) + Cardinality(numusehash(T)) + 1)

\* luaH_set and an assignment to the place that it returns.
luaH_set(T, k, v) ==
    LET set == SetNoRehash(T, k, v)
    IN  IF set.full THEN SetNoRehash(rehash(T, k), k, v) ELSE set

luaH_new(narray, nhash) ==
    setnodevector(setarrayvector([array |-> <<>>, node |-> Nodes(1), dummy |-> TRUE,
                                  lastfree |-> 0, full |-> FALSE], narray), nhash)

(* The search for a border *)

RECURSIVE BinarySearch(_, _, _), LinearSearch(_, _), unbound_search(_, _, _)
BinarySearch(T, i, j) ==
    IF j - i <= 1 THEN i
    ELSE LET m == (i + j) \div 2
         IN  IF luaH_get(T, m) = Nil THEN BinarySearch(T, i, m) ELSE BinarySearch(T, m, j)
LinearSearch(T, i) == IF luaH_get(T, i) = Nil THEN i - 1 ELSE LinearSearch(T, i + 1)

\* i is zero or a present index.
unbound_search(T, i, j) ==
    IF luaH_get(T, j) = Nil THEN BinarySearch(T, i, j)
    ELSE IF 2 * j > MAX_INT THEN LinearSearch(T, 1)
    ELSE unbound_search(T, j, 2 * j)

luaH_getn(T) ==
    IF sizearray(T) > 0 /\ Last(T.array) = Nil THEN BinarySearch(T, 0, sizearray(T))
    ELSE IF T.dummy THEN sizearray(T)
    ELSE unbound_search(T, sizearray(T), sizearray(T) + 1)

(* The library of tables *)

\* t[i] = t[i - 1] from last down to pos + 1.
MoveUp(T, pos, last) ==
    FoldLeft(LAMBDA U, i : luaH_set(U, i, luaH_get(U, i - 1)),
             T, [j \in 1 .. last - pos |-> last + 1 - j])
MoveDown(T, pos, last) ==
    FoldLeft(LAMBDA U, i : luaH_set(U, i, luaH_get(U, i + 1)),
             T, [j \in 1 .. last - pos |-> pos - 1 + j])
LastMoved(T, pos) == Max({pos, luaH_getn(T) + 1})
tinsert(T, pos, v) == luaH_set(MoveUp(T, pos, LastMoved(T, pos)), pos, v)
tremove(T, pos) == luaH_set(MoveDown(T, pos, luaH_getn(T)), luaH_getn(T), Nil)

\* The first place after i, and the last before j, where a repeat of the
\* partition stops; beyond u and l it is the error "invalid order function".
Below(a, k) == IF k \in DOMAIN a THEN a[k] ELSE Nil
StopUp(less, a, i, u, P) ==
    Min({k \in i + 1 .. u + 2 : k > u + 1 \/ <<Below(a, k), P>> \notin less})
StopDown(less, a, j, l, P) ==
    Max({k \in l - 2 .. j - 1 : k < l - 1 \/ <<P, Below(a, k)>> \notin less})
Swap(a, i, j) == [a EXCEPT ![i] = a[j], ![j] = a[i]]
SwapIf(less, a, i, j) == IF <<a[j], a[i]>> \in less THEN Swap(a, i, j) ELSE a
MedianFirst(less, a, l, i, u) ==
    IF <<a[i], a[l]>> \in less THEN Swap(a, i, l) ELSE SwapIf(less, a, i, u)

RECURSIVE auxsort(_, _, _, _), Partition(_, _, _, _, _, _)

\* Both halves of a partitioned array are sorted, the smaller one first.
Halves(less, a, l, i, u) ==
    IF i - l < u - i THEN auxsort(less, auxsort(less, a, l, i - 1), i + 1, u)
    ELSE auxsort(less, auxsort(less, a, i + 1, u), l, i - 1)
Advance(less, a, l, u, i, j) ==
    IF i > u + 1 \/ j < l - 1 THEN a
    ELSE IF j < i THEN Halves(less, Swap(a, u - 1, i), l, i, u)
    ELSE Partition(less, Swap(a, i, j), l, u, i, j)
Partition(less, a, l, u, i, j) ==
    Advance(less, a, l, u, StopUp(less, a, i, u, a[u - 1]), StopDown(less, a, j, l, a[u - 1]))
\* The median of three becomes the pivot, at u - 1.
Pivot(less, a, l, u) ==
    IF u - l = 2 THEN a ELSE Partition(less, Swap(a, (l + u) \div 2, u - 1), l, u, l, u - 1)
auxsort(less, a, l, u) ==
    IF l >= u THEN a
    ELSE IF u - l = 1 THEN SwapIf(less, a, l, u)
    ELSE Pivot(less, MedianFirst(less, SwapIf(less, a, l, u), l, (l + u) \div 2, u), l, u)

IntPart(T) == [k \in Ints |-> luaH_get(T, k)]
StoreInts(T, a, n) ==
    FoldLeft(LAMBDA U, k : luaH_set(U, k, a[k]), T, [k \in 1 .. n |-> k])
sort(T, less) == StoreInts(T, auxsort(less, IntPart(T), 1, luaH_getn(T)), luaH_getn(T))

(* Operations of the program, and the collector *)

Map(T) == [k \in Keys |-> luaH_get(T, k)]

Init ==
    /\ prog \in Programs
    /\ t = luaH_new(prog.narray, prog.nhash)
    /\ fields = [k \in Keys |-> Nil]
    /\ cursor = Nil
    /\ trav = [state |-> "building", seen |-> {}]
    /\ done = 0

Store(T) == t' = T /\ fields' = Map(T)
Op == done < prog.steps /\ done' = done + 1 /\ UNCHANGED prog

\* The traversal is undefined once an absent field of ks is assigned to.
Touch(ks) ==
    trav' = IF trav.state = "running" /\ \E k \in ks : fields[k] = Nil
            THEN [state |-> "undefined", seen |-> {}]
            ELSE trav

Assign(k, v) ==
    /\ Op
    /\ Store(luaH_set(t, k, v))
    /\ Touch({k})
    /\ UNCHANGED cursor

\* OP_SETLIST stores the items from the last one down.
ForItems(T, n) == IF n > sizearray(T) THEN luaH_resizearray(T, n) ELSE T
SetList(vs) ==
    /\ Op
    /\ trav.state = "building"
    /\ Store(FoldLeft(LAMBDA U, k : luaH_set(U, k, vs[k]), ForItems(t, Len(vs)),
                      Reverse([k \in DOMAIN vs |-> k])))
    /\ UNCHANGED <<cursor, trav>>

Built == trav.state = "building" /\ trav' = [trav EXCEPT !.state = "idle"] /\ UNCHANGED <<t, fields, cursor, prog, done>>

TableInsert(pos, v) ==
    /\ Op
    /\ trav.state # "building"
    /\ LastMoved(t, pos) \in Ints
    /\ Store(tinsert(t, pos, v))
    /\ Touch(pos .. LastMoved(t, pos))
    /\ UNCHANGED cursor

TableRemove(pos) ==
    /\ Op
    /\ trav.state # "building"
    /\ pos <= luaH_getn(t)
    /\ Store(tremove(t, pos))
    /\ Touch(pos .. luaH_getn(t))
    /\ UNCHANGED cursor

Sort(less) ==
    /\ Op
    /\ trav.state # "building"
    /\ \A k \in 1 .. luaH_getn(t) : fields[k] # Nil
    /\ Store(sort(t, less))
    /\ UNCHANGED <<cursor, trav>>

Start ==
    /\ Op
    /\ trav.state \in {"idle", "undefined"}
    /\ trav' = [state |-> "running", seen |-> {}]
    /\ cursor' = Nil
    /\ UNCHANGED <<t, fields>>

\* After an assignment to an absent field the program goes on with whatever
\* the traversal gives it.
Traversing == trav.state \in {"running", "undefined"} /\ UNCHANGED <<t, fields, prog, done>>

Step ==
    /\ Traversing
    /\ findindex(t, cursor) # NoKey
    /\ cursor' = luaH_next(t, cursor)
    /\ trav' = CASE cursor' = Nil -> [state |-> "idle", seen |-> {}]
                 [] trav.state = "undefined" -> trav
                 [] OTHER -> [trav EXCEPT !.seen = @ \cup {cursor'}]

\* The error "invalid key to `next'".
InvalidKey ==
    /\ Traversing
    /\ findindex(t, cursor) = NoKey
    /\ cursor' = Nil
    /\ trav' = [state |-> "idle", seen |-> {}]

\* traversetable: the empty entries are removed when the table is marked.
removeentry(n) == IF n.v = Nil /\ n.k \in Strings THEN [n EXCEPT !.dead = TRUE] ELSE n
Collect ==
    /\ \E n \in DOMAIN t.node : removeentry(t.node[n]) # t.node[n]
    /\ t' = [t EXCEPT !.node = [i \in DOMAIN t.node |-> removeentry(t.node[i])]]
    /\ fields' = Map(t')
    /\ UNCHANGED <<cursor, trav, prog, done>>

Next ==
    \/ \E k \in prog.keys, v \in prog.values \cup {Nil} : Assign(k, v)
    \/ \E vs \in prog.lists : SetList(vs)
    \/ Built
    \/ \E pos \in prog.places, v \in prog.values : TableInsert(pos, v)
    \/ \E pos \in prog.places : TableRemove(pos)
    \/ \E less \in prog.orders : Sort(less)
    \/ Start
    \/ Step
    \/ InvalidKey
    \/ Collect

Spec == Init /\ [][Next]_vars

(* Properties *)


\* A table is a map, its traversal gives every field once, and its length is
\* a border, through every collision, rehash and collection.
P == INSTANCE LuaTableSpec WITH map <- fields
Promise == P!Spec

\* ltable.c:14-18: a key is in the chain of its main position, and the key
\* in that position is then in its own; `next' looks for a key that may be
\* dead, so a node where the key is alive comes before those where it died.
Chains ==
    /\ \A n \in DOMAIN t.node : t.node[n].v # Nil =>
           LET mp == mainposition(t, t.node[n].k)
           IN  /\ Contains(Chain(t, mp), n)
               /\ mp # n => mainposition(t, t.node[mp].k) = mp
    /\ \A k \in Keys : Node(t, k) # 0 =>
           FirstWith(t, k, Chain(t, mainposition(t, k)), TRUE) = Node(t, k)

\* A rehash for one more key divides the keys so that the array part is the
\* largest that would be more than half full (ltable.c:12-14, 205), and keeps
\* every field; the hash part of the new size has room for all its keys and the
\* new one, so that no rehash is needed while the old nodes are inserted.
LargestArray(ks) ==
    Max({0} \cup {2 ^ i : i \in {j \in 0 .. MAXBITS : 2 * Cardinality(ks \cap 1 .. 2 ^ j) > 2 ^ j}})
Absent(T) == {k \in Keys : ~ InArray(T, k) /\ Node(T, k) = 0}
RehashDivides ==
    /\ ~ t.full
    /\ \A k \in Absent(t) :
           LET T == rehash(t, k)
           IN  /\ sizearray(T) = LargestArray({i \in Ints : fields[i] # Nil \/ i = k})
               /\ Map(T) = fields
=============================================================================
