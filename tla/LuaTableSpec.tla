---------------------------- MODULE LuaTableSpec ----------------------------
(***************************************************************************)
(* What a Lua table promises: a map from keys to values in which Nil is    *)
(* the value of an absent field; a traversal that gives every field once,  *)
(* in any order, unless the program assigns to an absent field meanwhile;  *)
(* and a length that is any border of the map.                             *)
(***************************************************************************)
EXTENDS Integers, FiniteSets

CONSTANTS
    Ints, Strings,  \* the keys
    Values, Nil,
    Orders,         \* the order functions: sets of pairs <<less, greater>>
    Lists           \* the positional items of constructors

Keys == Ints \cup Strings

VARIABLES
    map,    \* the value of each key
    trav    \* the traversal: where it stands and the keys it has given

vars == <<map, trav>>

Init == map = [k \in Keys |-> Nil] /\ trav = [state |-> "building", seen |-> {}]

\* n is a border when t[n] is the last of its run of fields, or 0.
Has(m, n) == n \in Ints /\ m[n] # Nil
IsBorder(m, n) == (n = 0 \/ Has(m, n)) /\ ~ Has(m, n + 1)

\* An assignment to an absent field makes the rest of a traversal undefined.
Touch(ks) ==
    trav' = IF trav.state = "running" /\ \E k \in ks : map[k] = Nil
            THEN [state |-> "undefined", seen |-> {}]
            ELSE trav
Assign(k, v) == map' = [map EXCEPT ![k] = v] /\ Touch({k})

\* The positional items of a constructor.
SetList(vs) ==
    /\ trav.state = "building"
    /\ DOMAIN vs \subseteq Ints
    /\ map' = [k \in Keys |-> IF k \in DOMAIN vs THEN vs[k] ELSE map[k]]
    /\ UNCHANGED trav

Built == trav.state = "building" /\ trav' = [trav EXCEPT !.state = "idle"] /\ UNCHANGED map

\* table.insert moves the elements from pos to a border up by one.
TableInsert(pos, v) ==
    /\ trav.state # "building"
    /\ \E e \in {n \in Ints \cup {0} : IsBorder(map, n)} :
        LET last == IF pos > e + 1 THEN pos ELSE e + 1
               moved == {k \in Ints : pos < k /\ k <= last}
           IN  /\ last \in Ints
               /\ map' = [k \in Keys |-> CASE k = pos -> v
                                           [] k \in moved -> map[k - 1]
                                           [] OTHER -> map[k]]
               /\ Touch(moved \cup {pos})

\* table.remove moves the elements from pos to a border down by one.
TableRemove(pos) ==
    /\ trav.state # "building"
    /\ \E e \in {n \in Ints : IsBorder(map, n)} :
           LET moved == {k \in Ints : pos <= k /\ k < e}
           IN  /\ 1 <= pos /\ pos <= e
               /\ map' = [k \in Keys |-> CASE k = e -> Nil
                                           [] k \in moved -> map[k + 1]
                                           [] OTHER -> map[k]]
               /\ Touch(moved \cup {e})

\* A sort rearranges the values up to a border so that none is less than the
\* one before it.
Sort(less) ==
    /\ trav.state # "building"
    /\ \E n \in {b \in Ints \cup {0} : IsBorder(map, b)} :
           /\ \A k \in 1 .. n : map[k] # Nil
           /\ \A k \in Keys \ (1 .. n) : map'[k] = map[k]
           /\ \A v \in Values : Cardinality({k \in 1 .. n : map'[k] = v}) =
                                Cardinality({k \in 1 .. n : map[k] = v})
           /\ \A k \in 1 .. n - 1 : <<map'[k + 1], map'[k]>> \notin less
    /\ UNCHANGED trav

Start ==
    /\ trav.state \in {"idle", "undefined"}
    /\ trav' = [state |-> "running", seen |-> {}]
    /\ UNCHANGED map

Give(k) ==
    /\ trav.state = "running"
    /\ map[k] # Nil
    /\ k \notin trav.seen
    /\ trav' = [trav EXCEPT !.seen = @ \cup {k}]
    /\ UNCHANGED map

\* A traversal ends only when it has given every field that there is.
End ==
    /\ trav.state = "running"
    /\ \A k \in Keys : map[k] # Nil => k \in trav.seen
    /\ trav' = [state |-> "idle", seen |-> {}]
    /\ UNCHANGED map

\* An undefined traversal may end at any time.
Stop == trav.state = "undefined" /\ trav' = [state |-> "idle", seen |-> {}] /\ UNCHANGED map

Next ==
    \/ \E k \in Keys, v \in Values \cup {Nil} : Assign(k, v)
    \/ \E vs \in Lists : SetList(vs)
    \/ Built
    \/ \E pos \in Ints, v \in Values : TableInsert(pos, v)
    \/ \E pos \in Ints : TableRemove(pos)
    \/ \E less \in Orders : Sort(less)
    \/ Start
    \/ \E k \in Keys : Give(k)
    \/ End
    \/ Stop

Spec == Init /\ [][Next]_vars
=============================================================================
