------------------------- MODULE StringBufferProofs -------------------------
(***************************************************************************)
(* Proofs about the string buffer, for strings of any length: see          *)
(* StringBuffer.                                                           *)
(***************************************************************************)
EXTENDS StringBuffer, SequenceTheorems, TLAPS

\* Where the loops are: the string at i is the last but one of those counted by n.
AtTop ==
    /\ n = IF LUA_COMPAT_GETN THEN Len(stack) ELSE 0
    /\ pc = "add" => stack # << >>
    /\ pc \in {"add", "join"} => i = n - 1

\* The part of the stack that the loop of addString has not reached decreases.
DecreasingBelow ==
    pc = "add" => \A k \in 1..(Len(stack) - 2) : Length(stack[k]) > Length(stack[k + 1])

IInv ==
    /\ TypeOK /\ Adjacent /\ AtTop
    /\ LUA_COMPAT_GETN => Decreasing /\ DecreasingBelow

-----------------------------------------------------------------------------

\* A join replaces the two strings at the top by one.
LEMMA JoinProperties ==
    ASSUME TypeOK, i = Len(stack) - 1, i >= 1, Join
    PROVE  /\ stack' \in Seq(Strings)
           /\ Len(stack') = Len(stack) - 1
           /\ i' = Len(stack') - 1
           /\ n' = IF LUA_COMPAT_GETN THEN Len(stack') ELSE n
           /\ \A k \in 1..(i - 1) : stack'[k] = stack[k]
           /\ stack'[i].from = stack[i].from
           /\ stack'[i].to = stack[Len(stack)].to
  <1> DEFINE s == SubSeq(stack, 1, Len(stack) - 1)
             t == Concat(stack[i], stack[Len(stack)])
  <1>1. /\ stack \in Seq(Strings) /\ Len(stack) \in Nat /\ i \in Nat
        /\ i \in 1..Len(stack) /\ Len(stack) \in 1..Len(stack)
    BY DEF TypeOK
  <1>2. stack[i] \in Strings /\ stack[Len(stack)] \in Strings
    BY <1>1
  <1>3. t \in Strings
    BY <1>2 DEF Concat, Strings
  <1>4. s \in Seq(Strings) /\ Len(s) = Len(stack) - 1 /\ \A k \in 1..i : s[k] = stack[k]
    BY <1>1
  <1>5. /\ stack' = [s EXCEPT ![i] = t] /\ i' = i - 1
        /\ n' = IF LUA_COMPAT_GETN THEN Len(stack) - 1 ELSE n
    BY DEF Join, SizeSet
  <1>6. /\ stack' \in Seq(Strings) /\ Len(stack') = Len(s)
        /\ stack'[i] = t /\ \A k \in 1..(i - 1) : stack'[k] = s[k]
    <2> HIDE DEF s, t
    <2> QED
      BY <1>1, <1>3, <1>4, <1>5
  <1>7. t.from = stack[i].from /\ t.to = stack[Len(stack)].to
    BY DEF Concat
  <1> QED
    BY <1>1, <1>4, <1>5, <1>6, <1>7

\* A join keeps the bytes in order.
LEMMA JoinAdjacent ==
    ASSUME TypeOK, Adjacent, i = Len(stack) - 1, i >= 1, Join, added' = added
    PROVE  Adjacent'
  <1> /\ Len(stack) \in Nat /\ i \in Nat /\ stack # << >>
    BY DEF TypeOK
  <1>1. /\ Len(stack') = i
        /\ \A k \in 1..(i - 1) : stack'[k] = stack[k]
        /\ stack'[i].from = stack[i].from
        /\ stack'[i].to = stack[i + 1].to
        /\ stack' # << >>
    BY JoinProperties
  <1>2. stack[1].from = 1 /\ stack[i + 1].to = added
    BY DEF Adjacent
  <1>3. stack'[1].from = 1 /\ stack'[Len(stack')].to = added
    BY <1>1, <1>2
  <1>4. ASSUME NEW k \in 1..(i - 1)
        PROVE  stack'[k + 1].from = stack'[k].to + 1
    <2>1. stack[k + 1].from = stack[k].to + 1
      BY DEF Adjacent
    <2>2. stack'[k + 1].from = stack[k + 1].from
      BY <1>1
    <2> QED
      BY <1>1, <2>1, <2>2
  <1> QED
    BY <1>1, <1>3, <1>4 DEF Adjacent

\* A string is added on top.
LEMMA AddStringIInv == IInv /\ AddString => IInv'
  <1> SUFFICES ASSUME IInv, AddString PROVE IInv'
    OBVIOUS
  <1> PICK m \in 0..MaxAdd :
        /\ added + m <= MaxBytes
        /\ stack' = Append(stack, [from |-> added + 1, to |-> added + m])
        /\ added' = added + m
    BY DEF AddString
  <1>1. /\ stack \in Seq(Strings) /\ Len(stack) \in Nat /\ added \in Nat
        /\ m \in Nat /\ MaxBytes \in Nat
    BY StringBufferAssumption DEF IInv, TypeOK
  <1> DEFINE s == [from |-> added + 1, to |-> added + m]
  <1>2. s \in Strings /\ s.from = added + 1 /\ s.to = added + m
    BY <1>1 DEF Strings
  <1>3. /\ stack' = Append(stack, s)
        /\ stack' \in Seq(Strings)
        /\ Len(stack') = Len(stack) + 1
        /\ \A k \in 1..Len(stack) : stack'[k] = stack[k]
        /\ stack'[Len(stack) + 1] = s
        /\ stack' # << >>
    BY <1>1, <1>2
  <1>4. /\ pc = "idle" /\ pc' = "add" /\ i' = n' - 1 /\ result' = result
        /\ n' = IF LUA_COMPAT_GETN THEN Len(stack) + 1 ELSE n
    BY DEF AddString, SizeSet
  <1>5. TypeOK' /\ AtTop'
    BY <1>1, <1>3, <1>4 DEF IInv, TypeOK, AtTop
  <1>6. Adjacent'
    <2>1. stack'[1].from = 1 /\ stack'[Len(stack')].to = added'
      <3>1. CASE stack = << >>
        BY <1>1, <1>2, <1>3, <3>1 DEF IInv, Adjacent
      <3>2. CASE stack # << >>
        BY <1>1, <1>2, <1>3, <3>2 DEF IInv, Adjacent
      <3> QED
        BY <3>1, <3>2
    <2>2. ASSUME NEW k \in 1..(Len(stack') - 1)
          PROVE  stack'[k + 1].from = stack'[k].to + 1
      <3>1. CASE k = Len(stack)
        BY <1>1, <1>2, <1>3, <3>1 DEF IInv, Adjacent
      <3>2. CASE k # Len(stack)
        BY <1>1, <1>3, <3>2 DEF IInv, Adjacent
      <3> QED
        BY <3>1, <3>2
    <2> QED
      BY <1>3, <2>1, <2>2 DEF Adjacent
  <1>7. LUA_COMPAT_GETN => Decreasing' /\ DecreasingBelow'
    <2>1. ASSUME LUA_COMPAT_GETN, NEW k \in 1..(Len(stack') - 2)
          PROVE  Length(stack'[k]) > Length(stack'[k + 1])
      BY <1>1, <1>3, <1>4, <2>1 DEF IInv, Decreasing
    <2> QED
      BY <1>4, <2>1 DEF Decreasing, DecreasingBelow, Length
  <1> QED
    BY <1>5, <1>6, <1>7 DEF IInv

\* The loops join the strings at the top, or stop.
LEMMA JoinsIInv == IInv /\ (AddJoins \/ ToStringJoins) => IInv'
  <1> SUFFICES ASSUME IInv, AddJoins \/ ToStringJoins PROVE IInv'
    OBVIOUS
  <1>1. /\ pc \in {"add", "join"} /\ pc' = pc /\ UNCHANGED <<added, result>>
        /\ i >= 1 /\ Join /\ Len(stack) \in Nat /\ i \in Nat
    BY DEF AddJoins, ToStringJoins, IInv, TypeOK
  <1>2. /\ LUA_COMPAT_GETN /\ n = Len(stack) /\ i = Len(stack) - 1
        /\ TypeOK /\ Adjacent
    BY <1>1 DEF IInv, AtTop
  <1>3. /\ stack' \in Seq(Strings)
        /\ Len(stack') = i
        /\ i' = i - 1
        /\ n' = i
        /\ \A k \in 1..(i - 1) : stack'[k] = stack[k]
        /\ stack'[i].from = stack[i].from
        /\ stack' # << >>
    BY <1>1, <1>2, JoinProperties
  <1>4. TypeOK' /\ AtTop'
    BY <1>1, <1>2, <1>3 DEF TypeOK, AtTop
  <1>5. Adjacent'
    BY <1>1, <1>2, JoinAdjacent
  <1>6. Decreasing' /\ DecreasingBelow'
    <2>1. ASSUME pc = "add", NEW k \in 1..(Len(stack') - 2)
          PROVE  Length(stack'[k]) > Length(stack'[k + 1])
      <3>1. Length(stack[k]) > Length(stack[k + 1])
        BY <1>1, <1>2, <1>3, <2>1 DEF IInv, DecreasingBelow
      <3>2. stack'[k] = stack[k] /\ stack'[k + 1] = stack[k + 1]
        BY <1>1, <1>3
      <3> QED
        BY <3>1, <3>2
    <2> QED
      BY <1>1, <2>1 DEF Decreasing, DecreasingBelow, Length
  <1> QED
    BY <1>4, <1>5, <1>6 DEF IInv

LEMMA AddReturnsIInv == IInv /\ AddReturns => IInv'
  <1> SUFFICES ASSUME IInv, AddReturns PROVE IInv'
    OBVIOUS
  <1>1. /\ pc = "add" /\ pc' = "idle" /\ UNCHANGED <<stack, n, i, added, result>>
        /\ i >= 1 => Length(stack[i]) > Length(stack[i + 1])
        /\ LUA_COMPAT_GETN => i = Len(stack) - 1
        /\ Len(stack) \in Nat
    BY DEF AddReturns, LongerBelow, IInv, TypeOK, AtTop
  <1>2. ASSUME LUA_COMPAT_GETN, NEW k \in 1..(Len(stack) - 1)
        PROVE  Length(stack[k]) > Length(stack[k + 1])
    <2>1. CASE k = i
      BY <1>1, <1>2, <2>1
    <2>2. CASE k # i
      BY <1>1, <1>2, <2>2 DEF IInv, DecreasingBelow
    <2> QED
      BY <2>1, <2>2
  <1> QED
    BY <1>1, <1>2 DEF IInv, TypeOK, Adjacent, AtTop, Decreasing, DecreasingBelow, Length

LEMMA ToStringIInv == IInv /\ (ToString \/ ToStringReturns) => IInv'
  <1> SUFFICES ASSUME IInv, ToString \/ ToStringReturns PROVE IInv'
    OBVIOUS
  <1>0. /\ stack \in Seq(Strings) /\ Len(stack) \in Nat
        /\ stack # << >> => Len(stack) >= 1 /\ stack[1] \in Strings
    BY DEF IInv, TypeOK
  <1>1. CASE ToString
    <2>1. i' = n - 1 /\ i' \in -1..Len(stack)
      BY <1>0, <1>1 DEF ToString, IInv, TypeOK
    <2> QED
      BY <1>0, <1>1, <2>1
      DEF ToString, IInv, TypeOK, Adjacent, AtTop, Decreasing, DecreasingBelow, Length
  <1>2. CASE ToStringReturns
    <2>2. result' \in Strings
      BY <1>0, <1>2, StringBufferAssumption DEF ToStringReturns, Nil, Strings
    <2> QED
      BY <1>0, <1>2, <2>2
      DEF ToStringReturns, IInv, TypeOK, Adjacent, AtTop, Decreasing, DecreasingBelow, Length
  <1> QED
    BY <1>1, <1>2

LEMMA IInvariant == Spec => []IInv
  <1>1. Init => IInv
    BY StringBufferAssumption
    DEF Init, IInv, TypeOK, Adjacent, AtTop, Decreasing, DecreasingBelow, Nil, Strings
  <1>2. IInv /\ [Next]_vars => IInv'
    <2>1. ASSUME IInv, UNCHANGED vars PROVE IInv'
      BY <2>1 DEF vars, IInv, TypeOK, Adjacent, AtTop, Decreasing, DecreasingBelow, Length
    <2> QED
      BY <2>1, AddStringIInv, JoinsIInv, AddReturnsIInv, ToStringIInv DEF Next
  <1> QED
    BY <1>1, <1>2, PTL DEF Spec

\* The strings of the stack are the bytes added, in order (addString, toString),
\* whichever table library the program is linked with.
THEOREM NothingLost == Spec => []Adjacent
  <1>1. IInv => Adjacent
    BY DEF IInv
  <1> QED
    BY <1>1, IInvariant, PTL

\* With a table library that sets n, every string is longer than the one above it
\* between two calls (addString).
THEOREM LongStringsBelow ==
    ASSUME LUA_COMPAT_GETN
    PROVE  Spec => []Decreasing
  <1>1. IInv => Decreasing
    BY DEF IInv
  <1> QED
    BY <1>1, IInvariant, PTL

\* With a table library that sets n, toString returns everything that was added,
\* in order.
THEOREM ToStringReturnsEverything ==
    ASSUME LUA_COMPAT_GETN
    PROVE  Spec => ReturnsEverything
  <1>1. ASSUME IInv, [Next]_vars
        PROVE  [pc = "join" /\ pc' = "idle" =>
                  result' = IF stack = << >> THEN Nil ELSE [from |-> 1, to |-> added]]_vars
    <2> SUFFICES ASSUME pc = "join", pc' = "idle"
                 PROVE  result' = IF stack = << >> THEN Nil ELSE [from |-> 1, to |-> added]
      OBVIOUS
    <2>1. ToStringReturns
      BY <1>1 DEF Next, AddString, AddJoins, AddReturns, ToString, ToStringJoins, vars
    <2>2. CASE stack = << >>
      BY <2>1, <2>2 DEF ToStringReturns
    <2>3. CASE stack # << >>
      <3>1. stack \in Seq(Strings) /\ Len(stack) \in Nat /\ Len(stack) = 1
        BY <1>1, <2>1, <2>3 DEF ToStringReturns, IInv, TypeOK, AtTop
      <3>2. stack[1] \in Strings /\ stack[1].from = 1 /\ stack[1].to = added
        BY <1>1, <2>3, <3>1 DEF IInv, Adjacent
      <3>3. stack[1] = [from |-> 1, to |-> added]
        BY <3>2 DEF Strings
      <3> QED
        BY <2>1, <2>3, <3>3 DEF ToStringReturns
    <2> QED
      BY <2>2, <2>3
  <1> QED
    BY <1>1, IInvariant, PTL DEF Spec, ReturnsEverything
\* With a table library that does not set n, as that of src/lua, nothing is ever
\* joined: the strings of the stack stay as they were added, and toString returns
\* the first of them (addString, toString).
FirstOnly ==
    [][/\ \A k \in 1..Len(stack) : k <= Len(stack') /\ stack'[k] = stack[k]
       /\ pc = "join" /\ pc' = "idle" /\ stack # << >> => result' = stack[1]]_vars

THEOREM NothingIsJoined ==
    ASSUME ~ LUA_COMPAT_GETN
    PROVE  Spec => FirstOnly
  <1>1. ASSUME IInv, [Next]_vars
        PROVE  [/\ \A k \in 1..Len(stack) : k <= Len(stack') /\ stack'[k] = stack[k]
                /\ pc = "join" /\ pc' = "idle" /\ stack # << >> => result' = stack[1]]_vars
    <2>1. CASE UNCHANGED vars
      BY <2>1
    <2>2. CASE AddString
      <3>1. PICK s : stack' = Append(stack, s)
        BY <2>2 DEF AddString
      <3>2. stack \in Seq(Strings) /\ pc # "join"
        BY <1>1, <2>2 DEF IInv, TypeOK, AddString
      <3> QED
        BY <3>1, <3>2
    <2>3. CASE AddJoins \/ ToStringJoins
      <3>1. i = 0 - 1
        BY <1>1, <2>3 DEF IInv, AtTop, AddJoins, ToStringJoins
      <3> QED
        BY <2>3, <3>1 DEF AddJoins, ToStringJoins
    <2>4. CASE AddReturns \/ ToString \/ ToStringReturns
      <3>1. stack' = stack /\ stack \in Seq(Strings) /\ Len(stack) \in Nat
        BY <1>1, <2>4 DEF IInv, TypeOK, AddReturns, ToString, ToStringReturns
      <3>2. pc = "join" /\ pc' = "idle" /\ stack # << >> => result' = stack[1]
        BY <2>4 DEF AddReturns, ToString, ToStringReturns
      <3> QED
        BY <3>1, <3>2
    <2> QED
      BY <1>1, <2>1, <2>2, <2>3, <2>4 DEF Next
  <1> QED
    BY <1>1, IInvariant, PTL DEF Spec, FirstOnly
=============================================================================
