---------------------------- MODULE LuaCallProofs ----------------------------
(***************************************************************************)
(* Proofs about calls, errors and coroutines, for any number of coroutines *)
(* and any limits of the two stacks: see LuaCall.                          *)
(***************************************************************************)
EXTENDS LuaCall, SequenceTheorems, FiniteSetTheorems, TLAPS

-----------------------------------------------------------------------------
(* The inductive invariant, of a state S and the C calls of the host *)

Kinds == {"execute", "handler", "pcall", "resume"}
Frames == {"base", "Lua", "C"}
Statuses == {"none", "ok", "YIELD"} \cup Codes

Thread == [status : Statuses, ci : Seq(Frames), size : Nat, nCcalls : Nat, baseCcalls : Nat,
           errorJmp : Nat, errfunc : BOOLEAN, body : BOOLEAN]
Activations == [kind : Kinds, th : Threads, n : Nat, handler : BOOLEAN, wrap : BOOLEAN,
                ci : Nat, previous : Nat, nCcalls : Nat, errfunc : BOOLEAN]
State == [th : [Threads -> Thread], C : Seq(Activations),
          raise : {"no", "message"} \cup Codes]

Catches(a, x) == a.th = x /\ a.kind \in {"pcall", "resume"}

\* j is the innermost of the first m activations that catches errors of x.
Innermost(C, m, x, j) ==
    /\ j \in 0 .. m
    /\ j # 0 => Catches(C[j], x)
    /\ \A i \in 1 .. m : Catches(C[i], x) => i <= j

\* The C calls that count, among the first m activations.
Count(C, m) == Cardinality({j \in 1 .. m : C[j].kind # "pcall"})

\* The last activation of its thread.
IsTop(C, i) == i = Len(C) \/ C[i + 1].kind = "resume"

Resumed(C) ==
    \A i \in 1 .. Len(C) : C[i].th # Main =>
        \E r \in 1 .. i : C[r].th = C[i].th /\ C[r].kind = "resume"

\* The threads on the C stack: Main at the bottom, the others one above another.
Chained(C) ==
    /\ C # << >> => C[1].kind = "pcall" /\ C[1].th = Main
    /\ \A i \in 2 .. Len(C) : C[i].kind = "resume" => \A j \in 1 .. i - 1 : C[j].th # C[i].th
    /\ \A i \in 2 .. Len(C) : C[i].kind # "resume" => C[i].th = C[i - 1].th
    /\ \A i, m \in 1 .. Len(C) : C[i].th = C[m].th =>
           \A k \in i .. m : C[k].th = C[i].th
    /\ Resumed(C)

\* What an activation keeps of its thread.
Saved(C, host) ==
    \A i \in 1 .. Len(C) :
        /\ C[i].nCcalls = host + Count(C, i - 1)
        /\ C[i].nCcalls < ERRCCALLS
        /\ Innermost(C, i - 1, C[i].th, C[i].previous)
        /\ C[i].errfunc = (C[i].previous # 0 /\ C[C[i].previous].handler)
        /\ i > 1 /\ C[i].kind # "resume" => C[i].previous # 0
        /\ C[i].handler => C[i].kind = "pcall"

\* The CallInfos of a thread are shared out among its activations in order.
Divided(C) ==
    /\ \A i \in 1 .. Len(C) : C[i].ci >= 1
    /\ \A i \in 1 .. Len(C) : i = 1 \/ C[i].kind = "resume" => C[i].ci = 1
    /\ \A i, m \in 1 .. Len(C) : i < m /\ C[i].th = C[m].th => C[i].ci + C[i].n <= C[m].ci
    /\ \A i \in 2 .. Len(C) : C[i].kind # "resume" => C[i].ci <= C[i - 1].ci + C[i - 1].n + 1
    /\ \A i \in 2 .. Len(C) : C[i].kind = "pcall" => C[i].ci = C[i - 1].ci + C[i - 1].n + 1
    /\ \A i \in 1 .. Len(C) : C[i].kind = "pcall" => C[i].n = 0
    /\ \A i \in 2 .. Len(C) : C[i - 1].kind = "pcall" => C[i].ci = C[i - 1].ci
    /\ \A i \in 2 .. Len(C) : C[i].kind # "handler" =>
           C[i - 1].kind = "pcall" \/ C[i - 1].n >= 1

\* What the CallInfos are: Lua functions, and C functions in between.
Filled(C, th) ==
    /\ \A i \in 1 .. Len(C) :
           /\ C[i].ci + C[i].n <= Len(th[C[i].th].ci)
           /\ \A k \in C[i].ci + 1 .. C[i].ci + C[i].n : th[C[i].th].ci[k] = "Lua"
    /\ \A i \in 2 .. Len(C) :
           C[i].kind # "resume" /\ C[i].ci = C[i - 1].ci + C[i - 1].n + 1 =>
               th[C[i].th].ci[C[i].ci] = "C"

\* The last activation a of thread T, the m-th of all, and what T is in now.
AtTop(a, T, count) ==
    /\ T.nCcalls = count
    /\ Len(T.ci) <= a.ci + a.n + 1
    /\ Len(T.ci) = a.ci + a.n + 1 => T.ci[a.ci + a.n + 1] = "C"

\* The threads on the C stack; all but the one that runs are in the C function
\* that resumed the next.
Waiting(C, th, host) ==
    /\ \A i \in 1 .. Len(C) :
           /\ th[C[i].th].status = "ok"
           /\ th[C[i].th].errorJmp # 0
           /\ C[i].th # C[Len(C)].th => Len(th[C[i].th].ci) > 1
    /\ \A i \in 1 .. Len(C) : IsTop(C, i) =>
           /\ AtTop(C[i], th[C[i].th], host + Count(C, i))
           /\ i < Len(C) => Len(th[C[i].th].ci) = C[i].ci + C[i].n + 1
    /\ \A i \in 1 .. Len(C) : C[i].kind = "resume" =>
           th[C[i].th].baseCcalls = host + Count(C, i)

\* A thread: where its errors go, what it waits in, and the size of its stack.
Well(C, T) ==
    /\ T.errfunc = (T.errorJmp # 0 /\ C[T.errorJmp].handler)
    /\ T.status = "YIELD" =>
           Len(T.ci) > 2 /\ \A k \in 2 .. Len(T.ci) - 1 : T.ci[k] = "Lua"
    /\ Len(T.ci) >= 1
    /\ Len(T.ci) <= T.size
    /\ T.size <= 2 * MAXCALLS
    /\ T.nCcalls <= ERRCCALLS

\* The threads; the one that runs may have overflowed the C stack twice.
Threading(C, th, raise) ==
    /\ th[Main].baseCcalls = 0
    /\ \A x \in Threads : Innermost(C, Len(C), x, th[x].errorJmp)
    /\ \A x \in Threads : Well(C, th[x])
    /\ \A x \in Threads : th[x].nCcalls = ERRCCALLS =>
           raise = "ERRERR" /\ C # << >> /\ x = C[Len(C)].th

\* What holds within a step, too.
Weak(C, th, raise, host) ==
    /\ C \in Seq(Activations)
    /\ th \in [Threads -> Thread]
    /\ Chained(C)
    /\ Saved(C, host)
    /\ Divided(C)
    /\ Filled(C, th)
    /\ Waiting(C, th, host)
    /\ Threading(C, th, raise)

\* The function that runs is a Lua function of the last activation.
Exact(S) ==
    LET a == Last(S.C)
    IN  Len(L(S).ci) = a.ci + a.n /\ a.n >= 1

\* luaD_pcall does nothing but call.
Protects(C) == \A i \in 1 .. Len(C) : C[i].kind = "pcall" => i < Len(C) /\ C[i + 1].kind = "execute"

Inv(S, host) ==
    /\ S \in State
    /\ Weak(S.C, S.th, S.raise, host)
    /\ Protects(S.C)
    /\ S.C # << >> /\ S.raise = "no" => Exact(S)
    /\ S.raise # "no" => S.C # << >>

IInv ==
    /\ prog \in Programs
    /\ Inv(s, prog.host)

-----------------------------------------------------------------------------
(* Counting *)

LEMMA CountProperties ==
    ASSUME NEW C \in Seq(Activations), NEW m \in 0 .. Len(C)
    PROVE  /\ Count(C, m) \in Nat
           /\ Count(C, 0) = 0
           /\ m < Len(C) =>
                  Count(C, m + 1) = Count(C, m) + (IF C[m + 1].kind = "pcall" THEN 0 ELSE 1)
  <1> DEFINE counted(k) == {j \in 1 .. k : C[j].kind # "pcall"}
  <1>1. Len(C) \in Nat /\ m \in Nat
    OBVIOUS
  <1>2. ASSUME NEW k \in Nat
        PROVE  IsFiniteSet(counted(k)) /\ Cardinality(counted(k)) \in Nat
    <2>1. IsFiniteSet(1 .. k)
      BY FS_Interval
    <2>2. counted(k) \subseteq 1 .. k
      OBVIOUS
    <2> QED
      BY <2>1, <2>2, FS_Subset, FS_CardinalityType
  <1>3. counted(0) = {}
    OBVIOUS
  <1>4. m < Len(C) =>
            Count(C, m + 1) = Count(C, m) + (IF C[m + 1].kind = "pcall" THEN 0 ELSE 1)
    <2> SUFFICES ASSUME m < Len(C)
                 PROVE  Cardinality(counted(m + 1)) =
                            Cardinality(counted(m)) + (IF C[m + 1].kind = "pcall" THEN 0 ELSE 1)
      BY DEF Count
    <2>1. CASE C[m + 1].kind = "pcall"
      <3>1. counted(m + 1) = counted(m)
        BY <1>1, <2>1
      <3>2. Cardinality(counted(m)) \in Nat
        BY <1>1, <1>2
      <3> HIDE DEF counted
      <3> QED
        BY <2>1, <3>1, <3>2
    <2>2. CASE C[m + 1].kind # "pcall"
      <3>1. counted(m + 1) = counted(m) \cup {m + 1} /\ m + 1 \notin counted(m)
        BY <1>1, <2>2
      <3>2. IsFiniteSet(counted(m))
        BY <1>1, <1>2
      <3> HIDE DEF counted
      <3>3. Cardinality(counted(m) \cup {m + 1}) = Cardinality(counted(m)) + 1
        BY <3>1, <3>2, FS_AddElement
      <3> QED
        BY <2>2, <3>1, <3>3
    <2> QED
      BY <2>1, <2>2
  <1> QED
    BY <1>1, <1>2, <1>3, <1>4, FS_EmptySet DEF Count

\* Only the kinds of the activations are counted.
LEMMA CountSame ==
    ASSUME NEW C, NEW D, NEW m, \A i \in 1 .. m : C[i].kind = D[i].kind
    PROVE  Count(C, m) = Count(D, m)
  <1>1. {j \in 1 .. m : C[j].kind # "pcall"} = {j \in 1 .. m : D[j].kind # "pcall"}
    OBVIOUS
  <1> QED
    BY <1>1 DEF Count

\* An innermost activation is the only one.
LEMMA InnermostUnique ==
    ASSUME NEW C, NEW m \in Nat, NEW x, NEW i, NEW j,
           Innermost(C, m, x, i), Innermost(C, m, x, j)
    PROVE  i = j
  BY DEF Innermost

LEMMA InnermostSame ==
    ASSUME NEW C, NEW D, NEW m \in Nat, NEW x, NEW j, Innermost(C, m, x, j),
           \A i \in 1 .. m : C[i].kind = D[i].kind /\ C[i].th = D[i].th
    PROVE  Innermost(D, m, x, j)
  BY DEF Innermost, Catches

\* The activations from one of the running thread on are all its own.
LEMMA AllRunning ==
    ASSUME NEW C \in Seq(Activations), Chained(C), NEW j \in 1 .. Len(C), C[j].th = C[Len(C)].th
    PROVE  \A i \in j .. Len(C) : C[i].th = C[j].th
  <1>1. Len(C) \in Nat /\ Len(C) \in 1 .. Len(C)
    OBVIOUS
  <1> QED
    BY <1>1 DEF Chained

LEMMA ActivationTypes ==
    ASSUME NEW C \in Seq(Activations), NEW i \in 1 .. Len(C)
    PROVE  /\ C[i].kind \in Kinds /\ C[i].th \in Threads /\ C[i].n \in Nat
           /\ C[i].handler \in BOOLEAN /\ C[i].wrap \in BOOLEAN /\ C[i].ci \in Nat
           /\ C[i].previous \in Nat /\ C[i].nCcalls \in Nat /\ C[i].errfunc \in BOOLEAN
  <1>1. C[i] \in Activations
    OBVIOUS
  <1> QED
    BY <1>1 DEF Activations

LEMMA ThreadTypes ==
    ASSUME NEW th \in [Threads -> Thread], NEW x \in Threads
    PROVE  /\ th[x].ci \in Seq(Frames) /\ Len(th[x].ci) \in Nat /\ th[x].size \in Nat
           /\ th[x].nCcalls \in Nat /\ th[x].baseCcalls \in Nat /\ th[x].errorJmp \in Nat
           /\ th[x].errfunc \in BOOLEAN /\ th[x].body \in BOOLEAN /\ th[x].status \in Statuses
  <1>1. th[x] \in Thread
    OBVIOUS
  <1> QED
    BY <1>1 DEF Thread

-----------------------------------------------------------------------------
(* Less of the C stack *)

Alike(a, b) ==
    /\ a.kind = b.kind /\ a.th = b.th /\ a.ci = b.ci /\ a.handler = b.handler
    /\ a.previous = b.previous /\ a.nCcalls = b.nCcalls /\ a.errfunc = b.errfunc

\* D is the bottom of C, except for the Lua functions of its last activation.
Bottom(C, D) ==
    /\ Len(D) <= Len(C)
    /\ \A i \in 1 .. Len(D) : Alike(D[i], C[i])
    /\ \A i \in 1 .. Len(D) - 1 : D[i].n = C[i].n
    /\ \A i \in 1 .. Len(D) : D[i].kind = "pcall" => D[i].n = 0

LEMMA BottomCounts ==
    ASSUME NEW C \in Seq(Activations), NEW D \in Seq(Activations), Bottom(C, D)
    PROVE  /\ \A k \in 0 .. Len(D) : Count(D, k) = Count(C, k)
           /\ \A k \in 0 .. Len(D) : \A y, j : Innermost(D, k, y, j) <=> Innermost(C, k, y, j)
  <1>1. Len(D) \in Nat /\ Len(C) \in Nat
    OBVIOUS
  <1>2. ASSUME NEW k \in 0 .. Len(D)
        PROVE  Count(D, k) = Count(C, k)
    <2>1. \A i \in 1 .. k : i \in 1 .. Len(D)
      BY <1>1
    <2>2. \A i \in 1 .. k : D[i].kind = C[i].kind
      BY <2>1 DEF Bottom, Alike
    <2> QED
      BY <2>2, CountSame
  <1>3. ASSUME NEW k \in 0 .. Len(D), NEW y, NEW j
        PROVE  Innermost(D, k, y, j) <=> Innermost(C, k, y, j)
    <2>1. k \in Nat /\ \A i \in 1 .. k : i \in 1 .. Len(D)
      BY <1>1
    <2>2. \A i \in 1 .. k : D[i].kind = C[i].kind /\ D[i].th = C[i].th
      BY <2>1 DEF Bottom, Alike
    <2>3. \A i \in 1 .. k : C[i].kind = D[i].kind /\ C[i].th = D[i].th
      BY <2>2
    <2> QED
      BY <2>1, <2>2, <2>3, InnermostSame
  <1> QED
    BY <1>2, <1>3

LEMMA BottomChained ==
    ASSUME NEW C \in Seq(Activations), NEW D \in Seq(Activations), Bottom(C, D), Chained(C)
    PROVE  Chained(D)
  <1>1. Len(D) \in Nat /\ Len(C) \in Nat /\ Len(D) <= Len(C)
    BY DEF Bottom
  <1>2. \A i \in 1 .. Len(D) : i \in 1 .. Len(C) /\ D[i].kind = C[i].kind /\ D[i].th = C[i].th
    BY <1>1 DEF Bottom, Alike
  <1>3. D # << >> => D[1].kind = "pcall" /\ D[1].th = Main
    <2> SUFFICES ASSUME D # << >>
                 PROVE  D[1].kind = "pcall" /\ D[1].th = Main
      OBVIOUS
    <2>1. 1 \in 1 .. Len(D) /\ C # << >>
      BY <1>1
    <2> QED
      BY <1>2, <2>1 DEF Chained
  <1>4. ASSUME NEW i \in 2 .. Len(D)
        PROVE  /\ D[i].kind = "resume" => \A j \in 1 .. i - 1 : D[j].th # D[i].th
               /\ D[i].kind # "resume" => D[i].th = D[i - 1].th
    <2>1. i \in 1 .. Len(D) /\ i - 1 \in 1 .. Len(D) /\ i \in 2 .. Len(C)
          /\ \A j \in 1 .. i - 1 : j \in 1 .. Len(D)
      BY <1>1
    <2>2. /\ C[i].kind = "resume" => \A j \in 1 .. i - 1 : C[j].th # C[i].th
          /\ C[i].kind # "resume" => C[i].th = C[i - 1].th
      BY <2>1 DEF Chained
    <2> QED
      BY <1>2, <2>1, <2>2
  <1>5. ASSUME NEW i \in 1 .. Len(D), NEW m \in 1 .. Len(D), D[i].th = D[m].th,
               NEW k \in i .. m
        PROVE  D[k].th = D[i].th
    <2>1. k \in 1 .. Len(D)
      BY <1>1
    <2> QED
      BY <1>2, <1>5, <2>1 DEF Chained
  <1>6. Resumed(D)
    <2> SUFFICES ASSUME NEW i \in 1 .. Len(D), D[i].th # Main
                 PROVE  \E r \in 1 .. i : D[r].th = D[i].th /\ D[r].kind = "resume"
      BY DEF Resumed
    <2>1. i \in 1 .. Len(C) /\ C[i].th # Main
      BY <1>2
    <2>2. PICK r \in 1 .. i : C[r].th = C[i].th /\ C[r].kind = "resume"
      BY <2>1 DEF Chained, Resumed
    <2>3. r \in 1 .. Len(D)
      BY <1>1
    <2> QED
      BY <1>2, <2>2, <2>3
  <1> QED
    BY <1>3, <1>4, <1>5, <1>6 DEF Chained

LEMMA BottomSaved ==
    ASSUME NEW C \in Seq(Activations), NEW D \in Seq(Activations), NEW host \in Nat,
           Bottom(C, D), Saved(C, host)
    PROVE  Saved(D, host)
  <1>1. Len(D) \in Nat /\ Len(C) \in Nat /\ Len(D) <= Len(C)
    BY DEF Bottom
  <1> SUFFICES ASSUME NEW i \in 1 .. Len(D)
               PROVE  /\ D[i].nCcalls = host + Count(D, i - 1)
                      /\ D[i].nCcalls < ERRCCALLS
                      /\ Innermost(D, i - 1, D[i].th, D[i].previous)
                      /\ D[i].errfunc = (D[i].previous # 0 /\ D[D[i].previous].handler)
                      /\ i > 1 /\ D[i].kind # "resume" => D[i].previous # 0
                      /\ D[i].handler => D[i].kind = "pcall"
    BY DEF Saved
  <1>2. i \in 1 .. Len(C) /\ i - 1 \in 0 .. Len(D)
    BY <1>1
  <1>3. /\ C[i].nCcalls = host + Count(C, i - 1)
        /\ C[i].nCcalls < ERRCCALLS
        /\ Innermost(C, i - 1, C[i].th, C[i].previous)
        /\ C[i].errfunc = (C[i].previous # 0 /\ C[C[i].previous].handler)
        /\ i > 1 /\ C[i].kind # "resume" => C[i].previous # 0
        /\ C[i].handler => C[i].kind = "pcall"
    BY <1>2 DEF Saved
  <1>4. Alike(D[i], C[i])
    BY DEF Bottom
  <1>5. C[i].previous # 0 => D[C[i].previous].handler = C[C[i].previous].handler
    <2> SUFFICES ASSUME C[i].previous # 0
                 PROVE  D[C[i].previous].handler = C[C[i].previous].handler
      OBVIOUS
    <2>1. C[i].previous \in 0 .. i - 1
      BY <1>3 DEF Innermost
    <2>2. C[i].previous \in 1 .. Len(D)
      BY <1>1, <2>1
    <2> QED
      BY <2>2 DEF Bottom, Alike
  <1>6. Count(D, i - 1) = Count(C, i - 1)
        /\ (Innermost(D, i - 1, C[i].th, C[i].previous) <=> Innermost(C, i - 1, C[i].th, C[i].previous))
    BY <1>2, BottomCounts
  <1> QED
    BY <1>3, <1>4, <1>5, <1>6 DEF Alike

LEMMA BottomDivided ==
    ASSUME NEW C \in Seq(Activations), NEW D \in Seq(Activations), Bottom(C, D), Divided(C)
    PROVE  Divided(D)
  <1>1. Len(D) \in Nat /\ Len(C) \in Nat /\ Len(D) <= Len(C)
    BY DEF Bottom
  <1>2. \A i \in 1 .. Len(D) : /\ i \in 1 .. Len(C) /\ D[i].kind = C[i].kind
                               /\ D[i].th = C[i].th /\ D[i].ci = C[i].ci
    BY <1>1 DEF Bottom, Alike
  <1>3. \A i \in 1 .. Len(D) - 1 : D[i].n = C[i].n
    BY DEF Bottom
  <1>4. ASSUME NEW i \in 1 .. Len(D)
        PROVE  /\ D[i].ci >= 1
               /\ i = 1 \/ D[i].kind = "resume" => D[i].ci = 1
               /\ D[i].kind = "pcall" => D[i].n = 0
    BY <1>2 DEF Divided, Bottom
  <1>5. ASSUME NEW i \in 1 .. Len(D), NEW m \in 1 .. Len(D), i < m, D[i].th = D[m].th
        PROVE  D[i].ci + D[i].n <= D[m].ci
    <2>1. i \in 1 .. Len(D) - 1
      BY <1>1, <1>5
    <2> QED
      BY <1>2, <1>3, <1>5, <2>1 DEF Divided
  <1>6. ASSUME NEW i \in 2 .. Len(D)
        PROVE  /\ D[i].kind # "resume" => D[i].ci <= D[i - 1].ci + D[i - 1].n + 1
               /\ D[i].kind = "pcall" => D[i].ci = D[i - 1].ci + D[i - 1].n + 1
               /\ D[i - 1].kind = "pcall" => D[i].ci = D[i - 1].ci
               /\ D[i].kind # "handler" => D[i - 1].kind = "pcall" \/ D[i - 1].n >= 1
    <2>1. i \in 1 .. Len(D) /\ i - 1 \in 1 .. Len(D) /\ i - 1 \in 1 .. Len(D) - 1 /\ i \in 2 .. Len(C)
      BY <1>1
    <2>2. /\ C[i].kind # "resume" => C[i].ci <= C[i - 1].ci + C[i - 1].n + 1
          /\ C[i].kind = "pcall" => C[i].ci = C[i - 1].ci + C[i - 1].n + 1
          /\ C[i - 1].kind = "pcall" => C[i].ci = C[i - 1].ci
          /\ C[i].kind # "handler" => C[i - 1].kind = "pcall" \/ C[i - 1].n >= 1
      BY <2>1 DEF Divided
    <2> QED
      BY <1>2, <1>3, <2>1, <2>2
  <1> QED
    BY <1>4, <1>5, <1>6 DEF Divided

\* The activations above D are of the running thread, which alone changes.
Ends(C, D) == \A i \in 1 .. Len(C) : i > Len(D) => C[i].th = C[Len(C)].th
Only(th, u, x) == \A y \in Threads : y # x => u[y] = th[y]

\* The threads below the one of the last activation.
Kept(D, th, u) ==
    \A i \in 1 .. Len(D) : D[i].th # D[Len(D)].th =>
        u[D[i].th] = th[D[i].th] /\ Len(th[D[i].th].ci) > 1

\* The thread of the last activation, which is left as it was when that began
\* to call, but for what it runs.
Back(D, th, u, host) ==
    LET a == D[Len(D)]
        T == u[a.th]
    IN  /\ T.status = "ok"
        /\ T.errorJmp # 0
        /\ T.baseCcalls = th[a.th].baseCcalls
        /\ \A k \in 1 .. a.ci : T.ci[k] = th[a.th].ci[k]
        /\ \A k \in a.ci + 1 .. a.ci + a.n : T.ci[k] = "Lua"
        /\ a.ci + a.n <= Len(T.ci)
        /\ AtTop(a, T, host + Count(D, Len(D)))

LEMMA BottomLen ==
    ASSUME NEW C \in Seq(Activations), NEW D \in Seq(Activations), Bottom(C, D)
    PROVE  /\ Len(D) \in Nat /\ Len(C) \in Nat /\ Len(D) <= Len(C)
           /\ \A i \in 1 .. Len(D) : /\ i \in 1 .. Len(C) /\ D[i].kind = C[i].kind
                                     /\ D[i].th = C[i].th /\ D[i].ci = C[i].ci
           /\ \A i \in 1 .. Len(D) - 1 : D[i].n = C[i].n
           /\ D # << >> => Len(D) \in 1 .. Len(D)
           /\ D # << >> => Len(C) \in 1 .. Len(C)
  <1>1. Len(D) \in Nat /\ Len(C) \in Nat /\ Len(D) <= Len(C)
    BY DEF Bottom
  <1> QED
    BY <1>1 DEF Bottom, Alike

LEMMA BottomKept ==
    ASSUME NEW C \in Seq(Activations), NEW D \in Seq(Activations), Bottom(C, D), D # << >>,
           NEW th, NEW u, NEW host, Chained(C), Waiting(C, th, host),
           Ends(C, D), Only(th, u, C[Len(C)].th)
    PROVE  Kept(D, th, u)
  <1> SUFFICES ASSUME NEW i \in 1 .. Len(D), D[i].th # D[Len(D)].th
               PROVE  u[D[i].th] = th[D[i].th] /\ Len(th[D[i].th].ci) > 1
    BY DEF Kept
  <1>1. /\ Len(D) \in Nat /\ Len(C) \in Nat /\ Len(D) <= Len(C)
        /\ Len(D) \in 1 .. Len(D) /\ Len(C) \in 1 .. Len(C)
        /\ i \in 1 .. Len(C) /\ Len(D) \in 1 .. Len(C)
        /\ D[i].th = C[i].th /\ D[Len(D)].th = C[Len(D)].th
    BY BottomLen
  <1>2. C[i].th # C[Len(C)].th
    <2>1. Len(D) \in i .. Len(C)
      BY <1>1
    <2>2. C[i].th = C[Len(C)].th => C[Len(D)].th = C[i].th
      BY <1>1, <2>1 DEF Chained
    <2> QED
      BY <1>1, <2>2
  <1>3. C[i].th \in Threads
    BY <1>1, ActivationTypes
  <1> QED
    BY <1>1, <1>2, <1>3 DEF Waiting, Only

LEMMA BottomFilled ==
    ASSUME NEW C \in Seq(Activations), NEW D \in Seq(Activations), Bottom(C, D), D # << >>,
           NEW th \in [Threads -> Thread], NEW u \in [Threads -> Thread], NEW host \in Nat,
           Divided(C), Filled(C, th), Kept(D, th, u), Back(D, th, u, host)
    PROVE  Filled(D, u)
  <1> DEFINE a == D[Len(D)]
             x == a.th
  <1>1. /\ Len(D) \in Nat /\ Len(C) \in Nat /\ Len(D) <= Len(C) /\ Len(D) \in 1 .. Len(D)
        /\ \A i \in 1 .. Len(D) - 1 : D[i].n = C[i].n
        /\ \A i \in 1 .. Len(D) : /\ i \in 1 .. Len(C) /\ D[i].kind = C[i].kind
                                  /\ D[i].th = C[i].th /\ D[i].ci = C[i].ci
    BY BottomLen
  <1>2. /\ \A k \in 1 .. a.ci : u[x].ci[k] = th[x].ci[k]
        /\ \A k \in a.ci + 1 .. a.ci + a.n : u[x].ci[k] = "Lua"
        /\ a.ci + a.n <= Len(u[x].ci)
    BY DEF Back
  <1>3. Divided(D)
    BY BottomDivided
  <1>4. a.ci \in Nat /\ a.n \in Nat /\ x \in Threads /\ Len(u[x].ci) \in Nat
    BY <1>1, ActivationTypes, ThreadTypes
  <1> HIDE DEF a, x
  <1>5. ASSUME NEW i \in 1 .. Len(D), i < Len(D)
        PROVE  /\ D[i].ci + D[i].n <= Len(u[D[i].th].ci)
               /\ \A k \in D[i].ci + 1 .. D[i].ci + D[i].n : u[D[i].th].ci[k] = "Lua"
    <2>1. /\ i \in 1 .. Len(D) - 1 /\ i \in 1 .. Len(C)
          /\ D[i].ci \in Nat /\ D[i].n \in Nat
      BY <1>1, <1>5, ActivationTypes
    <2>2. D[i].ci = C[i].ci /\ D[i].n = C[i].n /\ D[i].th = C[i].th
      BY <1>1, <2>1
    <2>3. /\ D[i].ci + D[i].n <= Len(th[D[i].th].ci)
          /\ \A k \in D[i].ci + 1 .. D[i].ci + D[i].n : th[D[i].th].ci[k] = "Lua"
      BY <2>1, <2>2 DEF Filled
    <2>4. CASE D[i].th # x
      BY <2>3, <2>4 DEF Kept, x, a
    <2>5. CASE D[i].th = x
      <3>1. D[i].ci + D[i].n <= a.ci
        BY <1>1, <1>3, <1>5, <2>5 DEF Divided, x, a
      <3>2. \A k \in D[i].ci + 1 .. D[i].ci + D[i].n : k \in 1 .. a.ci
        BY <1>4, <2>1, <3>1
      <3>3. D[i].ci + D[i].n <= Len(u[x].ci)
        BY <1>2, <1>4, <2>1, <3>1
      <3> QED
        BY <1>2, <2>3, <2>5, <3>2, <3>3
    <2> QED
      BY <2>4, <2>5
  <1>6. ASSUME NEW i \in 1 .. Len(D)
        PROVE  /\ D[i].ci + D[i].n <= Len(u[D[i].th].ci)
               /\ \A k \in D[i].ci + 1 .. D[i].ci + D[i].n : u[D[i].th].ci[k] = "Lua"
    <2>1. CASE i = Len(D)
      BY <1>2, <2>1 DEF x, a
    <2>2. CASE i < Len(D)
      BY <1>5, <2>2
    <2> QED
      BY <1>1, <2>1, <2>2
  <1>7. ASSUME NEW i \in 2 .. Len(D), D[i].kind # "resume",
               D[i].ci = D[i - 1].ci + D[i - 1].n + 1
        PROVE  u[D[i].th].ci[D[i].ci] = "C"
    <2>1. /\ i \in 1 .. Len(D) /\ i - 1 \in 1 .. Len(D) /\ i - 1 \in 1 .. Len(D) - 1
          /\ i \in 2 .. Len(C)
      BY <1>1
    <2>2. C[i].kind # "resume" /\ C[i].ci = C[i - 1].ci + C[i - 1].n + 1
      BY <1>1, <1>7, <2>1
    <2>3. th[D[i].th].ci[D[i].ci] = "C"
      BY <1>1, <2>1, <2>2 DEF Filled
    <2>4. CASE D[i].th # x
      BY <2>1, <2>3, <2>4 DEF Kept, x, a
    <2>5. CASE D[i].th = x
      <3>1. D[i].ci \in Nat /\ D[i].n \in Nat /\ D[i].ci >= 1
        BY <1>3, <2>1, ActivationTypes DEF Divided
      <3>2. i < Len(D) => D[i].ci + D[i].n <= a.ci
        BY <1>1, <1>3, <2>1, <2>5 DEF Divided, x, a
      <3>3. D[i].ci \in 1 .. a.ci
        BY <1>1, <1>4, <3>1, <3>2 DEF a
      <3> QED
        BY <1>2, <2>3, <2>5, <3>3
    <2> QED
      BY <2>4, <2>5
  <1> QED
    BY <1>6, <1>7 DEF Filled

LEMMA BottomWaiting ==
    ASSUME NEW C \in Seq(Activations), NEW D \in Seq(Activations), Bottom(C, D), D # << >>,
           NEW th \in [Threads -> Thread], NEW u \in [Threads -> Thread], NEW host \in Nat,
           Chained(C), Waiting(C, th, host), Kept(D, th, u), Back(D, th, u, host)
    PROVE  Waiting(D, u, host)
  <1> DEFINE x == D[Len(D)].th
  <1>1. /\ Len(D) \in Nat /\ Len(C) \in Nat /\ Len(D) <= Len(C) /\ Len(D) \in 1 .. Len(D)
        /\ \A i \in 1 .. Len(D) - 1 : D[i].n = C[i].n
        /\ \A i \in 1 .. Len(D) : /\ i \in 1 .. Len(C) /\ D[i].kind = C[i].kind
                                  /\ D[i].th = C[i].th /\ D[i].ci = C[i].ci
    BY BottomLen
  <1>2. \A k \in 1 .. Len(D) : Count(D, k) = Count(C, k)
    <2>1. \A k \in 1 .. Len(D) : k \in 0 .. Len(D)
      BY <1>1
    <2> QED
      BY <2>1, BottomCounts
  <1>3. Chained(D)
    BY BottomChained
  <1> HIDE DEF x
  <1>4. ASSUME NEW i \in 1 .. Len(D)
        PROVE  /\ u[D[i].th].status = "ok"
               /\ u[D[i].th].errorJmp # 0
               /\ D[i].th # D[Len(D)].th => Len(u[D[i].th].ci) > 1
               /\ D[i].kind = "resume" => u[D[i].th].baseCcalls = host + Count(D, i)
    <2>1. /\ th[D[i].th].status = "ok"
          /\ th[D[i].th].errorJmp # 0
          /\ D[i].kind = "resume" => th[D[i].th].baseCcalls = host + Count(D, i)
      BY <1>1, <1>2 DEF Waiting
    <2>2. CASE D[i].th = x
      <3>1. u[x].status = "ok" /\ u[x].errorJmp # 0 /\ u[x].baseCcalls = th[x].baseCcalls
        BY DEF Back, x
      <3> QED
        BY <2>1, <2>2, <3>1 DEF x
    <2>3. CASE D[i].th # x
      <3>1. u[D[i].th] = th[D[i].th] /\ Len(th[D[i].th].ci) > 1
        BY <2>3 DEF Kept, x
      <3> QED
        BY <2>1, <3>1
    <2> QED
      BY <2>2, <2>3
  <1>5. ASSUME NEW i \in 1 .. Len(D), IsTop(D, i)
        PROVE  /\ AtTop(D[i], u[D[i].th], host + Count(D, i))
               /\ i < Len(D) => Len(u[D[i].th].ci) = D[i].ci + D[i].n + 1
    <2>1. CASE i = Len(D)
      BY <1>1, <2>1 DEF Back
    <2>2. CASE i # Len(D)
      <3>1. /\ i < Len(D) /\ i \in 1 .. Len(D) - 1 /\ i + 1 \in 2 .. Len(D) /\ i + 1 \in 1 .. Len(D)
            /\ D[i + 1].kind = "resume" /\ i \in 1 .. (i + 1) - 1 /\ i < Len(C) /\ i + 1 \in i .. Len(D)
        BY <1>1, <1>5, <2>2 DEF IsTop
      <3>2. D[i].th # x
        <4>1. D[i].th # D[i + 1].th
          BY <1>3, <3>1 DEF Chained
        <4>2. D[i].th = D[Len(D)].th => D[i + 1].th = D[i].th
          BY <1>1, <1>3, <3>1 DEF Chained
        <4> QED
          BY <4>1, <4>2 DEF x
      <3>3. IsTop(C, i)
        BY <1>1, <3>1 DEF IsTop
      <3>4. /\ AtTop(C[i], th[C[i].th], host + Count(C, i))
            /\ Len(th[C[i].th].ci) = C[i].ci + C[i].n + 1
        BY <1>1, <3>1, <3>3 DEF Waiting
      <3>5. u[D[i].th] = th[C[i].th] /\ D[i].ci = C[i].ci /\ D[i].n = C[i].n
        BY <1>1, <3>1, <3>2 DEF Kept, x
      <3> QED
        BY <1>2, <3>4, <3>5 DEF AtTop
    <2> QED
      BY <2>1, <2>2
  <1> QED
    BY <1>4, <1>5 DEF Waiting

\* The thread x that has run: where its errors go now, and its limits.
Now(D, u, x, later) ==
    /\ Innermost(D, Len(D), x, u[x].errorJmp)
    /\ Well(D, u[x])
    /\ x = Main => u[x].baseCcalls = 0
    /\ u[x].nCcalls = ERRCCALLS => later = "ERRERR" /\ D # << >> /\ x = D[Len(D)].th

LEMMA BottomThreading ==
    ASSUME NEW C \in Seq(Activations), NEW D \in Seq(Activations), Bottom(C, D), C # << >>,
           NEW th \in [Threads -> Thread], NEW u \in [Threads -> Thread],
           NEW raise, NEW later, Threading(C, th, raise), Ends(C, D),
           Only(th, u, C[Len(C)].th), Now(D, u, C[Len(C)].th, later)
    PROVE  Threading(D, u, later)
  <1> DEFINE x == C[Len(C)].th
  <1>1. /\ Len(D) \in Nat /\ Len(C) \in Nat /\ Len(D) <= Len(C) /\ Len(D) \in 0 .. Len(D)
        /\ Len(C) \in 1 .. Len(C)
    BY BottomLen
  <1>2. Main \in Threads
    BY DEF Threads
  <1>3. u[Main].baseCcalls = 0
    BY <1>2 DEF Threading, Only, Now
  <1>4. ASSUME NEW y \in Threads, y # x
        PROVE  /\ Innermost(D, Len(D), y, u[y].errorJmp)
               /\ Well(D, u[y])
               /\ u[y].nCcalls # ERRCCALLS
    <2>1. /\ Innermost(C, Len(C), y, th[y].errorJmp)
          /\ Well(C, th[y])
          /\ th[y].nCcalls # ERRCCALLS
          /\ u[y] = th[y]
      BY <1>4 DEF Threading, Only
    <2>2. Innermost(C, Len(D), y, th[y].errorJmp)
      BY <1>1, <1>4, <2>1 DEF Innermost, Catches, Ends
    <2>3. Innermost(D, Len(D), y, th[y].errorJmp)
      BY <1>1, <2>2, BottomCounts
    <2>4. th[y].errorJmp # 0 => D[th[y].errorJmp].handler = C[th[y].errorJmp].handler
      <3> SUFFICES ASSUME th[y].errorJmp # 0
                   PROVE  D[th[y].errorJmp].handler = C[th[y].errorJmp].handler
        OBVIOUS
      <3>1. th[y].errorJmp \in 1 .. Len(D)
        BY <1>1, <2>2 DEF Innermost
      <3> QED
        BY <3>1 DEF Bottom, Alike
    <2>5. Well(D, th[y])
      BY <2>1, <2>4 DEF Well
    <2> QED
      BY <2>1, <2>3, <2>5
  <1> QED
    BY <1>3, <1>4 DEF Threading, Now

\* C falls to D, and the threads to u.
Falls(C, D, th, u, later, host) ==
    /\ Bottom(C, D)
    /\ Ends(C, D)
    /\ Only(th, u, C[Len(C)].th)
    /\ Now(D, u, C[Len(C)].th, later)
    /\ D # << >> => Back(D, th, u, host)

LEMMA FallsWeak ==
    ASSUME NEW C \in Seq(Activations), NEW D \in Seq(Activations), C # << >>,
           NEW th \in [Threads -> Thread], NEW u \in [Threads -> Thread],
           NEW raise, NEW later, NEW host \in Nat,
           Weak(C, th, raise, host), Falls(C, D, th, u, later, host)
    PROVE  Weak(D, u, later, host)
  <1>1. Chained(C) /\ Saved(C, host) /\ Divided(C) /\ Bottom(C, D)
    BY DEF Weak, Falls
  <1>2. Chained(D)
    BY <1>1, BottomChained
  <1>3. Saved(D, host)
    BY <1>1, BottomSaved
  <1>4. Divided(D)
    BY <1>1, BottomDivided
  <1>5. Threading(D, u, later)
    <2>1. /\ Threading(C, th, raise)
          /\ Ends(C, D)
          /\ Only(th, u, C[Len(C)].th)
          /\ Now(D, u, C[Len(C)].th, later)
      BY DEF Weak, Falls
    <2> QED
      BY <1>1, <2>1, BottomThreading
  <1>6. CASE D = << >>
    <2>1. Filled(D, u) /\ Waiting(D, u, host)
      <3>1. Len(D) = 0
        BY <1>6
      <3>2. 1 .. 0 = {} /\ 2 .. 0 = {}
        OBVIOUS
      <3> QED
        BY <3>1, <3>2 DEF Filled, Waiting
    <2> QED
      BY <1>2, <1>3, <1>4, <1>5, <2>1 DEF Weak
  <1>7. CASE D # << >>
    <2>1. /\ Back(D, th, u, host)
          /\ Filled(C, th)
          /\ Waiting(C, th, host)
          /\ Ends(C, D)
          /\ Only(th, u, C[Len(C)].th)
      BY <1>7 DEF Weak, Falls
    <2>2. Kept(D, th, u)
      BY <1>1, <1>7, <2>1, BottomKept
    <2>3. Filled(D, u)
      BY <1>1, <1>7, <2>1, <2>2, BottomFilled
    <2>4. Waiting(D, u, host)
      BY <1>1, <1>7, <2>1, <2>2, BottomWaiting
    <2> QED
      BY <1>2, <1>3, <1>4, <1>5, <2>3, <2>4 DEF Weak
  <1> QED
    BY <1>6, <1>7

\* The running thread T, whose last activation is a.
TopThread(C, th, host) ==
    LET m == Len(C)
        a == C[m]
        T == th[a.th]
    IN  /\ m \in Nat /\ m \in 1 .. m /\ a.th \in Threads
        /\ a.ci \in Nat /\ a.n \in Nat /\ a.ci >= 1 /\ a.kind \in Kinds
        /\ T \in Thread
        /\ T.status = "ok"
        /\ T.errorJmp \in 1 .. m /\ Innermost(C, m, a.th, T.errorJmp)
        /\ T.errfunc = C[T.errorJmp].handler
        /\ T.nCcalls = host + Count(C, m) /\ T.nCcalls \in Nat /\ T.nCcalls <= ERRCCALLS
        /\ T.ci \in Seq(Frames) /\ Len(T.ci) \in Nat /\ T.size \in Nat
        /\ a.ci + a.n <= Len(T.ci) /\ Len(T.ci) <= a.ci + a.n + 1
        /\ \A k \in a.ci + 1 .. a.ci + a.n : T.ci[k] = "Lua"
        /\ Len(T.ci) = a.ci + a.n + 1 => T.ci[a.ci + a.n + 1] = "C"
        /\ Len(T.ci) <= T.size /\ T.size <= 2 * MAXCALLS
        /\ a.th = Main => T.baseCcalls = 0

LEMMA WeakTop ==
    ASSUME NEW C, NEW th, NEW raise, NEW host \in Nat, Weak(C, th, raise, host), C # << >>
    PROVE  TopThread(C, th, host)
  <1> DEFINE m == Len(C)
             a == C[m]
             T == th[a.th]
  <1>1. C \in Seq(Activations) /\ th \in [Threads -> Thread]
    BY DEF Weak
  <1>2. m \in Nat /\ m \in 1 .. m
    BY <1>1
  <1>3. a.th \in Threads /\ a.ci \in Nat /\ a.n \in Nat /\ a.kind \in Kinds
    BY <1>1, <1>2, ActivationTypes
  <1>4. /\ T \in Thread /\ T.ci \in Seq(Frames) /\ Len(T.ci) \in Nat /\ T.size \in Nat
        /\ T.nCcalls \in Nat
    BY <1>1, <1>3, ThreadTypes
  <1>5. T.status = "ok" /\ T.errorJmp # 0
    BY <1>2 DEF Weak, Waiting
  <1>6. AtTop(a, T, host + Count(C, m))
    <2>1. IsTop(C, m)
      BY DEF IsTop
    <2> QED
      BY <1>2, <2>1 DEF Weak, Waiting
  <1>7. Innermost(C, m, a.th, T.errorJmp) /\ Well(C, T) /\ (a.th = Main => T.baseCcalls = 0)
    BY <1>3 DEF Weak, Threading
  <1>8. T.errorJmp \in 1 .. m
    BY <1>2, <1>5, <1>7 DEF Innermost
  <1>9. a.ci >= 1
    BY <1>2 DEF Weak, Divided
  <1>10. a.ci + a.n <= Len(T.ci) /\ \A k \in a.ci + 1 .. a.ci + a.n : T.ci[k] = "Lua"
    BY <1>2 DEF Weak, Filled
  <1>11. T.errfunc = C[T.errorJmp].handler
    <2>1. T.errfunc = (T.errorJmp # 0 /\ C[T.errorJmp].handler) /\ T.errfunc \in BOOLEAN
      BY <1>1, <1>3, <1>7, ThreadTypes DEF Well
    <2>2. C[T.errorJmp].handler \in BOOLEAN
      BY <1>1, <1>8, ActivationTypes
    <2> QED
      BY <1>5, <2>1, <2>2
  <1> HIDE DEF m, a, T
  <1>12. T.nCcalls = host + Count(C, m) /\ Len(T.ci) <= a.ci + a.n + 1
         /\ (Len(T.ci) = a.ci + a.n + 1 => T.ci[a.ci + a.n + 1] = "C")
    BY <1>6 DEF AtTop
  <1>13. Len(T.ci) <= T.size /\ T.size <= 2 * MAXCALLS /\ T.nCcalls <= ERRCCALLS
    BY <1>7 DEF Well
  <1> QED
    BY <1>2, <1>3, <1>4, <1>5, <1>7, <1>8, <1>9, <1>10, <1>11, <1>12, <1>13 DEF TopThread, m, a, T

\* The running thread goes from T to t, with the last activation a.
Same(t, T) ==
    /\ t.status = T.status
    /\ t.nCcalls = T.nCcalls
    /\ t.baseCcalls = T.baseCcalls
    /\ t.errorJmp = T.errorJmp
    /\ t.errfunc = T.errfunc
Runs(a, t, T) ==
    /\ \A k \in 1 .. a.ci : t.ci[k] = T.ci[k]
    /\ \A k \in a.ci + 1 .. a.ci + a.n : t.ci[k] = "Lua"
    /\ a.ci + a.n <= Len(t.ci)
    /\ Len(t.ci) <= a.ci + a.n + 1
    /\ Len(t.ci) = a.ci + a.n + 1 => t.ci[a.ci + a.n + 1] = "C"
    /\ Len(t.ci) <= t.size
    /\ t.size <= 2 * MAXCALLS

\* Its CallInfos change above those of the last activation, and how many of them
\* are the Lua functions of that.
LEMMA TopChanges ==
    ASSUME NEW C \in Seq(Activations), NEW D \in Seq(Activations), C # << >>,
           NEW th \in [Threads -> Thread], NEW t \in Thread,
           NEW raise, NEW later, NEW host \in Nat, Weak(C, th, raise, host),
           Len(D) = Len(C), Bottom(C, D), Same(t, th[C[Len(C)].th]),
           Runs(D[Len(D)], t, th[C[Len(C)].th]), t.nCcalls = ERRCCALLS => later = "ERRERR"
    PROVE  /\ [th EXCEPT ![C[Len(C)].th] = t] \in [Threads -> Thread]
           /\ Weak(D, [th EXCEPT ![C[Len(C)].th] = t], later, host)
  <1> DEFINE m == Len(C)
             x == C[m].th
             u == [th EXCEPT ![x] = t]
  <1>1. TopThread(C, th, host)
    BY WeakTop
  <1>2. m \in 1 .. m /\ m \in 0 .. m /\ x \in Threads /\ D # << >> /\ D[m].th = x
    BY <1>1 DEF TopThread, Bottom, Alike
  <1> HIDE DEF m, x
  <1>3. u \in [Threads -> Thread] /\ u[x] = t /\ Only(th, u, x)
    BY <1>2 DEF Only
  <1> HIDE DEF u
  <1>4. Ends(C, D)
    BY DEF Ends
  <1>5. Count(D, m) = Count(C, m)
        /\ \A j : Innermost(D, m, x, j) <=> Innermost(C, m, x, j)
    BY <1>2, BottomCounts DEF m
  <1>6. Now(D, u, x, later)
    <2>1. /\ th[x].status = "ok" /\ Innermost(C, m, x, th[x].errorJmp)
          /\ th[x].errorJmp \in 1 .. m /\ th[x].errfunc = C[th[x].errorJmp].handler
          /\ th[x].nCcalls <= ERRCCALLS
          /\ x = Main => th[x].baseCcalls = 0
      BY <1>1 DEF TopThread, m, x
    <2>2. t.errorJmp = th[x].errorJmp /\ t.errfunc = th[x].errfunc /\ t.nCcalls = th[x].nCcalls
          /\ t.baseCcalls = th[x].baseCcalls /\ t.status = "ok"
      BY <2>1 DEF Same, m, x
    <2>3. Innermost(D, m, x, t.errorJmp)
      BY <1>5, <2>1, <2>2
    <2>4. t.errfunc = D[t.errorJmp].handler
      BY <2>1, <2>2 DEF Bottom, Alike, m
    <2>5. Len(t.ci) >= 1 /\ Len(t.ci) <= t.size /\ t.size <= 2 * MAXCALLS
      <3>1. D[m].ci >= 1 /\ D[m].ci \in Nat /\ D[m].n \in Nat /\ Len(t.ci) \in Nat
        <4>1. D[m].ci \in Nat /\ D[m].n \in Nat
          BY <1>2, ActivationTypes DEF m
        <4>2. Len(t.ci) \in Nat
          BY DEF Thread
        <4>3. C[m].ci >= 1
          BY <1>1 DEF TopThread, m
        <4>4. D[m].ci = C[m].ci
          BY <1>2 DEF Bottom, Alike, m
        <4> QED
          BY <4>1, <4>2, <4>3, <4>4
      <3>2. D[m].ci + D[m].n <= Len(t.ci) /\ Len(t.ci) <= t.size /\ t.size <= 2 * MAXCALLS
        BY DEF Runs, m
      <3> QED
        BY <3>1, <3>2
    <2>6. t.errorJmp # 0
      BY <1>2, <2>1, <2>2
    <2>7. Well(D, t)
      <3>1. t.errfunc = (t.errorJmp # 0 /\ D[t.errorJmp].handler)
        <4>1. t.errfunc \in BOOLEAN
          BY DEF Thread
        <4> QED
          BY <2>4, <2>6, <4>1
      <3>2. t.nCcalls <= ERRCCALLS /\ t.status # "YIELD"
        BY <2>1, <2>2
      <3> QED
        BY <2>5, <3>1, <3>2 DEF Well
    <2> QED
      BY <1>2, <1>3, <2>1, <2>2, <2>3, <2>7 DEF Now, m
  <1>7. Back(D, th, u, host)
    <2>1. /\ th[x].status = "ok" /\ th[x].errorJmp \in 1 .. m
          /\ th[x].nCcalls = host + Count(C, m)
      BY <1>1 DEF TopThread, m, x
    <2>2. t.errorJmp # 0 /\ t.baseCcalls = th[x].baseCcalls /\ t.status = "ok"
          /\ t.nCcalls = host + Count(D, m)
      BY <1>2, <1>5, <2>1 DEF Same, m, x
    <2>3. Runs(D[m], t, th[x])
      BY DEF m, x
    <2> QED
      BY <1>2, <1>3, <2>2, <2>3 DEF Back, Runs, AtTop, m
  <1>8. Falls(C, D, th, u, later, host)
    BY <1>3, <1>4, <1>6, <1>7 DEF Falls, m, x
  <1>9. Weak(D, u, later, host)
    BY <1>3, <1>8, FallsWeak
  <1> QED
    BY <1>3, <1>9 DEF u, x, m

\* What the activation j of thread x has kept.
SavedAt(C, j, host) ==
    LET a == C[j]
    IN  /\ a \in Activations
        /\ a.ci \in Nat /\ a.n \in Nat /\ a.nCcalls \in Nat /\ a.ci >= 1
        /\ a.nCcalls = host + Count(C, j - 1)
        /\ a.nCcalls < ERRCCALLS
        /\ Innermost(C, j - 1, a.th, a.previous)
        /\ a.errfunc = (a.previous # 0 /\ C[a.previous].handler)
        /\ j > 1 /\ a.kind # "resume" => a.previous # 0

LEMMA CutBottom ==
    ASSUME NEW C \in Seq(Activations), NEW host \in Nat, Saved(C, host), Divided(C),
           NEW j \in 1 .. Len(C)
    PROVE  /\ SubSeq(C, 1, j - 1) \in Seq(Activations)
           /\ Len(SubSeq(C, 1, j - 1)) = j - 1
           /\ \A i \in 1 .. j - 1 : SubSeq(C, 1, j - 1)[i] = C[i]
           /\ Bottom(C, SubSeq(C, 1, j - 1))
           /\ SavedAt(C, j, host)
  <1> DEFINE D == SubSeq(C, 1, j - 1)
  <1>1. Len(C) \in Nat /\ j - 1 \in 0 .. Len(C) /\ \A i \in 1 .. j - 1 : i \in 1 .. Len(C)
    OBVIOUS
  <1>2. /\ D \in Seq(Activations)
        /\ Len(D) = j - 1
        /\ \A i \in 1 .. j - 1 : D[i] = C[i]
    <2>1. \A i \in 1 .. j - 1 : C[i] \in Activations
      BY <1>1
    <2>2. 1 \in Int /\ j - 1 \in Int
      BY <1>1
    <2>3. /\ D \in Seq(Activations)
          /\ Len(D) = IF 1 <= j - 1 THEN (j - 1) - 1 + 1 ELSE 0
          /\ \A i \in 1 .. (j - 1) - 1 + 1 : D[i] = C[1 + i - 1]
      BY <2>1, <2>2, SubSeqProperties
    <2> HIDE DEF D
    <2> QED
      BY <1>1, <2>3
  <1> HIDE DEF D
  <1>3. Bottom(C, D)
    <2>1. \A i \in 1 .. Len(D) : i \in 1 .. Len(C) /\ D[i] = C[i]
      BY <1>1, <1>2
    <2>2. \A i \in 1 .. Len(D) - 1 : i \in 1 .. Len(D)
      BY <1>1, <1>2
    <2>3. \A i \in 1 .. Len(C) : C[i].kind = "pcall" => C[i].n = 0
      BY DEF Divided
    <2> QED
      BY <1>1, <1>2, <2>1, <2>2, <2>3 DEF Bottom, Alike
  <1>4. SavedAt(C, j, host)
    <2>1. C[j] \in Activations
      OBVIOUS
    <2> QED
      BY <2>1, ActivationTypes DEF Saved, Divided, SavedAt
  <1> QED
    BY <1>2, <1>3, <1>4 DEF D

\* The running thread goes from T to t: it is what it was when a began.
Restored(a, t, T) ==
    /\ t.status = T.status
    /\ t.baseCcalls = T.baseCcalls
    /\ t.nCcalls = a.nCcalls
    /\ t.errorJmp = a.previous
    /\ t.errfunc = a.errfunc
    /\ Len(t.ci) = a.ci
    /\ \A k \in 1 .. a.ci : t.ci[k] = T.ci[k]
    /\ Len(t.ci) <= t.size
    /\ t.size <= 2 * MAXCALLS

\* The activations from j on end.
LEMMA Unwinds ==
    ASSUME NEW C \in Seq(Activations), C # << >>,
           NEW th \in [Threads -> Thread], NEW t \in Thread,
           NEW raise, NEW later, NEW host \in Nat, Weak(C, th, raise, host),
           NEW j \in 1 .. Len(C), C[j].th = C[Len(C)].th, C[j].kind # "resume",
           Restored(C[j], t, th[C[Len(C)].th])
    PROVE  /\ SubSeq(C, 1, j - 1) \in Seq(Activations)
           /\ [th EXCEPT ![C[Len(C)].th] = t] \in [Threads -> Thread]
           /\ Weak(SubSeq(C, 1, j - 1), [th EXCEPT ![C[Len(C)].th] = t], later, host)
  <1> DEFINE m == Len(C)
             x == C[m].th
             D == SubSeq(C, 1, j - 1)
             u == [th EXCEPT ![x] = t]
             a == C[j]
             b == C[j - 1]
  <1>1. TopThread(C, th, host)
    BY WeakTop
  <1>2. m \in Nat /\ m \in 1 .. m /\ x \in Threads /\ j \in Nat /\ j - 1 \in Nat
    BY <1>1 DEF TopThread
  <1> HIDE DEF m, x
  <1>3. u \in [Threads -> Thread] /\ u[x] = t /\ Only(th, u, x)
    BY <1>2 DEF Only
  <1> HIDE DEF u
  <1>4. Chained(C) /\ Saved(C, host) /\ Divided(C) /\ Filled(C, th) /\ Waiting(C, th, host)
    BY DEF Weak
  <1>5. /\ D \in Seq(Activations)
        /\ Len(D) = j - 1
        /\ \A i \in 1 .. j - 1 : D[i] = C[i]
        /\ Bottom(C, D)
        /\ SavedAt(C, j, host)
    BY <1>4, CutBottom
  <1> HIDE DEF D
  <1>6. Ends(C, D)
    <2>1. \A i \in j .. Len(C) : C[i].th = C[j].th
      BY <1>4, AllRunning
    <2> QED
      BY <1>2, <1>5, <2>1 DEF Ends, m
  <1>7. /\ t.status = "ok" /\ (x = Main => t.baseCcalls = 0)
        /\ t.baseCcalls = th[x].baseCcalls
        /\ t.nCcalls = a.nCcalls /\ t.errorJmp = a.previous /\ t.errfunc = a.errfunc
        /\ Len(t.ci) = a.ci /\ Len(t.ci) <= t.size /\ t.size <= 2 * MAXCALLS
        /\ \A k \in 1 .. a.ci : t.ci[k] = th[x].ci[k]
    <2>1. th[x].status = "ok" /\ (x = Main => th[x].baseCcalls = 0)
      BY <1>1 DEF TopThread, m, x
    <2>2. Restored(a, t, th[x])
      BY DEF m, x
    <2> HIDE DEF a
    <2> QED
      BY <2>1, <2>2 DEF Restored
  <1>8. /\ a.ci \in Nat /\ a.n \in Nat /\ a.nCcalls \in Nat /\ a.ci >= 1 /\ a.th = x
        /\ a.nCcalls = host + Count(C, j - 1)
        /\ a.nCcalls < ERRCCALLS
        /\ Innermost(C, j - 1, x, a.previous)
        /\ a.errfunc = (a.previous # 0 /\ C[a.previous].handler)
        /\ j > 1 => a.previous # 0
    BY <1>5 DEF SavedAt, m, x
  <1>9. Count(D, j - 1) = Count(C, j - 1)
        /\ \A i : Innermost(D, j - 1, x, i) <=> Innermost(C, j - 1, x, i)
    <2>1. j - 1 \in 0 .. Len(D)
      BY <1>2, <1>5
    <2> QED
      BY <1>5, <2>1, BottomCounts
  <1>10. Now(D, u, x, later)
    <2>1. Innermost(D, Len(D), x, t.errorJmp)
      BY <1>5, <1>7, <1>8, <1>9
    <2>2. t.errfunc = (t.errorJmp # 0 /\ D[t.errorJmp].handler)
      <3>1. a.previous # 0 => a.previous \in 1 .. j - 1
        BY <1>2, <1>8 DEF Innermost
      <3>2. a.previous # 0 => D[a.previous].handler = C[a.previous].handler
        BY <1>5, <3>1
      <3> QED
        BY <1>7, <1>8, <3>2
    <2>3. Well(D, t)
      <3> HIDE DEF a
      <3>1. Len(t.ci) >= 1 /\ t.nCcalls <= ERRCCALLS /\ t.status # "YIELD"
        BY <1>7, <1>8, LuaCallAssumption
      <3> QED
        BY <1>7, <2>2, <3>1 DEF Well
    <2>4. t.nCcalls # ERRCCALLS
      <3> HIDE DEF a
      <3> QED
        BY <1>7, <1>8, LuaCallAssumption
    <2> HIDE DEF a
    <2> QED
      BY <1>3, <1>7, <2>1, <2>3, <2>4 DEF Now
  <1>11. ASSUME D # << >>
         PROVE  Back(D, th, u, host)
    <2>1. /\ j > 1 /\ j \in 2 .. m /\ j - 1 \in 1 .. m /\ j - 1 \in 1 .. j - 1
          /\ D[Len(D)] = b /\ j - 1 < j
      BY <1>2, <1>5, <1>11 DEF m
    <2>2. b.th = x
      BY <1>4, <1>8, <2>1 DEF Chained, m
    <2>3. b.ci \in Nat /\ b.n \in Nat
      BY <2>1, ActivationTypes DEF m
    <2>4. b.ci + b.n <= a.ci /\ a.ci <= b.ci + b.n + 1
      BY <1>4, <1>8, <2>1, <2>2 DEF Divided, m
    <2>5. /\ a.ci = b.ci + b.n + 1 => th[x].ci[a.ci] = "C"
          /\ \A k \in b.ci + 1 .. b.ci + b.n : th[x].ci[k] = "Lua"
      <3>1. j \in 2 .. Len(C) /\ j - 1 \in 1 .. Len(C)
        BY <2>1 DEF m
      <3>2. a.ci = b.ci + b.n + 1 => th[a.th].ci[a.ci] = "C"
        BY <1>4, <3>1 DEF Filled
      <3>3. \A k \in b.ci + 1 .. b.ci + b.n : th[b.th].ci[k] = "Lua"
        BY <1>4, <3>1 DEF Filled
      <3> HIDE DEF a, b
      <3> QED
        BY <1>8, <2>2, <3>2, <3>3
    <2> HIDE DEF a, b
    <2>6. \A k \in 1 .. b.ci : t.ci[k] = th[x].ci[k]
      <3>1. \A k \in 1 .. b.ci : k \in 1 .. a.ci
        BY <1>8, <2>3, <2>4
      <3> QED
        BY <1>7, <3>1
    <2>7. \A k \in b.ci + 1 .. b.ci + b.n : t.ci[k] = "Lua"
      <3>1. \A k \in b.ci + 1 .. b.ci + b.n : k \in 1 .. a.ci
        BY <1>8, <2>3, <2>4
      <3> QED
        BY <1>7, <2>5, <3>1
    <2>8. a.ci = b.ci + b.n + 1 => t.ci[a.ci] = "C"
      <3>1. a.ci \in 1 .. a.ci
        BY <1>8
      <3> QED
        BY <1>7, <2>5, <3>1
    <2>9. AtTop(b, t, host + Count(D, Len(D)))
      BY <1>5, <1>7, <1>8, <1>9, <2>4, <2>8 DEF AtTop
    <2>10. t.errorJmp # 0
      BY <1>7, <1>8, <2>1
    <2> QED
      BY <1>3, <1>7, <2>1, <2>2, <2>4, <2>6, <2>7, <2>9, <2>10 DEF Back
  <1>12. Falls(C, D, th, u, later, host)
    BY <1>3, <1>5, <1>6, <1>10, <1>11 DEF Falls, m, x
  <1>13. Weak(D, u, later, host)
    BY <1>3, <1>5, <1>12, FallsWeak
  <1> QED
    BY <1>3, <1>5, <1>13 DEF u, x, m, D

\* The running thread has left the C stack as t.
Left(t) ==
    /\ t.nCcalls < ERRCCALLS
    /\ t.errorJmp = 0
    /\ ~ t.errfunc
    /\ t.status = "YIELD" => Len(t.ci) > 2 /\ \A k \in 2 .. Len(t.ci) - 1 : t.ci[k] = "Lua"
    /\ Len(t.ci) >= 1
    /\ Len(t.ci) <= t.size
    /\ t.size <= 2 * MAXCALLS

\* The thread that resumed the last one, from place j on, waits in a C function.
Resumer(C, th, j) ==
    LET b == C[j - 1]
    IN  /\ j > 1
        /\ b.th \in Threads
        /\ b.th # C[Len(C)].th
        /\ Len(th[b.th].ci) = b.ci + b.n + 1

\* It leaves at the activation j of lua_resume.
LEMMA Leaves ==
    ASSUME NEW C \in Seq(Activations), C # << >>,
           NEW th \in [Threads -> Thread], NEW t \in Thread,
           NEW raise, NEW later, NEW host \in Nat, Weak(C, th, raise, host),
           NEW j \in 1 .. Len(C), C[j].th = C[Len(C)].th, C[j].kind = "resume", Left(t)
    PROVE  /\ SubSeq(C, 1, j - 1) \in Seq(Activations)
           /\ [th EXCEPT ![C[Len(C)].th] = t] \in [Threads -> Thread]
           /\ Weak(SubSeq(C, 1, j - 1), [th EXCEPT ![C[Len(C)].th] = t], later, host)
           /\ Resumer(C, th, j)
  <1> DEFINE m == Len(C)
             x == C[m].th
             D == SubSeq(C, 1, j - 1)
             u == [th EXCEPT ![x] = t]
             b == C[j - 1]
             y == b.th
  <1>1. TopThread(C, th, host)
    BY WeakTop
  <1>2. m \in Nat /\ m \in 1 .. m /\ x \in Threads /\ j \in Nat /\ j - 1 \in Nat /\ 1 \in 1 .. m
    BY <1>1 DEF TopThread
  <1> HIDE DEF m, x
  <1>3. u \in [Threads -> Thread] /\ u[x] = t /\ Only(th, u, x)
    BY <1>2 DEF Only
  <1> HIDE DEF u
  <1>4. Chained(C) /\ Saved(C, host) /\ Divided(C) /\ Filled(C, th) /\ Waiting(C, th, host)
    BY DEF Weak
  <1>5. /\ D \in Seq(Activations)
        /\ Len(D) = j - 1
        /\ \A i \in 1 .. j - 1 : D[i] = C[i]
        /\ Bottom(C, D)
        /\ SavedAt(C, j, host)
    BY <1>4, CutBottom
  <1> HIDE DEF D
  <1>6. Ends(C, D)
    <2>1. \A i \in j .. Len(C) : C[i].th = C[j].th
      BY <1>4, AllRunning
    <2> QED
      BY <1>2, <1>5, <2>1 DEF Ends, m
  <1>7. C[1].kind = "pcall" /\ C[1].th = Main
    BY <1>4 DEF Chained
  <1>8. /\ j > 1 /\ j \in 2 .. m /\ 1 \in 1 .. j - 1 /\ j - 1 \in 1 .. j - 1 /\ j - 1 \in 1 .. m
        /\ j - 1 < m
    <2>1. j # 1
      BY <1>7
    <2> QED
      BY <1>2, <2>1 DEF m
  <1>9. \A i \in 1 .. j - 1 : C[i].th # x
    BY <1>4, <1>8 DEF Chained, m, x
  <1>10. x # Main /\ y # x /\ y \in Threads /\ b.ci \in Nat /\ b.n \in Nat
    BY <1>7, <1>8, <1>9, ActivationTypes DEF m
  <1>11. AtTop(b, th[y], host + Count(C, j - 1)) /\ Len(th[y].ci) = b.ci + b.n + 1
    <2>1. IsTop(C, j - 1)
      BY <1>2, <1>8 DEF IsTop
    <2> QED
      BY <1>4, <1>8, <2>1 DEF Waiting, m
  <1>12. Now(D, u, x, later)
    <2>1. Innermost(D, Len(D), x, t.errorJmp)
      <3>1. \A i \in 1 .. Len(D) : D[i].th # x
        BY <1>5, <1>9
      <3> QED
        BY <1>2, <1>5, <3>1 DEF Innermost, Catches, Left
    <2>2. t.nCcalls \in Nat /\ t.errfunc \in BOOLEAN
      BY DEF Thread
    <2>3. Well(D, t)
      <3>1. t.errfunc = (t.errorJmp # 0 /\ D[t.errorJmp].handler)
        BY <2>2 DEF Left
      <3>2. t.nCcalls <= ERRCCALLS
        BY <2>2, LuaCallAssumption DEF Left
      <3> QED
        BY <3>1, <3>2 DEF Well, Left
    <2>4. t.nCcalls # ERRCCALLS
      BY <2>2, LuaCallAssumption DEF Left
    <2> QED
      BY <1>3, <1>10, <2>1, <2>3, <2>4 DEF Now
  <1>13. Back(D, th, u, host)
    <2>1. D[Len(D)] = b
      BY <1>5, <1>8
    <2>2. u[y] = th[y]
      BY <1>3, <1>10 DEF Only
    <2>3. th[y].status = "ok" /\ th[y].errorJmp # 0
      BY <1>4, <1>8 DEF Waiting, m
    <2>4. Count(D, j - 1) = Count(C, j - 1)
      <3>1. j - 1 \in 0 .. Len(D)
        BY <1>2, <1>5
      <3> QED
        BY <1>5, <3>1, BottomCounts
    <2>5. \A k \in b.ci + 1 .. b.ci + b.n : th[y].ci[k] = "Lua"
      BY <1>4, <1>8 DEF Filled, m
    <2>6. b.ci + b.n <= Len(th[y].ci)
      BY <1>10, <1>11
    <2> HIDE DEF b
    <2> QED
      BY <1>5, <1>11, <2>1, <2>2, <2>3, <2>4, <2>5, <2>6 DEF Back
  <1>14. Falls(C, D, th, u, later, host)
    BY <1>3, <1>5, <1>6, <1>12, <1>13 DEF Falls, m, x
  <1>15. Weak(D, u, later, host)
    BY <1>3, <1>5, <1>14, FallsWeak
  <1> QED
    <2>1. Resumer(C, th, j)
      BY <1>8, <1>10, <1>11 DEF Resumer, x, m
    <2> QED
      BY <1>3, <1>5, <1>15, <2>1 DEF u, x, m, D

-----------------------------------------------------------------------------
(* More of the C stack *)

LEMMA PushLen ==
    ASSUME NEW C \in Seq(Activations), NEW a \in Activations
    PROVE  /\ Append(C, a) \in Seq(Activations)
           /\ Len(C) \in Nat
           /\ Len(Append(C, a)) = Len(C) + 1
           /\ \A i \in 1 .. Len(C) : Append(C, a)[i] = C[i]
           /\ Append(C, a)[Len(C) + 1] = a
           /\ Append(C, a) # << >>
           /\ C # << >> => Len(C) \in 1 .. Len(C)
  OBVIOUS

LEMMA PushCounts ==
    ASSUME NEW C \in Seq(Activations), NEW a \in Activations, NEW D, D = Append(C, a)
    PROVE  /\ \A k \in 0 .. Len(C) : Count(D, k) = Count(C, k)
           /\ Count(D, Len(C) + 1) = Count(C, Len(C)) + (IF a.kind = "pcall" THEN 0 ELSE 1)
           /\ \A k \in 0 .. Len(C) : \A y, j : Innermost(C, k, y, j) => Innermost(D, k, y, j)
           /\ \A y : Catches(a, y) => Innermost(D, Len(C) + 1, y, Len(C) + 1)
           /\ \A y, j : ~ Catches(a, y) /\ Innermost(C, Len(C), y, j) =>
                            Innermost(D, Len(C) + 1, y, j)
  <1>1. /\ D \in Seq(Activations) /\ Len(C) \in Nat /\ Len(D) = Len(C) + 1
        /\ \A i \in 1 .. Len(C) : D[i] = C[i]
        /\ D[Len(C) + 1] = a
    BY PushLen
  <1>2. \A k \in 0 .. Len(C) : Count(D, k) = Count(C, k)
    <2> SUFFICES ASSUME NEW k \in 0 .. Len(C)
                 PROVE  Count(D, k) = Count(C, k)
      OBVIOUS
    <2>1. \A i \in 1 .. k : D[i].kind = C[i].kind
      BY <1>1
    <2> QED
      BY <2>1, CountSame
  <1>3. Count(D, Len(C) + 1) = Count(C, Len(C)) + (IF a.kind = "pcall" THEN 0 ELSE 1)
    <2>1. Len(C) \in 0 .. Len(D) /\ Len(C) < Len(D) /\ Len(C) \in 0 .. Len(C)
      BY <1>1
    <2>2. Count(D, Len(C) + 1)
              = Count(D, Len(C)) + (IF D[Len(C) + 1].kind = "pcall" THEN 0 ELSE 1)
      BY <1>1, <2>1, CountProperties
    <2> QED
      BY <1>1, <1>2, <2>1, <2>2
  <1>4. ASSUME NEW k \in 0 .. Len(C), NEW y, NEW j, Innermost(C, k, y, j)
        PROVE  Innermost(D, k, y, j)
    <2>1. \A i \in 1 .. k : D[i] = C[i]
      BY <1>1
    <2>2. j # 0 => j \in 1 .. k
      BY <1>4 DEF Innermost
    <2> QED
      BY <1>4, <2>1, <2>2 DEF Innermost
  <1>5. ASSUME NEW y, Catches(a, y)
        PROVE  Innermost(D, Len(C) + 1, y, Len(C) + 1)
    BY <1>1, <1>5 DEF Innermost
  <1>6. ASSUME NEW y, NEW j, ~ Catches(a, y), Innermost(C, Len(C), y, j)
        PROVE  Innermost(D, Len(C) + 1, y, j)
    <2>1. Innermost(D, Len(C), y, j)
      <3>1. Len(C) \in 0 .. Len(C)
        BY <1>1
      <3> QED
        BY <1>4, <1>6, <3>1
    <2>2. j \in 0 .. Len(C) + 1
      BY <1>1, <2>1 DEF Innermost
    <2>3. ASSUME NEW i \in 1 .. Len(C) + 1, Catches(D[i], y)
          PROVE  i <= j
      <3>1. i # Len(C) + 1
        BY <1>1, <1>6, <2>3
      <3>2. i \in 1 .. Len(C)
        BY <1>1, <3>1
      <3> QED
        BY <2>1, <2>3, <3>2 DEF Innermost
    <2> QED
      BY <2>1, <2>2, <2>3 DEF Innermost
  <1> QED
    BY <1>2, <1>3, <1>4, <1>5, <1>6

\* The place of a new activation a in the chain of threads.
Fits(C, a) ==
    /\ C = << >> => a.kind = "pcall" /\ a.th = Main
    /\ C # << >> /\ a.kind # "resume" => a.th = C[Len(C)].th
    /\ C # << >> /\ a.kind = "resume" => \A i \in 1 .. Len(C) : C[i].th # a.th

\* What it keeps.
Keeps(C, a, host) ==
    /\ a.nCcalls = host + Count(C, Len(C))
    /\ a.nCcalls < ERRCCALLS
    /\ Innermost(C, Len(C), a.th, a.previous)
    /\ a.errfunc = (a.previous # 0 /\ C[a.previous].handler)
    /\ C # << >> /\ a.kind # "resume" => a.previous # 0
    /\ a.handler => a.kind = "pcall"

\* Its share of the CallInfos.
Shares(C, a) ==
    /\ a.ci >= 1
    /\ C = << >> \/ a.kind = "resume" => a.ci = 1
    /\ a.kind = "pcall" => a.n = 0
    /\ C # << >> =>
           LET b == C[Len(C)]
           IN  /\ a.kind # "resume" => b.ci + b.n <= a.ci /\ a.ci <= b.ci + b.n + 1
               /\ a.kind = "pcall" => a.ci = b.ci + b.n + 1
               /\ b.kind = "pcall" => a.ci = b.ci
               /\ a.kind # "handler" => b.kind = "pcall" \/ b.n >= 1

\* The thread of a goes from th[a.th] to t.
Begins(C, a, th, t, host) ==
    /\ t.errorJmp # 0
    /\ t.status = "ok"
    /\ AtTop(a, t, host + Count(Append(C, a), Len(C) + 1))
    /\ a.ci + a.n <= Len(t.ci)
    /\ \A k \in a.ci + 1 .. a.ci + a.n : t.ci[k] = "Lua"
    /\ a.kind # "resume" => t.ci = th[a.th].ci /\ t.baseCcalls = th[a.th].baseCcalls
    /\ C # << >> =>
           LET b == C[Len(C)]
           IN  /\ a.kind # "resume" /\ a.ci = b.ci + b.n + 1 => t.ci[a.ci] = "C"
               /\ a.kind = "resume" =>
                      /\ Len(th[b.th].ci) = b.ci + b.n + 1
                      /\ t.baseCcalls = host + Count(Append(C, a), Len(C) + 1)

LEMMA PushChained ==
    ASSUME NEW C \in Seq(Activations), NEW a \in Activations, Chained(C), Fits(C, a)
    PROVE  Chained(Append(C, a))
  <1> DEFINE D == Append(C, a)
             m == Len(C)
  <1>1. /\ D \in Seq(Activations) /\ m \in Nat /\ Len(D) = m + 1
        /\ \A i \in 1 .. m : D[i] = C[i]
        /\ D[m + 1] = a
    BY PushLen
  <1> HIDE DEF D
  <1>2. D[1].kind = "pcall" /\ D[1].th = Main
    <2>1. CASE C = << >>
      BY <1>1, <2>1 DEF Fits
    <2>2. CASE C # << >>
      <3>1. 1 \in 1 .. m
        BY <2>2
      <3> QED
        BY <1>1, <2>2, <3>1 DEF Chained
    <2> QED
      BY <2>1, <2>2
  <1>3. ASSUME NEW i \in 2 .. m + 1
        PROVE  /\ D[i].kind = "resume" => \A j \in 1 .. i - 1 : D[j].th # D[i].th
               /\ D[i].kind # "resume" => D[i].th = D[i - 1].th
    <2>0. i - 1 \in 1 .. m /\ C # << >> /\ \A j \in 1 .. i - 1 : j \in 1 .. m
      BY <1>1
    <2>1. CASE i = m + 1
      BY <1>1, <2>0, <2>1 DEF Fits
    <2>2. CASE i # m + 1
      <3>1. i \in 2 .. m /\ i \in 1 .. m
        BY <1>1, <2>2
      <3> QED
        BY <1>1, <2>0, <3>1 DEF Chained
    <2> QED
      BY <2>1, <2>2
  <1>4. ASSUME NEW i \in 1 .. m + 1, NEW l \in 1 .. m + 1, D[i].th = D[l].th, NEW k \in i .. l
        PROVE  D[k].th = D[i].th
    <2>1. CASE k = l
      BY <1>4, <2>1
    <2>2. CASE k # l
      <3>1. i \in 1 .. m /\ k \in 1 .. m /\ C # << >> /\ m \in 1 .. m
        BY <1>1, <2>2
      <3>2. CASE l \in 1 .. m
        BY <1>1, <1>4, <3>1, <3>2 DEF Chained
      <3>3. CASE l = m + 1
        <4>1. C[i].th = C[m].th
          BY <1>1, <1>4, <3>1, <3>3 DEF Fits
        <4>2. k \in i .. m
          BY <1>1, <2>2, <3>3
        <4> QED
          BY <1>1, <3>1, <4>1, <4>2 DEF Chained
      <3> QED
        BY <1>1, <3>2, <3>3
    <2> QED
      BY <2>1, <2>2
  <1>5. Resumed(D)
    <2> SUFFICES ASSUME NEW i \in 1 .. m + 1, D[i].th # Main
                 PROVE  \E r \in 1 .. i : D[r].th = D[i].th /\ D[r].kind = "resume"
      BY <1>1 DEF Resumed
    <2>1. ASSUME NEW l \in 1 .. m, l <= i, C[l].th = D[i].th
          PROVE  \E r \in 1 .. i : D[r].th = D[i].th /\ D[r].kind = "resume"
      <3>1. PICK r \in 1 .. l : C[r].th = C[l].th /\ C[r].kind = "resume"
        BY <2>1 DEF Chained, Resumed
      <3>2. r \in 1 .. i /\ r \in 1 .. m
        BY <1>1, <2>1
      <3> QED
        BY <1>1, <2>1, <3>1, <3>2
    <2>2. CASE i # m + 1
      <3>1. i \in 1 .. m /\ i <= i /\ C[i].th = D[i].th
        BY <1>1, <2>2
      <3> QED
        BY <2>1, <3>1
    <2>3. CASE i = m + 1 /\ D[i].kind = "resume"
      <3>1. i \in 1 .. i
        BY <1>1
      <3> QED
        BY <2>3, <3>1
    <2>4. CASE i = m + 1 /\ D[i].kind # "resume"
      <3>1. C # << >> /\ m \in 1 .. m /\ m <= i
        BY <1>1, <2>4 DEF Fits
      <3>2. C[m].th = D[i].th
        BY <1>1, <2>4, <3>1 DEF Fits
      <3> QED
        BY <2>1, <3>1, <3>2
    <2> QED
      BY <2>2, <2>3, <2>4
  <1> QED
    BY <1>1, <1>2, <1>3, <1>4, <1>5 DEF Chained, D

LEMMA PushSaved ==
    ASSUME NEW C \in Seq(Activations), NEW a \in Activations, NEW host \in Nat,
           Saved(C, host), Keeps(C, a, host)
    PROVE  Saved(Append(C, a), host)
  <1> DEFINE D == Append(C, a)
             m == Len(C)
  <1>1. /\ D \in Seq(Activations) /\ m \in Nat /\ Len(D) = m + 1
        /\ \A i \in 1 .. m : D[i] = C[i]
        /\ D[m + 1] = a
    BY PushLen
  <1>2. /\ \A k \in 0 .. m : Count(D, k) = Count(C, k)
        /\ \A k \in 0 .. m : \A y, j : Innermost(C, k, y, j) => Innermost(D, k, y, j)
    BY PushCounts
  <1> HIDE DEF D, m
  <1> SUFFICES ASSUME NEW i \in 1 .. m + 1
               PROVE  /\ D[i].nCcalls = host + Count(D, i - 1)
                      /\ D[i].nCcalls < ERRCCALLS
                      /\ Innermost(D, i - 1, D[i].th, D[i].previous)
                      /\ D[i].errfunc = (D[i].previous # 0 /\ D[D[i].previous].handler)
                      /\ i > 1 /\ D[i].kind # "resume" => D[i].previous # 0
                      /\ D[i].handler => D[i].kind = "pcall"
    BY <1>1 DEF Saved, D
  <1>3. i - 1 \in 0 .. m
    BY <1>1
  <1>4. CASE i = m + 1
    <2>1. a.previous # 0 => a.previous \in 1 .. m
      BY <1>1 DEF Keeps, Innermost, m
    <2>2. a.previous # 0 => D[a.previous].handler = C[a.previous].handler
      BY <1>1, <2>1
    <2>3. i - 1 = m /\ D[i] = a /\ (i > 1 => C # << >>)
      BY <1>1, <1>4 DEF m
    <2>4. /\ a.nCcalls = host + Count(C, m) /\ a.nCcalls < ERRCCALLS
          /\ Innermost(C, m, a.th, a.previous)
          /\ a.errfunc = (a.previous # 0 /\ C[a.previous].handler)
          /\ C # << >> /\ a.kind # "resume" => a.previous # 0
          /\ a.handler => a.kind = "pcall"
      BY DEF Keeps, m
    <2> QED
      BY <1>2, <1>3, <2>2, <2>3, <2>4
  <1>5. CASE i # m + 1
    <2>1. i \in 1 .. m
      BY <1>1, <1>5
    <2>2. /\ C[i].nCcalls = host + Count(C, i - 1) /\ C[i].nCcalls < ERRCCALLS
          /\ Innermost(C, i - 1, C[i].th, C[i].previous)
          /\ C[i].errfunc = (C[i].previous # 0 /\ C[C[i].previous].handler)
          /\ i > 1 /\ C[i].kind # "resume" => C[i].previous # 0
          /\ C[i].handler => C[i].kind = "pcall"
      BY <2>1 DEF Saved, m
    <2>3. C[i].previous # 0 => C[i].previous \in 1 .. m
      BY <1>1, <2>1, <2>2 DEF Innermost
    <2>4. C[i].previous # 0 => D[C[i].previous].handler = C[C[i].previous].handler
      BY <1>1, <2>3
    <2>5. D[i] = C[i]
      BY <1>1, <2>1
    <2> QED
      BY <1>2, <1>3, <2>2, <2>4, <2>5
  <1> QED
    BY <1>4, <1>5

LEMMA PushDivided ==
    ASSUME NEW C \in Seq(Activations), NEW a \in Activations, Chained(C), Divided(C),
           Fits(C, a), Shares(C, a)
    PROVE  Divided(Append(C, a))
  <1> DEFINE D == Append(C, a)
             m == Len(C)
             b == C[m]
  <1>1. /\ D \in Seq(Activations) /\ m \in Nat /\ Len(D) = m + 1
        /\ \A i \in 1 .. m : D[i] = C[i]
        /\ D[m + 1] = a
        /\ C # << >> => m \in 1 .. m
    BY PushLen
  <1> HIDE DEF D, m
  <1>2. ASSUME NEW i \in 1 .. m + 1
        PROVE  /\ D[i].ci >= 1
               /\ i = 1 \/ D[i].kind = "resume" => D[i].ci = 1
               /\ D[i].kind = "pcall" => D[i].n = 0
    <2>1. CASE i = m + 1
      <3>1. i = 1 => C = << >>
        BY <1>1, <2>1 DEF m
      <3> QED
        BY <1>1, <2>1, <3>1 DEF Shares
    <2>2. CASE i # m + 1
      <3>1. i \in 1 .. m
        BY <1>1, <2>2
      <3> QED
        BY <1>1, <3>1 DEF Divided, m
    <2> QED
      BY <2>1, <2>2
  <1>3. ASSUME NEW i \in 1 .. m + 1, NEW l \in 1 .. m + 1, i < l, D[i].th = D[l].th
        PROVE  D[i].ci + D[i].n <= D[l].ci
    <2>1. i \in 1 .. m /\ C # << >> /\ m \in 1 .. m
      BY <1>1, <1>3 DEF m
    <2>2. CASE l = m + 1
      <3>1. a.kind # "resume" /\ C[i].th = b.th
        BY <1>1, <1>3, <2>1, <2>2 DEF Fits, m
      <3>2. b.ci + b.n <= a.ci
        BY <2>1, <3>1 DEF Shares, m
      <3>3. i < m => C[i].ci + C[i].n <= b.ci
        BY <2>1, <3>1 DEF Divided, m
      <3>4. b.ci \in Nat /\ b.n \in Nat /\ C[i].ci \in Nat /\ C[i].n \in Nat /\ a.ci \in Nat
        BY <2>1, ActivationTypes DEF m, Activations
      <3>5. i < m \/ i = m
        BY <1>1, <2>1
      <3>6. C[i].ci + C[i].n <= a.ci
        BY <3>2, <3>3, <3>4, <3>5
      <3> QED
        BY <1>1, <2>1, <2>2, <3>6
    <2>3. CASE l # m + 1
      <3>1. l \in 1 .. m
        BY <1>1, <2>3
      <3> QED
        BY <1>1, <1>3, <2>1, <3>1 DEF Divided, m
    <2> QED
      BY <2>2, <2>3
  <1>4. ASSUME NEW i \in 2 .. m + 1
        PROVE  /\ D[i].kind # "resume" => D[i].ci <= D[i - 1].ci + D[i - 1].n + 1
               /\ D[i].kind = "pcall" => D[i].ci = D[i - 1].ci + D[i - 1].n + 1
               /\ D[i - 1].kind = "pcall" => D[i].ci = D[i - 1].ci
               /\ D[i].kind # "handler" => D[i - 1].kind = "pcall" \/ D[i - 1].n >= 1
    <2>1. i - 1 \in 1 .. m /\ C # << >>
      BY <1>1 DEF m
    <2>2. CASE i = m + 1
      <3>1. i - 1 = m /\ D[i] = a /\ D[i - 1] = b
        BY <1>1, <2>1, <2>2
      <3> QED
        BY <2>1, <3>1 DEF Shares, m
    <2>3. CASE i # m + 1
      <3>1. i \in 2 .. m /\ i \in 1 .. m
        BY <1>1, <2>3
      <3>2. /\ C[i].kind # "resume" => C[i].ci <= C[i - 1].ci + C[i - 1].n + 1
            /\ C[i].kind = "pcall" => C[i].ci = C[i - 1].ci + C[i - 1].n + 1
            /\ C[i - 1].kind = "pcall" => C[i].ci = C[i - 1].ci
            /\ C[i].kind # "handler" => C[i - 1].kind = "pcall" \/ C[i - 1].n >= 1
        BY <3>1 DEF Divided, m
      <3>3. D[i] = C[i] /\ D[i - 1] = C[i - 1]
        BY <1>1, <2>1, <3>1
      <3> QED
        BY <3>2, <3>3
    <2> QED
      BY <2>2, <2>3
  <1> QED
    BY <1>1, <1>2, <1>3, <1>4 DEF Divided, D

LEMMA PushFilled ==
    ASSUME NEW C \in Seq(Activations), NEW a \in Activations, NEW host \in Nat,
           NEW th \in [Threads -> Thread], NEW t \in Thread,
           Fits(C, a), Filled(C, th), Begins(C, a, th, t, host)
    PROVE  Filled(Append(C, a), [th EXCEPT ![a.th] = t])
  <1> DEFINE D == Append(C, a)
             m == Len(C)
             u == [th EXCEPT ![a.th] = t]
  <1>1. /\ D \in Seq(Activations) /\ m \in Nat /\ Len(D) = m + 1
        /\ \A i \in 1 .. m : D[i] = C[i]
        /\ D[m + 1] = a
    BY PushLen
  <1>2. a.th \in Threads /\ u[a.th] = t /\ \A y \in Threads : y # a.th => u[y] = th[y]
    BY DEF Activations
  <1>3. ASSUME NEW i \in 1 .. m
        PROVE  u[C[i].th].ci = th[C[i].th].ci
    <2>1. C[i].th \in Threads
      BY ActivationTypes
    <2>2. CASE C[i].th = a.th
      <3>1. a.kind # "resume"
        BY <1>3, <2>2 DEF Fits
      <3> QED
        BY <1>2, <2>2, <3>1 DEF Begins
    <2>3. CASE C[i].th # a.th
      BY <1>2, <2>1, <2>3
    <2> QED
      BY <2>2, <2>3
  <1> HIDE DEF D, m, u
  <1>4. ASSUME NEW i \in 1 .. m + 1
        PROVE  /\ D[i].ci + D[i].n <= Len(u[D[i].th].ci)
               /\ \A k \in D[i].ci + 1 .. D[i].ci + D[i].n : u[D[i].th].ci[k] = "Lua"
    <2>1. CASE i = m + 1
      BY <1>1, <1>2, <2>1 DEF Begins
    <2>2. CASE i # m + 1
      <3>1. i \in 1 .. m
        BY <1>1, <2>2
      <3>2. /\ C[i].ci + C[i].n <= Len(th[C[i].th].ci)
            /\ \A k \in C[i].ci + 1 .. C[i].ci + C[i].n : th[C[i].th].ci[k] = "Lua"
        BY <3>1 DEF Filled, m
      <3>3. D[i] = C[i] /\ u[C[i].th].ci = th[C[i].th].ci
        BY <1>1, <1>3, <3>1
      <3> QED
        BY <3>2, <3>3
    <2> QED
      BY <2>1, <2>2
  <1>5. ASSUME NEW i \in 2 .. m + 1, D[i].kind # "resume",
               D[i].ci = D[i - 1].ci + D[i - 1].n + 1
        PROVE  u[D[i].th].ci[D[i].ci] = "C"
    <2>0. i - 1 \in 1 .. m /\ C # << >>
      BY <1>1 DEF m
    <2>1. CASE i = m + 1
      <3>1. i - 1 = m /\ D[i] = a /\ D[i - 1] = C[m]
        BY <1>1, <2>0, <2>1
      <3> QED
        BY <1>2, <1>5, <2>0, <3>1 DEF Begins, m
    <2>2. CASE i # m + 1
      <3>1. i \in 1 .. m /\ i \in 2 .. m
        BY <1>1, <2>2
      <3>2. D[i] = C[i] /\ D[i - 1] = C[i - 1] /\ u[C[i].th].ci = th[C[i].th].ci
        BY <1>1, <1>3, <2>0, <3>1
      <3>3. th[C[i].th].ci[C[i].ci] = "C"
        BY <1>5, <3>1, <3>2 DEF Filled, m
      <3> QED
        BY <3>2, <3>3
    <2> QED
      BY <2>1, <2>2
  <1> QED
    BY <1>1, <1>4, <1>5 DEF Filled, D, u

LEMMA PushWaiting ==
    ASSUME NEW C \in Seq(Activations), NEW a \in Activations, NEW host \in Nat,
           NEW th \in [Threads -> Thread], NEW t \in Thread,
           Chained(C), Divided(C), Fits(C, a), Waiting(C, th, host), Begins(C, a, th, t, host)
    PROVE  Waiting(Append(C, a), [th EXCEPT ![a.th] = t], host)
  <1> DEFINE D == Append(C, a)
             m == Len(C)
             u == [th EXCEPT ![a.th] = t]
  <1>1. /\ D \in Seq(Activations) /\ m \in Nat /\ Len(D) = m + 1
        /\ \A i \in 1 .. m : D[i] = C[i]
        /\ D[m + 1] = a
        /\ C # << >> => m \in 1 .. m
    BY PushLen
  <1>2. a.th \in Threads /\ u[a.th] = t /\ \A y \in Threads : y # a.th => u[y] = th[y]
    BY DEF Activations
  <1>3. \A i \in 1 .. m : C[i].th \in Threads /\ C[i].ci \in Nat /\ C[i].n \in Nat
    BY ActivationTypes
  <1>4. \A k \in 1 .. m : Count(D, k) = Count(C, k)
    <2>1. \A k \in 1 .. m : k \in 0 .. m
      BY <1>1
    <2> QED
      BY <2>1, PushCounts
  <1> HIDE DEF D, m, u
  <1>5. \A i \in 1 .. m : i < m /\ IsTop(C, i) => C[i].th # C[m].th
    <2> SUFFICES ASSUME NEW i \in 1 .. m, i < m, IsTop(C, i), C[i].th = C[m].th
                 PROVE  FALSE
      OBVIOUS
    <2>1. /\ i + 1 \in 2 .. m /\ C[i + 1].kind = "resume" /\ i \in 1 .. (i + 1) - 1
          /\ i + 1 \in i .. m /\ m \in 1 .. m
      BY <1>1 DEF IsTop, m
    <2>2. C[i].th # C[i + 1].th
      BY <2>1 DEF Chained, m
    <2>3. C[i + 1].th = C[i].th
      BY <2>1 DEF Chained, m
    <2> QED
      BY <2>2, <2>3
  <1>6. ASSUME NEW i \in 1 .. m
        PROVE  /\ u[C[i].th].status = "ok"
               /\ u[C[i].th].errorJmp # 0
               /\ C[i].th # a.th => Len(u[C[i].th].ci) > 1
               /\ C[i].kind = "resume" => u[C[i].th].baseCcalls = host + Count(D, i)
    <2>1. /\ th[C[i].th].status = "ok"
          /\ th[C[i].th].errorJmp # 0
          /\ C[i].th # C[m].th => Len(th[C[i].th].ci) > 1
          /\ C[i].kind = "resume" => th[C[i].th].baseCcalls = host + Count(D, i)
          /\ C # << >> /\ m \in 1 .. m
      BY <1>1, <1>4 DEF Waiting, m
    <2>2. CASE C[i].th = a.th
      <3>1. a.kind # "resume"
        BY <2>2 DEF Fits, m
      <3>2. t.status = "ok" /\ t.errorJmp # 0 /\ t.baseCcalls = th[a.th].baseCcalls
        BY <2>1, <3>1 DEF Begins
      <3> QED
        BY <1>2, <2>1, <2>2, <3>2
    <2>3. CASE C[i].th # a.th
      <3>1. u[C[i].th] = th[C[i].th]
        BY <1>2, <1>3, <2>3
      <3>2. Len(th[C[i].th].ci) > 1
        <4>1. CASE C[i].th # C[m].th
          BY <2>1, <4>1
        <4>2. CASE C[i].th = C[m].th
          <5>1. a.kind = "resume"
            BY <2>1, <2>3, <4>2 DEF Fits, m
          <5>2. Len(th[C[m].th].ci) = C[m].ci + C[m].n + 1
            BY <2>1, <5>1 DEF Begins, m
          <5>3. C[m].ci \in Nat /\ C[m].n \in Nat /\ C[m].ci >= 1
            BY <1>3, <2>1 DEF Divided, m
          <5> QED
            BY <4>2, <5>2, <5>3
        <4> QED
          BY <4>1, <4>2
      <3> QED
        BY <2>1, <3>1, <3>2
    <2> QED
      BY <2>2, <2>3
  <1>7. ASSUME NEW i \in 1 .. m, IsTop(D, i)
        PROVE  /\ AtTop(C[i], u[C[i].th], host + Count(D, i))
               /\ Len(u[C[i].th].ci) = C[i].ci + C[i].n + 1
    <2>1. /\ i + 1 \in 1 .. m + 1 /\ i \in 1 .. m + 1 /\ C # << >> /\ m \in 1 .. m
          /\ i # m + 1 /\ D[i + 1].kind = "resume"
      BY <1>1, <1>7 DEF IsTop, m
    <2>2. IsTop(C, i)
      BY <1>1, <2>1 DEF IsTop, m
    <2>3. AtTop(C[i], th[C[i].th], host + Count(D, i))
      BY <1>4, <2>2 DEF Waiting, m
    <2>4. CASE i = m
      <3>1. a.kind = "resume"
        BY <1>1, <2>1, <2>4
      <3>2. C[i].th # a.th
        BY <2>1, <3>1 DEF Fits, m
      <3>3. u[C[i].th] = th[C[i].th]
        BY <1>2, <1>3, <3>2
      <3>4. Len(th[C[i].th].ci) = C[i].ci + C[i].n + 1
        BY <2>1, <2>4, <3>1 DEF Begins, m
      <3> QED
        BY <2>3, <3>3, <3>4
    <2>5. CASE i # m
      <3>1. i < m
        BY <1>1, <2>5
      <3>2. C[i].th # C[m].th
        BY <1>5, <2>2, <3>1
      <3>3. C[i].th # a.th
        BY <2>1, <3>2 DEF Fits, m
      <3>4. u[C[i].th] = th[C[i].th]
        BY <1>2, <1>3, <3>3
      <3>5. Len(th[C[i].th].ci) = C[i].ci + C[i].n + 1
        BY <2>2, <3>1 DEF Waiting, m
      <3> QED
        BY <2>3, <3>4, <3>5
    <2> QED
      BY <2>4, <2>5
  <1>8. /\ t.status = "ok" /\ t.errorJmp # 0
        /\ AtTop(a, t, host + Count(D, m + 1))
        /\ a.kind = "resume" => t.baseCcalls = host + Count(D, m + 1)
    <2>1. a.kind = "resume" => C # << >>
      BY DEF Fits
    <2> QED
      BY <2>1 DEF Begins, D, m
  <1>9. ASSUME NEW i \in 1 .. m + 1
        PROVE  /\ u[D[i].th].status = "ok"
               /\ u[D[i].th].errorJmp # 0
               /\ D[i].th # D[m + 1].th => Len(u[D[i].th].ci) > 1
               /\ D[i].kind = "resume" => u[D[i].th].baseCcalls = host + Count(D, i)
               /\ IsTop(D, i) => /\ AtTop(D[i], u[D[i].th], host + Count(D, i))
                                 /\ i < m + 1 => Len(u[D[i].th].ci) = D[i].ci + D[i].n + 1
    <2>1. CASE i = m + 1
      BY <1>1, <1>2, <1>8, <2>1
    <2>2. CASE i # m + 1
      <3>1. i \in 1 .. m
        BY <1>1, <2>2
      <3>2. D[i] = C[i]
        BY <1>1, <3>1
      <3> QED
        BY <1>1, <1>6, <1>7, <3>1, <3>2
    <2> QED
      BY <2>1, <2>2
  <1> QED
    BY <1>1, <1>9 DEF Waiting, D, u

LEMMA PushThreading ==
    ASSUME NEW C \in Seq(Activations), NEW a \in Activations, NEW D, D = Append(C, a),
           NEW th \in [Threads -> Thread], NEW t \in Thread, NEW raise, NEW later,
           Threading(C, th, raise), raise # "ERRERR",
           Now(D, [th EXCEPT ![a.th] = t], a.th, later)
    PROVE  Threading(D, [th EXCEPT ![a.th] = t], later)
  <1> DEFINE m == Len(C)
             u == [th EXCEPT ![a.th] = t]
  <1>1. /\ D \in Seq(Activations) /\ m \in Nat /\ Len(D) = m + 1
        /\ \A i \in 1 .. m : D[i] = C[i]
        /\ D[m + 1] = a
    BY PushLen
  <1>2. a.th \in Threads /\ u[a.th] = t /\ \A y \in Threads : y # a.th => u[y] = th[y]
    BY DEF Activations
  <1> HIDE DEF m, u
  <1>3. ASSUME NEW y \in Threads, y # a.th
        PROVE  /\ Innermost(D, Len(D), y, u[y].errorJmp)
               /\ Well(D, u[y])
               /\ u[y].nCcalls # ERRCCALLS
    <2>1. /\ Innermost(C, m, y, th[y].errorJmp)
          /\ Well(C, th[y])
          /\ th[y].nCcalls # ERRCCALLS
          /\ u[y] = th[y]
      BY <1>2, <1>3 DEF Threading, m
    <2>2. ~ Catches(a, y)
      BY <1>3 DEF Catches
    <2>3. Innermost(D, m + 1, y, th[y].errorJmp)
      BY <2>1, <2>2, PushCounts DEF m
    <2>4. th[y].errorJmp # 0 => D[th[y].errorJmp].handler = C[th[y].errorJmp].handler
      <3> SUFFICES ASSUME th[y].errorJmp # 0
                   PROVE  D[th[y].errorJmp].handler = C[th[y].errorJmp].handler
        OBVIOUS
      <3>1. th[y].errorJmp \in 1 .. m
        BY <1>1, <2>1 DEF Innermost
      <3> QED
        BY <1>1, <3>1
    <2>5. Well(D, th[y])
      BY <2>1, <2>4 DEF Well
    <2> QED
      BY <1>1, <2>1, <2>3, <2>5
  <1>4. Main \in Threads /\ th[Main].baseCcalls = 0
    BY DEF Threads, Threading
  <1>5. Now(D, u, a.th, later)
    BY DEF u
  <1>6. u[Main].baseCcalls = 0
    BY <1>2, <1>4, <1>5 DEF Now
  <1>7. \A y \in Threads : Innermost(D, Len(D), y, u[y].errorJmp) /\ Well(D, u[y])
    BY <1>3, <1>5 DEF Now
  <1>8. \A y \in Threads : u[y].nCcalls = ERRCCALLS =>
            later = "ERRERR" /\ D # << >> /\ y = D[Len(D)].th
    BY <1>3, <1>5 DEF Now
  <1> QED
    BY <1>6, <1>7, <1>8 DEF Threading, u

\* C rises by a, and its thread to t.
Rises(C, a, th, t, later, host) ==
    /\ Fits(C, a)
    /\ Keeps(C, a, host)
    /\ Shares(C, a)
    /\ Begins(C, a, th, t, host)
    /\ Now(Append(C, a), [th EXCEPT ![a.th] = t], a.th, later)

LEMMA RisesWeak ==
    ASSUME NEW C \in Seq(Activations), NEW a \in Activations, NEW host \in Nat,
           NEW th \in [Threads -> Thread], NEW t \in Thread, NEW raise, NEW later,
           Weak(C, th, raise, host), raise # "ERRERR", Rises(C, a, th, t, later, host)
    PROVE  /\ Append(C, a) \in Seq(Activations)
           /\ [th EXCEPT ![a.th] = t] \in [Threads -> Thread]
           /\ Weak(Append(C, a), [th EXCEPT ![a.th] = t], later, host)
  <1>1. /\ Chained(C) /\ Saved(C, host) /\ Divided(C) /\ Filled(C, th) /\ Waiting(C, th, host)
        /\ Threading(C, th, raise)
    BY DEF Weak
  <1>2. /\ Fits(C, a) /\ Keeps(C, a, host) /\ Shares(C, a) /\ Begins(C, a, th, t, host)
        /\ Now(Append(C, a), [th EXCEPT ![a.th] = t], a.th, later)
    BY DEF Rises
  <1>3. Append(C, a) \in Seq(Activations) /\ [th EXCEPT ![a.th] = t] \in [Threads -> Thread]
    BY PushLen DEF Activations
  <1>4. Chained(Append(C, a))
    BY <1>1, <1>2, PushChained
  <1>5. Saved(Append(C, a), host)
    BY <1>1, <1>2, PushSaved
  <1>6. Divided(Append(C, a))
    BY <1>1, <1>2, PushDivided
  <1>7. Filled(Append(C, a), [th EXCEPT ![a.th] = t])
    BY <1>1, <1>2, PushFilled
  <1>8. Waiting(Append(C, a), [th EXCEPT ![a.th] = t], host)
    BY <1>1, <1>2, PushWaiting
  <1>9. Threading(Append(C, a), [th EXCEPT ![a.th] = t], later)
    BY <1>1, <1>2, PushThreading
  <1> QED
    BY <1>3, <1>4, <1>5, <1>6, <1>7, <1>8, <1>9 DEF Weak

\* The running thread may begin an activation of this kind.
MayBegin(C, th, kind) ==
    LET b == C[Len(C)]
        T == th[b.th]
    IN  /\ kind \in {"execute", "handler", "pcall"}
        /\ kind = "pcall" => Len(T.ci) = b.ci + b.n + 1
        /\ b.kind = "pcall" => Len(T.ci) = b.ci
        /\ kind # "handler" => b.kind = "pcall" \/ b.n >= 1

NewActivation(C, th, kind, handler) ==
    LET x == C[Len(C)].th
    IN  [kind |-> kind, th |-> x, n |-> 0, handler |-> handler, wrap |-> FALSE,
         ci |-> Len(th[x].ci), previous |-> th[x].errorJmp, nCcalls |-> th[x].nCcalls,
         errfunc |-> th[x].errfunc]

\* The running thread goes from T to t.
Calls(C, kind, handler, t, T) ==
    /\ t.status = T.status /\ t.baseCcalls = T.baseCcalls /\ t.ci = T.ci /\ t.size = T.size
    /\ kind = "pcall" =>
           t.nCcalls = T.nCcalls /\ t.errorJmp = Len(C) + 1 /\ t.errfunc = handler
    /\ kind # "pcall" =>
           /\ t.nCcalls = T.nCcalls + 1 /\ t.errorJmp = T.errorJmp /\ t.errfunc = T.errfunc
           /\ ~ handler

LEMMA CallWeak ==
    ASSUME NEW C \in Seq(Activations), NEW host \in Nat, C # << >>,
           NEW th \in [Threads -> Thread], NEW t \in Thread, NEW raise, NEW later,
           Weak(C, th, raise, host), raise # "ERRERR",
           NEW kind, NEW handler \in BOOLEAN, MayBegin(C, th, kind),
           Calls(C, kind, handler, t, th[C[Len(C)].th]),
           t.nCcalls = ERRCCALLS => later = "ERRERR"
    PROVE  LET a == NewActivation(C, th, kind, handler)
           IN  /\ a \in Activations
               /\ Append(C, a) \in Seq(Activations)
               /\ [th EXCEPT ![a.th] = t] \in [Threads -> Thread]
               /\ Weak(Append(C, a), [th EXCEPT ![a.th] = t], later, host)
  <1> DEFINE m == Len(C)
             b == C[m]
             x == b.th
             T == th[x]
             a == NewActivation(C, th, kind, handler)
             D == Append(C, a)
             u == [th EXCEPT ![a.th] = t]
  <1>1. TopThread(C, th, host)
    BY WeakTop
  <1>2. /\ m \in Nat /\ m \in 1 .. m /\ x \in Threads
        /\ b.ci \in Nat /\ b.n \in Nat /\ b.ci >= 1
        /\ T.status = "ok"
        /\ T.errorJmp \in 1 .. m /\ Innermost(C, m, x, T.errorJmp)
        /\ T.errfunc = C[T.errorJmp].handler
        /\ T.nCcalls = host + Count(C, m) /\ T.nCcalls \in Nat
        /\ Len(T.ci) \in Nat /\ T.size \in Nat
        /\ b.ci + b.n <= Len(T.ci) /\ Len(T.ci) <= b.ci + b.n + 1
        /\ Len(T.ci) = b.ci + b.n + 1 => T.ci[b.ci + b.n + 1] = "C"
        /\ Len(T.ci) <= T.size /\ T.size <= 2 * MAXCALLS
        /\ x = Main => T.baseCcalls = 0
    BY <1>1 DEF TopThread
  <1>3. /\ kind \in {"execute", "handler", "pcall"}
        /\ kind = "pcall" => Len(T.ci) = b.ci + b.n + 1
        /\ b.kind = "pcall" => Len(T.ci) = b.ci
        /\ kind # "handler" => b.kind = "pcall" \/ b.n >= 1
    BY DEF MayBegin
  <1>4. T.errorJmp \in Nat /\ T.errfunc \in BOOLEAN
    BY <1>2, ThreadTypes
  <1>5. /\ a.kind = kind /\ a.th = x /\ a.n = 0 /\ a.handler = handler /\ a.ci = Len(T.ci)
        /\ a.previous = T.errorJmp /\ a.nCcalls = T.nCcalls /\ a.errfunc = T.errfunc
        /\ a \in Activations
    BY <1>2, <1>3, <1>4 DEF NewActivation, Activations, Kinds
  <1>6. /\ t.status = T.status /\ t.baseCcalls = T.baseCcalls /\ t.ci = T.ci /\ t.size = T.size
        /\ kind = "pcall" =>
               t.nCcalls = T.nCcalls /\ t.errorJmp = m + 1 /\ t.errfunc = handler
        /\ kind # "pcall" =>
               /\ t.nCcalls = T.nCcalls + 1 /\ t.errorJmp = T.errorJmp /\ t.errfunc = T.errfunc
               /\ ~ handler
    BY DEF Calls
  <1>7. T.nCcalls < ERRCCALLS
    <2>1. T.nCcalls # ERRCCALLS /\ Well(C, T)
      BY <1>2 DEF Weak, Threading
    <2>2. T.nCcalls <= ERRCCALLS
      BY <2>1 DEF Well
    <2> HIDE DEF T
    <2> QED
      BY <1>2, <2>1, <2>2, LuaCallAssumption
  <1> HIDE DEF m, b, x, T, a
  <1>8. /\ D \in Seq(Activations) /\ Len(D) = m + 1
        /\ \A i \in 1 .. m : D[i] = C[i]
        /\ D[m + 1] = a /\ D # << >>
    BY <1>5, PushLen DEF m
  <1>9. /\ Count(D, m + 1) = Count(C, m) + (IF kind = "pcall" THEN 0 ELSE 1)
        /\ kind = "pcall" => Innermost(D, m + 1, x, m + 1)
        /\ kind # "pcall" => Innermost(D, m + 1, x, T.errorJmp)
    <2>1. Catches(a, x) <=> kind = "pcall"
      BY <1>3, <1>5 DEF Catches
    <2> QED
      BY <1>2, <1>5, <2>1, PushCounts DEF m
  <1>10. u \in [Threads -> Thread] /\ u[x] = t
    BY <1>2, <1>5
  <1> HIDE DEF D, u
  <1>11. Fits(C, a)
    BY <1>3, <1>5 DEF Fits, b, m, x
  <1>12. Keeps(C, a, host)
    <2>1. T.errorJmp # 0
      BY <1>2
    <2>2. T.errfunc = (T.errorJmp # 0 /\ C[T.errorJmp].handler)
      BY <1>2, <1>4, <2>1
    <2>3. handler => kind = "pcall"
      BY <1>6
    <2> QED
      BY <1>2, <1>5, <1>7, <2>1, <2>2, <2>3 DEF Keeps, m
  <1>13. Shares(C, a)
    <2>1. a.ci >= 1
      BY <1>2, <1>5
    <2>2. b.kind = "pcall" => a.ci = b.ci
      BY <1>3, <1>5
    <2> QED
      BY <1>2, <1>3, <1>5, <2>1, <2>2 DEF Shares, b, m
  <1>14. Begins(C, a, th, t, host)
    <2>1. t.errorJmp # 0
      BY <1>2, <1>6
    <2>2. t.nCcalls = host + Count(D, m + 1)
      <3>1. Count(C, m) \in Nat
        <4>1. m \in 0 .. m
          BY <1>2
        <4> QED
          BY <4>1, CountProperties DEF m
      <3> QED
        BY <1>2, <1>6, <1>9, <3>1
    <2>3. AtTop(a, t, host + Count(D, m + 1))
      BY <1>2, <1>5, <1>6, <2>2 DEF AtTop
    <2>4. a.ci + a.n <= Len(t.ci) /\ a.ci + 1 .. a.ci + a.n = {}
      BY <1>2, <1>5, <1>6
    <2>5. a.ci = b.ci + b.n + 1 => t.ci[a.ci] = "C"
      BY <1>2, <1>5, <1>6
    <2>6. a.kind # "resume" /\ t.ci = th[a.th].ci /\ t.baseCcalls = th[a.th].baseCcalls
      BY <1>3, <1>5, <1>6 DEF T
    <2>7. \A k \in a.ci + 1 .. a.ci + a.n : t.ci[k] = "Lua"
      BY <2>4
    <2>8. a.ci + a.n <= Len(t.ci) /\ t.status = "ok"
      BY <1>2, <1>6, <2>4
    <2> QED
      BY <2>1, <2>3, <2>5, <2>6, <2>7, <2>8 DEF Begins, D, b, m
  <1>15. Now(D, u, x, later)
    <2>1. Innermost(D, Len(D), x, t.errorJmp)
      BY <1>6, <1>8, <1>9
    <2>2. t.errfunc = (t.errorJmp # 0 /\ D[t.errorJmp].handler)
      <3>1. CASE kind = "pcall"
        <4>1. t.errorJmp # 0 /\ t.errfunc = handler /\ D[t.errorJmp].handler = handler
          BY <1>2, <1>5, <1>6, <1>8, <3>1
        <4> QED
          BY <4>1
      <3>2. CASE kind # "pcall"
        <4>1. t.errorJmp = T.errorJmp /\ t.errfunc = T.errfunc
          BY <1>6, <3>2
        <4>2. T.errorJmp \in 1 .. m /\ m \in Nat /\ T.errfunc = C[T.errorJmp].handler
          BY <1>2
        <4>3. D[T.errorJmp] = C[T.errorJmp] /\ T.errorJmp # 0
          BY <1>8, <4>2
        <4>4. t.errorJmp # 0 /\ D[t.errorJmp].handler = t.errfunc
          BY <4>1, <4>2, <4>3
        <4> QED
          BY <1>4, <4>1, <4>4
      <3> QED
        BY <3>1, <3>2
    <2>3. /\ Len(t.ci) >= 1 /\ Len(t.ci) <= t.size /\ t.size <= 2 * MAXCALLS
          /\ t.status # "YIELD"
      BY <1>2, <1>6
    <2>4. t.nCcalls <= ERRCCALLS
      BY <1>2, <1>6, <1>7, LuaCallAssumption
    <2>5. Well(D, t)
      BY <2>2, <2>3, <2>4 DEF Well
    <2>6. x = D[Len(D)].th /\ (x = Main => t.baseCcalls = 0)
      BY <1>2, <1>5, <1>6, <1>8
    <2> QED
      BY <1>8, <1>10, <2>1, <2>5, <2>6 DEF Now
  <1>16. Rises(C, a, th, t, later, host)
    BY <1>5, <1>11, <1>12, <1>13, <1>14, <1>15 DEF Rises, D, u
  <1>17. Weak(D, u, later, host)
    BY <1>5, <1>16, RisesWeak DEF D, u
  <1> QED
    BY <1>5, <1>8, <1>10, <1>17 DEF a, D, u

\* A thread that is not on the C stack.
Off(C, x) == \A i \in 1 .. Len(C) : C[i].th # x

LEMMA OffThread ==
    ASSUME NEW C, NEW th, NEW raise, NEW host, Weak(C, th, raise, host), C # << >>,
           NEW x \in Threads, Off(C, x)
    PROVE  /\ x # Main /\ x # C[Len(C)].th
           /\ th[x].errorJmp = 0
           /\ th[x].errfunc = FALSE
           /\ th[x].nCcalls \in Nat
           /\ th[x].nCcalls < ERRCCALLS
           /\ Well(C, th[x])
  <1>1. C \in Seq(Activations) /\ th \in [Threads -> Thread] /\ Chained(C) /\ Threading(C, th, raise)
    BY DEF Weak
  <1>2. Len(C) \in Nat /\ Len(C) \in 1 .. Len(C) /\ 1 \in 1 .. Len(C)
    BY <1>1
  <1>3. Innermost(C, Len(C), x, th[x].errorJmp) /\ Well(C, th[x])
    BY <1>1 DEF Threading
  <1>4. th[x].errorJmp = 0
    BY <1>2, <1>3 DEF Innermost, Catches, Off
  <1>5. x # Main /\ x # C[Len(C)].th
    BY <1>1, <1>2 DEF Chained, Off
  <1>6. th[x].nCcalls # ERRCCALLS
    BY <1>1, <1>5 DEF Threading
  <1>7. th[x].nCcalls \in Nat
    BY <1>1, ThreadTypes
  <1>8. th[x].nCcalls < ERRCCALLS
    BY <1>3, <1>6, <1>7, LuaCallAssumption DEF Well
  <1> QED
    BY <1>3, <1>4, <1>5, <1>7, <1>8 DEF Well

LEMMA RaiseWeak ==
    ASSUME NEW C, NEW th, NEW raise, NEW later, NEW host,
           Weak(C, th, raise, host), raise # "ERRERR"
    PROVE  Weak(C, th, later, host)
  <1>1. Threading(C, th, later)
    BY DEF Weak, Threading
  <1> QED
    BY <1>1 DEF Weak

\* Of a thread on the C stack the size may change, and what is left of the body.
Aside(C, z, t, T) ==
    /\ t.errorJmp = T.errorJmp /\ t.errfunc = T.errfunc
    /\ t.status = "YIELD" => Len(t.ci) > 2 /\ \A k \in 2 .. Len(t.ci) - 1 : t.ci[k] = "Lua"
    /\ Len(t.ci) >= 1
    /\ Len(t.ci) <= t.size
    /\ t.size <= 2 * MAXCALLS
    /\ t.nCcalls < ERRCCALLS \/ t.nCcalls = T.nCcalls
    /\ Off(C, z) \/ (/\ t.status = T.status /\ t.ci = T.ci /\ t.nCcalls = T.nCcalls
                     /\ t.baseCcalls = T.baseCcalls)

LEMMA AsideWeak ==
    ASSUME NEW C, NEW th, NEW raise, NEW host, Weak(C, th, raise, host), C # << >>,
           NEW z \in Threads, NEW t \in Thread, Aside(C, z, t, th[z])
    PROVE  /\ [th EXCEPT ![z] = t] \in [Threads -> Thread]
           /\ Weak(C, [th EXCEPT ![z] = t], raise, host)
  <1> DEFINE u == [th EXCEPT ![z] = t]
             T == th[z]
  <1>1. /\ C \in Seq(Activations) /\ th \in [Threads -> Thread]
        /\ Chained(C) /\ Saved(C, host) /\ Divided(C) /\ Filled(C, th) /\ Waiting(C, th, host)
        /\ Threading(C, th, raise)
    BY DEF Weak
  <1>2. u \in [Threads -> Thread] /\ u[z] = t /\ \A y \in Threads : y # z => u[y] = th[y]
    BY <1>1
  <1>3. t.nCcalls \in Nat
    BY DEF Thread
  <1> HIDE DEF u, T
  <1>4. ASSUME NEW i \in 1 .. Len(C)
        PROVE  /\ u[C[i].th].status = th[C[i].th].status
               /\ u[C[i].th].ci = th[C[i].th].ci
               /\ u[C[i].th].nCcalls = th[C[i].th].nCcalls
               /\ u[C[i].th].baseCcalls = th[C[i].th].baseCcalls
               /\ u[C[i].th].errorJmp = th[C[i].th].errorJmp
    <2>1. C[i].th \in Threads
      BY <1>1, ActivationTypes
    <2>2. CASE C[i].th = z
      BY <1>2, <2>2 DEF Aside, Off
    <2>3. CASE C[i].th # z
      BY <1>2, <2>1, <2>3
    <2> QED
      BY <2>2, <2>3
  <1>5. Filled(C, u)
    <2>1. ASSUME NEW i \in 2 .. Len(C), C[i].kind # "resume",
                 C[i].ci = C[i - 1].ci + C[i - 1].n + 1
          PROVE  u[C[i].th].ci[C[i].ci] = "C"
      <3>1. i \in 1 .. Len(C) /\ u[C[i].th].ci = th[C[i].th].ci
        BY <1>1, <1>4
      <3> QED
        BY <1>1, <2>1, <3>1 DEF Filled
    <2>2. ASSUME NEW i \in 1 .. Len(C)
          PROVE  /\ C[i].ci + C[i].n <= Len(u[C[i].th].ci)
                 /\ \A k \in C[i].ci + 1 .. C[i].ci + C[i].n : u[C[i].th].ci[k] = "Lua"
      BY <1>1, <1>4 DEF Filled
    <2> QED
      BY <2>1, <2>2 DEF Filled
  <1>6. Waiting(C, u, host)
    BY <1>1, <1>4 DEF Waiting, AtTop
  <1>7. Threading(C, u, raise)
    <2>1. t.nCcalls = T.nCcalls \/ t.nCcalls # ERRCCALLS
      BY <1>3, LuaCallAssumption DEF Aside, T
    <2>2. Well(C, t)
      <3>1. t.errfunc = (t.errorJmp # 0 /\ C[t.errorJmp].handler)
        BY <1>1 DEF Threading, Well, Aside, T
      <3>2. t.nCcalls <= ERRCCALLS
        <4>1. T.nCcalls <= ERRCCALLS
          BY <1>1 DEF Threading, Well, T
        <4>2. CASE t.nCcalls = T.nCcalls
          BY <4>1, <4>2
        <4>3. CASE t.nCcalls < ERRCCALLS
          BY <1>3, <4>3, LuaCallAssumption
        <4> QED
          BY <4>2, <4>3 DEF Aside, T
      <3> QED
        BY <3>1, <3>2 DEF Well, Aside
    <2>3. u[Main].baseCcalls = 0
      <3>1. Main \in Threads /\ th[Main].baseCcalls = 0
        BY <1>1 DEF Threads, Threading
      <3>2. CASE z = Main
        <4>1. 1 \in 1 .. Len(C) /\ C[1].th = Main
          BY <1>1 DEF Chained
        <4> QED
          BY <1>4, <3>1, <4>1
      <3>3. CASE z # Main
        BY <1>2, <3>1, <3>3
      <3> QED
        BY <3>2, <3>3
    <2>4. \A y \in Threads : u[y].errorJmp = th[y].errorJmp
      BY <1>2 DEF Aside
    <2>5. \A y \in Threads : Innermost(C, Len(C), y, u[y].errorJmp)
      BY <1>1, <2>4 DEF Threading
    <2>6. \A y \in Threads : Well(C, u[y])
      BY <1>1, <1>2, <2>2 DEF Threading
    <2>7. ASSUME NEW y \in Threads, u[y].nCcalls = ERRCCALLS
          PROVE  raise = "ERRERR" /\ C # << >> /\ y = C[Len(C)].th
      <3>1. th[y].nCcalls = ERRCCALLS
        BY <1>2, <2>1, <2>7 DEF T
      <3> QED
        BY <1>1, <3>1 DEF Threading
    <2> QED
      BY <2>3, <2>5, <2>6, <2>7 DEF Threading
  <1> QED
    BY <1>1, <1>2, <1>5, <1>6, <1>7 DEF Weak, u

Resumption(C, th, co, n, wrap) ==
    [kind |-> "resume", th |-> co, n |-> n, handler |-> FALSE, wrap |-> wrap,
     ci |-> 1, previous |-> 0, nCcalls |-> th[C[Len(C)].th].nCcalls, errfunc |-> FALSE]

\* Coroutine co begins to run as t, with n Lua functions; T is the thread that
\* resumes it.
Resumes(C, n, t, T) ==
    /\ t.status = "ok"
    /\ t.nCcalls = T.nCcalls + 1
    /\ t.baseCcalls = T.nCcalls + 1
    /\ t.errorJmp = Len(C) + 1
    /\ ~ t.errfunc
    /\ Len(t.ci) = 1 + n
    /\ \A k \in 2 .. 1 + n : t.ci[k] = "Lua"
    /\ Len(t.ci) <= t.size
    /\ t.size <= 2 * MAXCALLS

LEMMA ResumeWeak ==
    ASSUME NEW C \in Seq(Activations), NEW host \in Nat, C # << >>,
           NEW th \in [Threads -> Thread], NEW t \in Thread, NEW raise,
           Weak(C, th, raise, host), raise # "ERRERR",
           NEW co \in Threads, Off(C, co), NEW n \in Nat, NEW wrap \in BOOLEAN,
           C[Len(C)].n >= 1,
           Len(th[C[Len(C)].th].ci) = C[Len(C)].ci + C[Len(C)].n + 1,
           th[C[Len(C)].th].nCcalls < MAXCCALLS,
           Resumes(C, n, t, th[C[Len(C)].th])
    PROVE  LET a == Resumption(C, th, co, n, wrap)
           IN  /\ a \in Activations
               /\ Append(C, a) \in Seq(Activations)
               /\ [th EXCEPT ![co] = t] \in [Threads -> Thread]
               /\ Weak(Append(C, a), [th EXCEPT ![co] = t], raise, host)
  <1> DEFINE m == Len(C)
             b == C[m]
             T == th[b.th]
             a == Resumption(C, th, co, n, wrap)
             D == Append(C, a)
             u == [th EXCEPT ![a.th] = t]
  <1>1. TopThread(C, th, host)
    BY WeakTop
  <1>2. /\ m \in Nat /\ m \in 1 .. m /\ b.ci \in Nat /\ b.n \in Nat /\ b.n >= 1
        /\ T.nCcalls = host + Count(C, m) /\ T.nCcalls \in Nat /\ T.nCcalls < MAXCCALLS
        /\ Len(T.ci) = b.ci + b.n + 1
    BY <1>1 DEF TopThread
  <1>3. b.kind # "pcall"
    <2>1. Divided(C)
      BY DEF Weak
    <2> QED
      BY <1>2, <2>1 DEF Divided
  <1>4. /\ a.kind = "resume" /\ a.th = co /\ a.n = n /\ ~ a.handler /\ a.ci = 1
        /\ a.previous = 0 /\ a.nCcalls = T.nCcalls /\ a.errfunc = FALSE
        /\ a \in Activations
    BY <1>2 DEF Resumption, Activations, Kinds
  <1>5. /\ co # Main /\ th[co].errorJmp = 0
        /\ Innermost(C, m, co, 0)
    <2>1. Innermost(C, m, co, th[co].errorJmp)
      BY DEF Weak, Threading
    <2> QED
      BY <2>1, OffThread
  <1>6. /\ t.status = "ok" /\ t.nCcalls = T.nCcalls + 1 /\ t.baseCcalls = T.nCcalls + 1
        /\ t.errorJmp = m + 1 /\ ~ t.errfunc /\ Len(t.ci) = 1 + n
        /\ \A k \in 2 .. 1 + n : t.ci[k] = "Lua"
        /\ Len(t.ci) <= t.size /\ t.size <= 2 * MAXCALLS
    BY DEF Resumes
  <1>7. t.errfunc = FALSE /\ t.errfunc \in BOOLEAN
    BY <1>6 DEF Thread
  <1> HIDE DEF m, b, T, a
  <1>8. /\ D \in Seq(Activations) /\ Len(D) = m + 1
        /\ D[m + 1] = a /\ D # << >>
    BY <1>4, PushLen DEF m
  <1>9. /\ Count(D, m + 1) = Count(C, m) + 1
        /\ Innermost(D, m + 1, co, m + 1)
        /\ Count(C, m) \in Nat
    <2>1. Catches(a, co) /\ a.kind # "pcall"
      BY <1>4 DEF Catches
    <2>2. m \in 0 .. m
      BY <1>2
    <2> QED
      BY <1>2, <1>4, <2>1, <2>2, PushCounts, CountProperties DEF m
  <1>10. u \in [Threads -> Thread] /\ u[co] = t
    BY <1>4
  <1> HIDE DEF D, u
  <1>11. Fits(C, a)
    BY <1>4 DEF Fits, Off
  <1>12. Keeps(C, a, host)
    <2>1. a.nCcalls < ERRCCALLS
      BY <1>2, <1>4, LuaCallAssumption
    <2> QED
      BY <1>2, <1>4, <1>5, <2>1 DEF Keeps, m
  <1>13. Shares(C, a)
    BY <1>2, <1>3, <1>4 DEF Shares, b, m
  <1>14. t.nCcalls = host + Count(D, m + 1)
    BY <1>2, <1>6, <1>9
  <1>15. Begins(C, a, th, t, host)
    <2>1. AtTop(a, t, host + Count(D, m + 1))
      BY <1>4, <1>6, <1>14 DEF AtTop
    <2>2. a.ci + a.n <= Len(t.ci) /\ \A k \in a.ci + 1 .. a.ci + a.n : t.ci[k] = "Lua"
      BY <1>4, <1>6
    <2>3. t.baseCcalls = host + Count(D, m + 1)
      BY <1>6, <1>14
    <2>4. t.errorJmp # 0
      BY <1>2, <1>6
    <2> QED
      BY <1>2, <1>4, <1>6, <2>1, <2>2, <2>3, <2>4 DEF Begins, D, T, b, m
  <1>16. Now(D, u, co, raise)
    <2>1. D[t.errorJmp] = a /\ t.errorJmp # 0
      BY <1>2, <1>6, <1>8
    <2>2. t.errfunc = (t.errorJmp # 0 /\ D[t.errorJmp].handler)
      BY <1>4, <1>7, <2>1
    <2>3. /\ Len(t.ci) >= 1 /\ t.status # "YIELD" /\ t.nCcalls <= ERRCCALLS
          /\ t.nCcalls # ERRCCALLS
      BY <1>2, <1>6, LuaCallAssumption
    <2>4. Well(D, t)
      BY <1>6, <2>2, <2>3 DEF Well
    <2> QED
      BY <1>5, <1>6, <1>8, <1>9, <1>10, <2>3, <2>4 DEF Now
  <1>17. Rises(C, a, th, t, raise, host)
    BY <1>4, <1>11, <1>12, <1>13, <1>15, <1>16 DEF Rises, D, u
  <1>18. Weak(D, u, raise, host)
    BY <1>4, <1>17, RisesWeak DEF D, u
  <1> QED
    BY <1>4, <1>8, <1>10, <1>18 DEF a, D, u

-----------------------------------------------------------------------------
(* States *)

\* T is S with C stack D, threads u and the error r.
Is(T, D, u, r) ==
    /\ T \in State
    /\ T.C = D
    /\ T.th = u
    /\ T.raise = r

LEMMA StateTypes ==
    ASSUME NEW S \in State
    PROVE  /\ S.C \in Seq(Activations) /\ S.th \in [Threads -> Thread]
           /\ S.raise \in {"no", "message"} \cup Codes
           /\ S.C # << >> => /\ Len(S.C) \in 1 .. Len(S.C)
                             /\ Cur(S) = S.C[Len(S.C)].th
                             /\ Cur(S) \in Threads
                             /\ L(S) = S.th[Cur(S)] /\ L(S) \in Thread
                             /\ Last(S.C) = S.C[Len(S.C)]
  <1>1. S.C \in Seq(Activations) /\ S.th \in [Threads -> Thread]
        /\ S.raise \in {"no", "message"} \cup Codes
    BY DEF State
  <1>2. ASSUME S.C # << >>
        PROVE  /\ Len(S.C) \in 1 .. Len(S.C)
               /\ Cur(S) = S.C[Len(S.C)].th
               /\ Cur(S) \in Threads
               /\ L(S) = S.th[Cur(S)] /\ L(S) \in Thread
               /\ Last(S.C) = S.C[Len(S.C)]
    <2>1. Len(S.C) \in 1 .. Len(S.C)
      BY <1>1, <1>2
    <2>2. S.C[Len(S.C)] \in Activations
      BY <1>1, <2>1
    <2> QED
      BY <1>1, <2>1, <2>2 DEF Cur, L, Last, Activations
  <1> QED
    BY <1>1, <1>2

LEMMA RaiseIs ==
    ASSUME NEW S \in State, NEW r \in {"no", "message"} \cup Codes
    PROVE  Is(Raise(S, r), S.C, S.th, r)
  BY DEF State, Raise, Is

LEMMA PushIs ==
    ASSUME NEW S \in State, NEW a \in Activations
    PROVE  Is(Push(S, a), Append(S.C, a), S.th, S.raise)
  BY DEF State, Push, Is

LEMMA PopIs ==
    ASSUME NEW S \in State, S.C # << >>
    PROVE  Is(Pop(S), SubSeq(S.C, 1, Len(S.C) - 1), S.th, S.raise)
  <1>1. SubSeq(S.C, 1, Len(S.C) - 1) \in Seq(Activations)
    BY StateTypes
  <1> QED
    BY <1>1 DEF State, Pop, Is, Front

LEMMA ActivationExcept ==
    ASSUME NEW a \in Activations, NEW n \in Nat
    PROVE  /\ [a EXCEPT !.n = n] \in Activations
           /\ [a EXCEPT !.n = n].n = n
           /\ [a EXCEPT !.n = n].kind = a.kind
           /\ [a EXCEPT !.n = n].ci = a.ci
           /\ Alike([a EXCEPT !.n = n], a)
  BY DEF Activations, Alike

LEMMA ThreadsIs ==
    ASSUME NEW S \in State, NEW x \in Threads, NEW t \in Thread
    PROVE  Is([S EXCEPT !.th = [S.th EXCEPT ![x] = t]], S.C, [S.th EXCEPT ![x] = t], S.raise)
  <1>1. [S.th EXCEPT ![x] = t] \in [Threads -> Thread]
    BY StateTypes
  <1> QED
    BY <1>1 DEF State, Is

LEMMA ThreadExcept ==
    ASSUME NEW T \in Thread, NEW ci \in Seq(Frames), NEW size \in Nat
    PROVE  /\ [T EXCEPT !.ci = ci] \in Thread
           /\ [T EXCEPT !.ci = ci].ci = ci
           /\ [T EXCEPT !.ci = ci].size = T.size
           /\ Same([T EXCEPT !.ci = ci], T)
           /\ [T EXCEPT !.size = size] \in Thread
           /\ [T EXCEPT !.size = size].ci = T.ci
           /\ [T EXCEPT !.size = size].size = size
           /\ Same([T EXCEPT !.size = size], T)
           /\ [T EXCEPT !.ci = ci, !.size = size] \in Thread
           /\ [T EXCEPT !.ci = ci, !.size = size].ci = ci
           /\ [T EXCEPT !.ci = ci, !.size = size].size = size
           /\ Same([T EXCEPT !.ci = ci, !.size = size], T)
  BY DEF Thread, Same

Resized(T, ci, size) == [T EXCEPT !.ci = ci, !.size = size]

LEMMA ResizedThread ==
    ASSUME NEW T \in Thread, NEW ci \in Seq(Frames), NEW size \in Nat
    PROVE  /\ Resized(T, ci, size) \in Thread
           /\ Resized(T, ci, size).ci = ci
           /\ Resized(T, ci, size).size = size
           /\ Same(Resized(T, ci, size), T)
  BY DEF Thread, Same, Resized

\* The running thread goes to t.
Changes(T, S, D, t, r) == Is(T, D, [S.th EXCEPT ![S.C[Len(S.C)].th] = t], r)

LEMMA poscallIs ==
    ASSUME NEW S \in State, S.C # << >>, Len(L(S).ci) >= 1
    PROVE  LET ci == SubSeq(L(S).ci, 1, Len(L(S).ci) - 1)
           IN  ci \in Seq(Frames) /\ Changes(poscall(S), S, S.C, [L(S) EXCEPT !.ci = ci], S.raise)
  <1> DEFINE x == Cur(S)
             T == S.th[x]
             ci == SubSeq(T.ci, 1, Len(T.ci) - 1)
  <1>1. /\ x \in Threads /\ T \in Thread /\ S.th \in [Threads -> Thread] /\ T = L(S)
        /\ x = S.C[Len(S.C)].th
    BY StateTypes
  <1>2. ci \in Seq(Frames)
    <2>1. T.ci \in Seq(Frames) /\ Len(T.ci) \in Nat
      BY <1>1, ThreadTypes
    <2> HIDE DEF T
    <2> QED
      BY <2>1
  <1>3. poscall(S) = [S EXCEPT !.th = [S.th EXCEPT ![x] = [T EXCEPT !.ci = ci]]]
    BY DEF poscall, Front
  <1>4. Is(poscall(S), S.C, [S.th EXCEPT ![x] = [T EXCEPT !.ci = ci]], S.raise)
    <2>1. [T EXCEPT !.ci = ci] \in Thread
      <3> HIDE DEF T, ci
      <3> QED
        BY <1>1, <1>2, ThreadExcept
    <2> QED
      BY <1>1, <1>3, <2>1, ThreadsIs
  <1> QED
    BY <1>1, <1>2, <1>4 DEF Changes

LEMMA incIs ==
    ASSUME NEW S \in State, S.C # << >>, NEW frame \in Frames
    PROVE  LET ci == Append(L(S).ci, frame)
               size == IF Len(L(S).ci) = L(S).size THEN 2 * L(S).size ELSE L(S).size
           IN  /\ ci \in Seq(Frames) /\ size \in Nat
               /\ Changes(inc_ci(S, frame), S, S.C, Resized(L(S), ci, size), S.raise)
  <1> DEFINE x == Cur(S)
             T == S.th[x]
             ci == Append(T.ci, frame)
             size == IF Len(T.ci) = T.size THEN 2 * T.size ELSE T.size
  <1>1. /\ x \in Threads /\ T \in Thread /\ S.th \in [Threads -> Thread] /\ T = L(S)
        /\ x = S.C[Len(S.C)].th
    BY StateTypes
  <1>2. ci \in Seq(Frames) /\ size \in Nat
    <2>1. T.ci \in Seq(Frames) /\ Len(T.ci) \in Nat /\ T.size \in Nat
      BY <1>1, ThreadTypes
    <2> HIDE DEF T
    <2> QED
      BY <2>1
  <1>3. inc_ci(S, frame) = [S EXCEPT !.th = [S.th EXCEPT ![x] = [T EXCEPT !.ci = ci, !.size = size]]]
    <2> HIDE DEF x
    <2>1. [S EXCEPT !.th[x].ci = ci] = [S EXCEPT !.th = [S.th EXCEPT ![x] = [T EXCEPT !.ci = ci]]]
      OBVIOUS
    <2>2. [S EXCEPT !.th[x].ci = ci].th[x].size = T.size
      <3> HIDE DEF T, ci, size
      <3> QED
        BY <1>1, <1>2, <2>1 DEF State, Thread, T
    <2> QED
      BY <1>1, <2>1, <2>2 DEF inc_ci, x, State, Thread
  <1>4. Is(inc_ci(S, frame), S.C, [S.th EXCEPT ![x] = [T EXCEPT !.ci = ci, !.size = size]], S.raise)
    <2>1. [T EXCEPT !.ci = ci, !.size = size] \in Thread
      <3> HIDE DEF T, ci, size
      <3> QED
        BY <1>1, <1>2, ThreadExcept
    <2> DEFINE t == [T EXCEPT !.ci = ci, !.size = size]
    <2>2. inc_ci(S, frame) = [S EXCEPT !.th = [S.th EXCEPT ![x] = t]]
      BY <1>3
    <2>3. x \in Threads /\ t \in Thread
      BY <1>1, <2>1
    <2> HIDE DEF t, x
    <2>4. Is([S EXCEPT !.th = [S.th EXCEPT ![x] = t]], S.C, [S.th EXCEPT ![x] = t], S.raise)
      BY <2>3, ThreadsIs
    <2>5. Is(inc_ci(S, frame), S.C, [S.th EXCEPT ![x] = t], S.raise)
      BY <2>2, <2>4
    <2> QED
      BY <2>5 DEF t
  <1> QED
    BY <1>1, <1>2, <1>4 DEF Changes, Resized

LEMMA growIs ==
    ASSUME NEW S \in State, S.C # << >>
    PROVE  /\ HandlingOverflow(S) => Is(growCI(S), S.C, S.th, "ERRERR")
           /\ ~ HandlingOverflow(S) =>
                  Changes(growCI(S), S, S.C, [L(S) EXCEPT !.size = 2 * L(S).size], "message")
  <1> DEFINE x == Cur(S)
             t == [L(S) EXCEPT !.size = 2 * L(S).size]
             u == [S.th EXCEPT ![x] = t]
             T == [S EXCEPT !.th = u]
  <1>1. /\ x \in Threads /\ L(S) \in Thread /\ S.th \in [Threads -> Thread] /\ S.th[x] = L(S)
        /\ x = S.C[Len(S.C)].th
    BY StateTypes
  <1>2. HandlingOverflow(S) => Is(growCI(S), S.C, S.th, "ERRERR")
    BY RaiseIs DEF growCI, Codes
  <1>3. t \in Thread
    <2>1. L(S).ci \in Seq(Frames) /\ L(S).size \in Nat
      BY <1>1 DEF Thread
    <2>2. 2 * L(S).size \in Nat
      BY <2>1
    <2> QED
      BY <1>1, <2>1, <2>2, ThreadExcept
  <1>4. ~ HandlingOverflow(S) => growCI(S) = Raise(T, "message")
    BY <1>1 DEF growCI
  <1> HIDE DEF x, t
  <1>5. Is(T, S.C, u, S.raise)
    BY <1>1, <1>3, ThreadsIs
  <1> HIDE DEF T, u
  <1>6. Is(Raise(T, "message"), S.C, u, "message")
    BY <1>5, RaiseIs DEF Is
  <1> QED
    BY <1>1, <1>2, <1>4, <1>6 DEF Changes, u, t

LEMMA BottomSelf ==
    ASSUME NEW C \in Seq(Activations), Divided(C)
    PROVE  Bottom(C, C)
  <1>1. Len(C) \in Nat /\ \A i \in 1 .. Len(C) : C[i].kind = "pcall" => C[i].n = 0
    BY DEF Divided
  <1> QED
    BY <1>1 DEF Bottom, Alike

\* What holds of a state with a running thread.
WeakState(S, host) ==
    /\ S \in State
    /\ S.C # << >>
    /\ Weak(S.C, S.th, S.raise, host)

LEMMA RunningThread ==
    ASSUME NEW S, NEW host \in Nat, WeakState(S, host)
    PROVE  LET C == S.C
               m == Len(C)
               a == C[m]
               T == L(S)
           IN  /\ C \in Seq(Activations) /\ m \in Nat /\ m \in 1 .. m
               /\ S.th \in [Threads -> Thread]
               /\ a.th = Cur(S) /\ S.th[a.th] = T /\ T \in Thread /\ Cur(S) \in Threads
               /\ a.ci \in Nat /\ a.n \in Nat /\ a.ci >= 1 /\ a.kind \in Kinds
               /\ a.kind = "pcall" => a.n = 0
               /\ T.status = "ok" /\ T.errorJmp \in 1 .. m
               /\ Innermost(C, m, Cur(S), T.errorJmp)
               /\ T.nCcalls \in Nat /\ T.nCcalls <= ERRCCALLS /\ T.nCcalls = host + Count(C, m)
               /\ S.raise # "ERRERR" => T.nCcalls < ERRCCALLS
               /\ T.ci \in Seq(Frames) /\ Len(T.ci) \in Nat /\ T.size \in Nat
               /\ a.ci + a.n <= Len(T.ci) /\ Len(T.ci) <= a.ci + a.n + 1
               /\ \A k \in a.ci + 1 .. a.ci + a.n : T.ci[k] = "Lua"
               /\ Len(T.ci) = a.ci + a.n + 1 => T.ci[a.ci + a.n + 1] = "C"
               /\ Len(T.ci) <= T.size /\ T.size <= 2 * MAXCALLS
  <1> DEFINE C == S.C
             m == Len(C)
             a == C[m]
             T == L(S)
  <1>1. S \in State /\ C # << >> /\ Weak(C, S.th, S.raise, host)
    BY DEF WeakState
  <1>2. /\ C \in Seq(Activations) /\ S.th \in [Threads -> Thread]
        /\ a.th = Cur(S) /\ S.th[a.th] = T /\ T \in Thread /\ Cur(S) \in Threads
    BY <1>1, StateTypes
  <1>3. TopThread(C, S.th, host)
    BY <1>1, WeakTop
  <1>4. /\ m \in Nat /\ m \in 1 .. m
        /\ a.ci \in Nat /\ a.n \in Nat /\ a.ci >= 1 /\ a.kind \in Kinds
        /\ T.status = "ok" /\ T.errorJmp \in 1 .. m
        /\ Innermost(C, m, Cur(S), T.errorJmp)
        /\ T.nCcalls \in Nat /\ T.nCcalls <= ERRCCALLS /\ T.nCcalls = host + Count(C, m)
        /\ T.ci \in Seq(Frames) /\ Len(T.ci) \in Nat /\ T.size \in Nat
        /\ a.ci + a.n <= Len(T.ci) /\ Len(T.ci) <= a.ci + a.n + 1
        /\ \A k \in a.ci + 1 .. a.ci + a.n : T.ci[k] = "Lua"
        /\ Len(T.ci) = a.ci + a.n + 1 => T.ci[a.ci + a.n + 1] = "C"
        /\ Len(T.ci) <= T.size /\ T.size <= 2 * MAXCALLS
    <2> HIDE DEF C, T
    <2> QED
      BY <1>2, <1>3 DEF TopThread
  <1>5. a.kind = "pcall" => a.n = 0
    BY <1>1, <1>4 DEF Weak, Divided
  <1>6. S.raise # "ERRERR" => T.nCcalls # ERRCCALLS
    BY <1>1, <1>2 DEF Weak, Threading
  <1> HIDE DEF C, m, a, T
  <1>7. S.raise # "ERRERR" => T.nCcalls < ERRCCALLS
    BY <1>4, <1>6, LuaCallAssumption
  <1> QED
    BY <1>2, <1>4, <1>5, <1>7 DEF C, m, a, T

\* The running thread goes to t, above the beginning of its last activation.
TopStep(S, T, D, t, r) ==
    /\ D \in Seq(Activations)
    /\ t \in Thread
    /\ Changes(T, S, D, t, r)
    /\ Len(D) = Len(S.C)
    /\ Bottom(S.C, D)
    /\ Same(t, L(S))
    /\ Runs(D[Len(D)], t, L(S))

LEMMA TopState ==
    ASSUME NEW S, NEW host \in Nat, WeakState(S, host), S.raise # "ERRERR",
           NEW T, NEW D, NEW t, NEW r, TopStep(S, T, D, t, r)
    PROVE  WeakState(T, host) /\ L(T) = t /\ Last(T.C) = D[Len(D)] /\ T.C = D /\ T.raise = r
  <1> DEFINE C == S.C
             x == C[Len(C)].th
             u == [S.th EXCEPT ![x] = t]
  <1>0. /\ D \in Seq(Activations) /\ t \in Thread /\ Changes(T, S, D, t, r)
        /\ Len(D) = Len(S.C) /\ Bottom(S.C, D) /\ Same(t, L(S)) /\ Runs(D[Len(D)], t, L(S))
    BY DEF TopStep
  <1>1. /\ C \in Seq(Activations) /\ C # << >> /\ S.th \in [Threads -> Thread]
        /\ S.th[x] = L(S) /\ x \in Threads /\ Weak(C, S.th, S.raise, host)
        /\ Len(C) \in 1 .. Len(C)
    BY RunningThread DEF WeakState
  <1>2. t.nCcalls # ERRCCALLS
    <2>1. t.nCcalls = L(S).nCcalls
      BY <1>0 DEF Same
    <2>2. L(S).nCcalls \in Nat /\ L(S).nCcalls < ERRCCALLS
      BY RunningThread
    <2> QED
      BY <2>1, <2>2, LuaCallAssumption
  <1>3. T \in State /\ T.C = D /\ T.th = u /\ T.raise = r
    BY <1>0 DEF Changes, Is
  <1>4. Weak(D, u, r, host)
    <2>1. Same(t, S.th[x]) /\ Runs(D[Len(D)], t, S.th[x])
      BY <1>0, <1>1
    <2> HIDE DEF C
    <2> QED
      BY <1>0, <1>1, <1>2, <2>1, TopChanges DEF C
  <1>5. D # << >> /\ D[Len(D)].th = x
    BY <1>0, <1>1 DEF Bottom, Alike
  <1>6. u[x] = t
    BY <1>0, <1>1
  <1>7. L(T) = t
    BY <1>3, <1>5, <1>6, StateTypes
  <1> QED
    BY <1>3, <1>4, <1>5, <1>7, StateTypes DEF WeakState

LEMMA TopSame ==
    ASSUME NEW S, NEW host \in Nat, WeakState(S, host), S.raise # "ERRERR",
           NEW T, NEW t \in Thread, NEW r, Changes(T, S, S.C, t, r),
           Same(t, L(S)), Runs(S.C[Len(S.C)], t, L(S))
    PROVE  WeakState(T, host) /\ L(T) = t /\ T.C = S.C /\ T.raise = r
  <1>1. S.C \in Seq(Activations)
    BY RunningThread
  <1>2. Bottom(S.C, S.C)
    BY <1>1, BottomSelf DEF WeakState, Weak
  <1>3. TopStep(S, T, S.C, t, r)
    BY <1>1, <1>2 DEF TopStep
  <1> QED
    BY <1>3, TopState

LEMMA RaiseInv ==
    ASSUME NEW S, NEW host \in Nat, WeakState(S, host), S.raise # "ERRERR", Protects(S.C),
           NEW r \in {"message"} \cup Codes
    PROVE  Inv(Raise(S, r), host)
  <1>1. Is(Raise(S, r), S.C, S.th, r) /\ r # "no"
    BY RaiseIs DEF WeakState, Codes
  <1>2. Weak(S.C, S.th, r, host)
    BY RaiseWeak DEF WeakState
  <1> QED
    BY <1>1, <1>2 DEF Inv, Is, WeakState

LEMMA growInv ==
    ASSUME NEW S, NEW host \in Nat, WeakState(S, host), S.raise # "ERRERR", Protects(S.C)
    PROVE  Inv(growCI(S), host)
  <1>1. S \in State /\ S.C # << >>
    BY DEF WeakState
  <1>2. CASE HandlingOverflow(S)
    <2>1. Is(growCI(S), S.C, S.th, "ERRERR")
      BY <1>1, <1>2, growIs
    <2>2. Weak(S.C, S.th, "ERRERR", host)
      BY RaiseWeak DEF WeakState
    <2> QED
      BY <1>1, <2>1, <2>2 DEF Inv, Is
  <1>3. CASE ~ HandlingOverflow(S)
    <2> DEFINE t == [L(S) EXCEPT !.size = 2 * L(S).size]
    <2>1. Changes(growCI(S), S, S.C, t, "message")
      BY <1>1, <1>3, growIs
    <2>2. L(S) \in Thread /\ L(S).ci \in Seq(Frames) /\ L(S).size \in Nat /\ 2 * L(S).size \in Nat
          /\ S.C \in Seq(Activations)
      BY RunningThread
    <2>3. t \in Thread /\ t.ci = L(S).ci /\ t.size = 2 * L(S).size /\ Same(t, L(S))
      BY <2>2, ThreadExcept
    <2> HIDE DEF t
    <2>4. t.size <= 2 * MAXCALLS /\ Len(t.ci) <= t.size
      <3>1. L(S).size <= MAXCALLS
        BY <1>3, <2>2, LuaCallAssumption DEF HandlingOverflow
      <3>2. Len(L(S).ci) \in Nat /\ Len(L(S).ci) <= L(S).size
        BY RunningThread
      <3> QED
        BY <2>2, <2>3, <3>1, <3>2, LuaCallAssumption
    <2>5. Runs(S.C[Len(S.C)], t, L(S))
      BY <2>3, <2>4, RunningThread DEF Runs
    <2>6. WeakState(growCI(S), host) /\ growCI(S).C = S.C /\ growCI(S).raise = "message"
      BY <2>1, <2>3, <2>5, TopSame
    <2> QED
      BY <1>1, <2>6, ZenonT(40) DEF Inv, WeakState
  <1> QED
    BY <1>2, <1>3

\* A C function runs, which a Lua function has called.
Ready(S, host) ==
    /\ WeakState(S, host)
    /\ S.raise = "no"
    /\ Protects(S.C)
    /\ S.C[Len(S.C)].n >= 1
    /\ Len(L(S).ci) = S.C[Len(S.C)].ci + S.C[Len(S.C)].n + 1

\* One CallInfo fits.
LEMMA SizeFits ==
    ASSUME NEW S, NEW host \in Nat, WeakState(S, host), ~ Full(S),
           NEW size, size = IF Len(L(S).ci) = L(S).size THEN 2 * L(S).size ELSE L(S).size
    PROVE  size \in Nat /\ Len(L(S).ci) + 1 <= size /\ size <= 2 * MAXCALLS
  <1>1. /\ Len(L(S).ci) \in Nat /\ L(S).size \in Nat /\ Len(L(S).ci) >= 1
        /\ Len(L(S).ci) <= L(S).size /\ L(S).size <= 2 * MAXCALLS
    <2> DEFINE a == S.C[Len(S.C)]
    <2>1. /\ Len(L(S).ci) \in Nat /\ L(S).size \in Nat /\ a.ci \in Nat /\ a.n \in Nat /\ a.ci >= 1
          /\ a.ci + a.n <= Len(L(S).ci)
          /\ Len(L(S).ci) <= L(S).size /\ L(S).size <= 2 * MAXCALLS
      BY RunningThread
    <2> HIDE DEF a
    <2> QED
      BY <2>1
  <1>2. Len(L(S).ci) = L(S).size => 2 * L(S).size <= MAXCALLS
    BY <1>1, LuaCallAssumption DEF Full
  <1> QED
    BY <1>1, <1>2, LuaCallAssumption

LEMMA incReady ==
    ASSUME NEW S, NEW host \in Nat, WeakState(S, host), S.raise = "no", Protects(S.C),
           Exact(S), ~ Full(S)
    PROVE  Ready(inc_ci(S, "C"), host)
  <1> DEFINE a == S.C[Len(S.C)]
             ci == Append(L(S).ci, "C")
             size == IF Len(L(S).ci) = L(S).size THEN 2 * L(S).size ELSE L(S).size
             t == Resized(L(S), ci, size)
             T == inc_ci(S, "C")
  <1>1. /\ L(S) \in Thread /\ L(S).ci \in Seq(Frames) /\ Len(L(S).ci) \in Nat
        /\ a.ci \in Nat /\ a.n \in Nat /\ a.ci >= 1
        /\ \A k \in a.ci + 1 .. a.ci + a.n : L(S).ci[k] = "Lua"
    BY RunningThread
  <1>2. ci \in Seq(Frames) /\ size \in Nat /\ Changes(T, S, S.C, t, "no")
    BY incIs DEF WeakState, Frames
  <1>3. Len(ci) <= size /\ size <= 2 * MAXCALLS
    BY <1>1, SizeFits
  <1>4. Len(L(S).ci) = a.ci + a.n /\ a.n >= 1
    BY StateTypes DEF Exact, WeakState
  <1>5. t \in Thread /\ t.ci = ci /\ t.size = size /\ Same(t, L(S))
    <2>1. L(S) \in Thread
      BY <1>1
    <2>2. ci \in Seq(Frames) /\ size \in Nat
      BY <1>2
    <2> HIDE DEF ci, size
    <2> QED
      BY <2>1, <2>2, ResizedThread
  <1>6. Len(ci) = a.ci + a.n + 1 /\ ci[a.ci + a.n + 1] = "C"
        /\ \A k \in 1 .. a.ci + a.n : ci[k] = L(S).ci[k]
    <2> HIDE DEF a
    <2> QED
      BY <1>1, <1>4
  <1> HIDE DEF a, ci, size, t, T
  <1>7. Runs(a, t, L(S))
    <2>1. \A k \in 1 .. a.ci : k \in 1 .. a.ci + a.n
      BY <1>1
    <2>2. \A k \in a.ci + 1 .. a.ci + a.n : k \in 1 .. a.ci + a.n
      BY <1>1
    <2>3. \A k \in 1 .. a.ci : ci[k] = L(S).ci[k]
      BY <1>6, <2>1
    <2>4. \A k \in a.ci + 1 .. a.ci + a.n : ci[k] = "Lua"
      BY <1>1, <1>6, <2>2
    <2> QED
      BY <1>1, <1>3, <1>5, <1>6, <2>3, <2>4 DEF Runs
  <1>8. WeakState(T, host) /\ L(T) = t /\ T.C = S.C /\ T.raise = "no"
    BY <1>2, <1>5, <1>7, TopSame DEF a
  <1> QED
    BY <1>4, <1>5, <1>6, <1>8 DEF Ready, a, T

LEMMA poscallInv ==
    ASSUME NEW S, NEW host \in Nat, Ready(S, host)
    PROVE  Inv(poscall(S), host)
  <1> DEFINE a == S.C[Len(S.C)]
             ci == SubSeq(L(S).ci, 1, Len(L(S).ci) - 1)
             t == [L(S) EXCEPT !.ci = ci]
             T == poscall(S)
  <1>1. /\ L(S) \in Thread /\ L(S).ci \in Seq(Frames) /\ Len(L(S).ci) \in Nat
        /\ a.ci \in Nat /\ a.n \in Nat /\ a.ci >= 1
        /\ \A k \in a.ci + 1 .. a.ci + a.n : L(S).ci[k] = "Lua"
        /\ Len(L(S).ci) <= L(S).size /\ L(S).size <= 2 * MAXCALLS /\ L(S).size \in Nat
    BY RunningThread DEF Ready
  <1>2. /\ WeakState(S, host) /\ S.raise = "no" /\ Protects(S.C)
        /\ Len(L(S).ci) = a.ci + a.n + 1 /\ a.n >= 1
    BY DEF Ready
  <1>3. ci \in Seq(Frames) /\ Changes(T, S, S.C, t, "no")
    <2>1. Len(L(S).ci) >= 1
      BY <1>1, <1>2
    <2> QED
      BY <1>2, <2>1, poscallIs DEF WeakState
  <1>4. Len(ci) = a.ci + a.n /\ \A k \in 1 .. a.ci + a.n : ci[k] = L(S).ci[k]
    <2> HIDE DEF a
    <2> QED
      BY <1>1, <1>2
  <1>5. t \in Thread /\ t.ci = ci /\ t.size = L(S).size /\ Same(t, L(S))
    <2> HIDE DEF ci
    <2> QED
      BY <1>1, <1>3, ThreadExcept
  <1> HIDE DEF a, ci, t, T
  <1>6. Runs(a, t, L(S))
    <2>1. \A k \in 1 .. a.ci : k \in 1 .. a.ci + a.n
      BY <1>1
    <2>2. \A k \in a.ci + 1 .. a.ci + a.n : k \in 1 .. a.ci + a.n
      BY <1>1
    <2>3. \A k \in 1 .. a.ci : ci[k] = L(S).ci[k]
      BY <1>4, <2>1
    <2>4. \A k \in a.ci + 1 .. a.ci + a.n : ci[k] = "Lua"
      BY <1>1, <1>4, <2>2
    <2>5. Len(ci) <= L(S).size
      BY <1>1, <1>2, <1>4
    <2> QED
      BY <1>1, <1>4, <1>5, <2>3, <2>4, <2>5 DEF Runs
  <1>7. WeakState(T, host) /\ L(T) = t /\ T.C = S.C /\ T.raise = "no"
    BY <1>2, <1>3, <1>5, <1>6, TopSame, ZenonT(40) DEF a
  <1>8. Exact(T)
    <2>1. Last(T.C) = a
      BY <1>7, StateTypes DEF WeakState, a
    <2> QED
      BY <1>2, <1>4, <1>5, <1>7, <2>1 DEF Exact
  <1> QED
    BY <1>2, <1>7, <1>8 DEF Inv, WeakState, T

LEMMA ResumeFailsInv ==
    ASSUME NEW S, NEW host \in Nat, Ready(S, host), NEW wrap
    PROVE  Inv(ResumeFails(S, wrap), host)
  <1>1. CASE wrap
    BY <1>1, RaiseInv DEF ResumeFails, Ready
  <1>2. CASE ~ wrap
    BY <1>2, poscallInv DEF ResumeFails
  <1> QED
    BY <1>1, <1>2

\* A Lua function may be entered.
LEMMA EnterInv ==
    ASSUME NEW S, NEW host \in Nat, WeakState(S, host), S.raise = "no", Protects(S.C),
           S.C[Len(S.C)].kind # "pcall",
           Len(L(S).ci) = S.C[Len(S.C)].ci + S.C[Len(S.C)].n
    PROVE  Inv(EnterLua(S), host)
  <1>0. CASE Full(S)
    BY <1>0, growInv DEF EnterLua
  <1> SUFFICES ASSUME ~ Full(S)
               PROVE  Inv(EnterLua(S), host)
    BY <1>0
  <1> DEFINE C == S.C
             m == Len(C)
             a == C[m]
             ci == Append(L(S).ci, "Lua")
             size == IF Len(L(S).ci) = L(S).size THEN 2 * L(S).size ELSE L(S).size
             t == Resized(L(S), ci, size)
             R == inc_ci(S, "Lua")
             b == [a EXCEPT !.n = a.n + 1]
             D == [C EXCEPT ![m] = b]
             T == EnterLua(S)
  <1>1. /\ L(S) \in Thread /\ L(S).ci \in Seq(Frames) /\ Len(L(S).ci) \in Nat
        /\ a.ci \in Nat /\ a.n \in Nat /\ a.ci >= 1
        /\ \A k \in a.ci + 1 .. a.ci + a.n : L(S).ci[k] = "Lua"
        /\ C \in Seq(Activations) /\ m \in Nat /\ m \in 1 .. m /\ a \in Activations
    BY RunningThread
  <1>2. ci \in Seq(Frames) /\ size \in Nat /\ Changes(R, S, C, t, "no")
    BY incIs DEF WeakState, Frames
  <1>3. Len(ci) <= size /\ size <= 2 * MAXCALLS
    BY <1>1, SizeFits
  <1>4. Len(L(S).ci) = a.ci + a.n
    OBVIOUS
  <1>5. t \in Thread /\ t.ci = ci /\ t.size = size /\ Same(t, L(S))
    <2>1. L(S) \in Thread
      BY <1>1
    <2>2. ci \in Seq(Frames) /\ size \in Nat
      BY <1>2
    <2> HIDE DEF ci, size
    <2> QED
      BY <2>1, <2>2, ResizedThread
  <1>6. Len(ci) = a.ci + a.n + 1 /\ ci[a.ci + a.n + 1] = "Lua"
        /\ \A k \in 1 .. a.ci + a.n : ci[k] = L(S).ci[k]
    <2> HIDE DEF a
    <2> QED
      BY <1>1, <1>4
  <1>7. /\ b \in Activations /\ b.n = a.n + 1 /\ b.kind = a.kind /\ b.ci = a.ci /\ Alike(b, a)
    <2>1. a.n + 1 \in Nat
      BY <1>1
    <2> HIDE DEF a
    <2> QED
      BY <1>1, <2>1, ActivationExcept
  <1>8. D \in Seq(Activations) /\ Len(D) = m /\ D[m] = b /\ \A i \in 1 .. m : i # m => D[i] = C[i]
    <2> HIDE DEF b
    <2> QED
      BY <1>1, <1>7
  <1>9. T = [R EXCEPT !.C = D]
    <2>1. R.C = C /\ R \in State
      BY <1>2 DEF Changes, Is
    <2>2. T = [R EXCEPT !.C = [R.C EXCEPT ![m] = [R.C[m] EXCEPT !.n = R.C[m].n + 1]]]
      BY DEF EnterLua
    <2> QED
      BY <2>1, <2>2
  <1>10. a.kind # "pcall"
    OBVIOUS
  <1> HIDE DEF a, b, ci, size, t, R, T, D, C, m
  <1>11. Changes(T, S, D, t, "no")
    BY <1>2, <1>8, <1>9 DEF Changes, Is, State
  <1>12. Runs(b, t, L(S))
    <2>1. \A k \in 1 .. b.ci : k \in 1 .. a.ci + a.n
      BY <1>1, <1>7
    <2>2. \A k \in b.ci + 1 .. b.ci + b.n :
              (k \in 1 .. a.ci + a.n /\ k \in a.ci + 1 .. a.ci + a.n) \/ k = a.ci + a.n + 1
      <3>1. b.ci = a.ci /\ b.n = a.n + 1
        BY <1>7
      <3>2. \A k \in a.ci + 1 .. a.ci + (a.n + 1) :
              (k \in 1 .. a.ci + a.n /\ k \in a.ci + 1 .. a.ci + a.n) \/ k = a.ci + a.n + 1
        <4> DEFINE p == a.ci
                   q == a.n
        <4>1. p \in Nat /\ q \in Nat
          BY <1>1
        <4> HIDE DEF p, q
        <4>2. \A k \in p + 1 .. p + (q + 1) : (k \in 1 .. p + q /\ k \in p + 1 .. p + q) \/ k = p + q + 1
          BY <4>1
        <4> QED
          BY <4>2 DEF p, q
      <3> QED
        BY <3>1, <3>2
    <2>3. \A k \in 1 .. b.ci : ci[k] = L(S).ci[k]
      BY <1>6, <2>1
    <2>4. \A k \in b.ci + 1 .. b.ci + b.n : ci[k] = "Lua"
      BY <1>1, <1>6, <2>2
    <2>5. b.ci + b.n = Len(ci) /\ Len(ci) \in Nat /\ b.ci + b.n \in Nat
      BY <1>1, <1>6, <1>7
    <2> QED
      BY <1>3, <1>5, <2>3, <2>4, <2>5 DEF Runs
  <1>13. Bottom(C, D)
    <2>1. Divided(C)
      BY DEF WeakState, Weak, C
    <2>2. \A i \in 1 .. m : C[i].kind = "pcall" => C[i].n = 0
      BY <2>1 DEF Divided, m
    <2>3. \A i \in 1 .. m : Alike(D[i], C[i])
      BY <1>7, <1>8 DEF Alike, a
    <2>4. \A i \in 1 .. m - 1 : D[i].n = C[i].n
      BY <1>1, <1>8
    <2>5. \A i \in 1 .. m : D[i].kind = "pcall" => D[i].n = 0
      BY <1>7, <1>8, <1>10, <2>2
    <2>6. Len(D) <= Len(C)
      BY <1>1, <1>8 DEF m
    <2> QED
      BY <1>8, <2>3, <2>4, <2>5, <2>6 DEF Bottom
  <1>14. TopStep(S, T, D, t, "no")
    BY <1>5, <1>8, <1>11, <1>12, <1>13 DEF TopStep, C, m
  <1>15. WeakState(T, host) /\ L(T) = t /\ Last(T.C) = b /\ T.C = D /\ T.raise = "no"
    BY <1>8, <1>14, TopState
  <1>16. Protects(D)
    <2>1. \A i \in 1 .. m : D[i].kind = C[i].kind
      BY <1>7, <1>8 DEF a
    <2>2. \A i \in 1 .. m : C[i].kind = "pcall" => i < m /\ C[i + 1].kind = "execute"
      BY DEF Protects, C, m
    <2>3. \A i \in 1 .. m : i < m => i + 1 \in 1 .. m
      BY <1>1
    <2> QED
      BY <1>8, <2>1, <2>2, <2>3 DEF Protects
  <1>17. Exact(T)
    BY <1>1, <1>5, <1>6, <1>7, <1>15 DEF Exact
  <1> QED
    BY <1>15, <1>16, <1>17 DEF Inv, WeakState, T

\* luaD_pcall does nothing but call, if the next activation is of this kind.
ProtectsWith(C, kind) ==
    \A i \in 1 .. Len(C) : C[i].kind = "pcall" =>
        IF i = Len(C) THEN kind = "execute" ELSE C[i + 1].kind = "execute"

LEMMA PushProtects ==
    ASSUME NEW C \in Seq(Activations), NEW a \in Activations, ProtectsWith(C, a.kind)
    PROVE  /\ a.kind # "pcall" => Protects(Append(C, a))
           /\ a.kind = "pcall" /\ Protects(C) => ProtectsWith(Append(C, a), "execute")
  <1> DEFINE D == Append(C, a)
             m == Len(C)
  <1>1. /\ D \in Seq(Activations) /\ m \in Nat /\ Len(D) = m + 1
        /\ \A i \in 1 .. m : D[i] = C[i]
        /\ D[m + 1] = a
    BY PushLen
  <1> HIDE DEF D
  <1>2. ASSUME NEW i \in 1 .. m, D[i].kind = "pcall"
        PROVE  D[i + 1].kind = "execute"
    <2>1. C[i].kind = "pcall"
      BY <1>1, <1>2
    <2>2. CASE i = m
      BY <1>1, <2>1, <2>2 DEF ProtectsWith
    <2>3. CASE i # m
      <3>1. i + 1 \in 1 .. m
        BY <1>1, <2>3
      <3>2. C[i + 1].kind = "execute"
        BY <2>1, <2>3 DEF ProtectsWith
      <3> QED
        BY <1>1, <3>1, <3>2
    <2> QED
      BY <2>2, <2>3
  <1>3. \A i \in 1 .. m + 1 : i # m + 1 => i \in 1 .. m /\ i < m + 1
    BY <1>1
  <1>4. a.kind # "pcall" => Protects(D)
    BY <1>1, <1>2, <1>3 DEF Protects
  <1>5. ProtectsWith(D, "execute")
    BY <1>1, <1>2, <1>3 DEF ProtectsWith
  <1> QED
    BY <1>4, <1>5 DEF D

\* A function is called, as an activation of the C stack.
LEMMA CallInv ==
    ASSUME NEW S, NEW host \in Nat, WeakState(S, host), S.raise = "no",
           NEW kind \in {"execute", "handler"}, MayBegin(S.C, S.th, kind),
           ProtectsWith(S.C, kind)
    PROVE  Inv(luaD_call(S, Cur(S), kind), host)
  <1> DEFINE C == S.C
             x == Cur(S)
             T == S.th[x]
             a == NewActivation(C, S.th, kind, FALSE)
             t == [T EXCEPT !.nCcalls = T.nCcalls + 1]
             u == [S.th EXCEPT ![x] = t]
             R == [S EXCEPT !.th = u]
             W == Push(R, a)
             n == T.nCcalls + 1
             D == Append(C, a)
  <1>1. /\ S \in State /\ C \in Seq(Activations) /\ C # << >> /\ S.th \in [Threads -> Thread]
        /\ x = C[Len(C)].th /\ T = L(S) /\ T \in Thread /\ x \in Threads
        /\ T.nCcalls \in Nat /\ T.nCcalls < ERRCCALLS
        /\ Weak(C, S.th, "no", host)
    BY RunningThread DEF WeakState
  <1>2. /\ t \in Thread /\ t.nCcalls = n /\ Calls(C, kind, FALSE, t, T) /\ t.ci = T.ci
    <2>1. n \in Nat
      BY <1>1
    <2> HIDE DEF T, n, C
    <2> QED
      BY <1>1, <2>1 DEF Thread, Calls, n
  <1>3. luaD_call(S, x, kind) = CountedCall(W, n)
    <2>1. Activation(S, kind, x, FALSE, FALSE) = a
      BY <1>1 DEF Activation, NewActivation
    <2> HIDE DEF x
    <2>2. [S EXCEPT !.th[x].nCcalls = @ + 1] = R
      OBVIOUS
    <2> QED
      BY <2>1, <2>2 DEF luaD_call
  <1>4. a.th = x /\ a.kind = kind /\ a.n = 0 /\ a.ci = Len(T.ci)
    BY <1>1 DEF NewActivation
  <1> HIDE DEF C, x, T, a, t, n
  <1>5. ASSUME NEW r, n = ERRCCALLS => r = "ERRERR"
        PROVE  /\ a \in Activations
               /\ D \in Seq(Activations)
               /\ u \in [Threads -> Thread]
               /\ Weak(D, u, r, host)
    <2>1. "no" # "ERRERR" /\ MayBegin(C, S.th, kind) /\ Calls(C, kind, FALSE, t, S.th[C[Len(C)].th])
      BY <1>1, <1>2 DEF C, T
    <2>2. t.nCcalls = ERRCCALLS => r = "ERRERR"
      BY <1>2, <1>5
    <2>3. Weak(D, u, r, host) /\ a \in Activations /\ D \in Seq(Activations) /\ u \in [Threads -> Thread]
      BY <1>1, <1>2, <1>4, <2>1, <2>2, CallWeak DEF a
    <2> QED
      BY <2>3
  <1>6. a \in Activations /\ D \in Seq(Activations) /\ u \in [Threads -> Thread]
    BY <1>5
  <1>7. Is(W, D, u, "no")
    <2>1. Is(R, C, u, "no")
      BY <1>1, <1>2, ThreadsIs DEF C
    <2> HIDE DEF R, u
    <2> QED
      BY <1>6, <2>1, PushIs DEF Is
  <1>8. Protects(D)
    BY <1>1, <1>4, <1>6, PushProtects DEF C
  <1> HIDE DEF R, W, D, u
  <1>9. ASSUME NEW r \in {"message", "ERRERR"}, n = ERRCCALLS => r = "ERRERR"
        PROVE  Inv(Raise(W, r), host)
    <2>1. Weak(D, u, r, host) /\ D # << >>
      BY <1>1, <1>5, <1>9, PushLen, <1>6 DEF D
    <2>2. Is(Raise(W, r), D, u, r)
      BY <1>7, RaiseIs DEF Is, Codes
    <2> QED
      BY <1>8, <1>9, <2>1, <2>2 DEF Inv, Is
  <1>10. CASE n = MAXCCALLS
    <2>1. n # ERRCCALLS
      BY <1>10, LuaCallAssumption
    <2>2. luaD_call(S, x, kind) = Raise(W, "message")
      BY <1>3, <1>10 DEF CountedCall
    <2>3. Inv(Raise(W, "message"), host)
      BY <1>9, <2>1
    <2> QED
      BY <2>2, <2>3 DEF x
  <1>11. CASE n # MAXCCALLS /\ n >= ERRCCALLS
    <2>1. luaD_call(S, x, kind) = Raise(W, "ERRERR")
      BY <1>3, <1>11 DEF CountedCall
    <2>2. Inv(Raise(W, "ERRERR"), host)
      BY <1>9
    <2> QED
      BY <2>1, <2>2 DEF x
  <1>12. CASE n # MAXCCALLS /\ ~ (n >= ERRCCALLS)
    <2>1. n # ERRCCALLS
      BY <1>12, LuaCallAssumption
    <2>2. Weak(D, u, "no", host)
      BY <1>5, <2>1
    <2>3. /\ D # << >> /\ D[Len(D)] = a
      BY <1>1, <1>6, PushLen DEF D
    <2>4. WeakState(W, host) /\ W.raise = "no" /\ W.C = D
      BY <1>7, <2>2, <2>3 DEF WeakState, Is
    <2>5. L(W) = t
      <3>1. Cur(W) = x
        BY <1>4, <2>3, <2>4, StateTypes DEF WeakState
      <3>2. u[x] = t
        BY <1>1 DEF u
      <3> QED
        BY <1>7, <3>1, <3>2 DEF L, Is
    <2>6. Len(L(W).ci) = a.ci + a.n
      BY <1>2, <1>4, <1>6, <2>5 DEF Activations
    <2>7. Inv(EnterLua(W), host)
      BY <1>4, <1>8, <2>3, <2>4, <2>6, EnterInv
    <2>8. luaD_call(S, x, kind) = EnterLua(W)
      BY <1>3, <1>12 DEF CountedCall
    <2> QED
      BY <2>7, <2>8 DEF x
  <1> QED
    BY <1>10, <1>11, <1>12 DEF x

\* A protected call begins in a C function of the running thread.
LEMMA PcallInv ==
    ASSUME NEW S, NEW host \in Nat, Ready(S, host), NEW handler \in BOOLEAN
    PROVE  Inv(luaD_pcall(S, Cur(S), handler), host)
  <1> DEFINE C == S.C
             m == Len(C)
             x == Cur(S)
             T == S.th[x]
             a == NewActivation(C, S.th, "pcall", handler)
             t == [T EXCEPT !.errorJmp = m + 1, !.errfunc = handler]
             u == [S.th EXCEPT ![x] = t]
             R == [S EXCEPT !.th = u]
             W == Push(R, a)
             D == Append(C, a)
  <1>1. /\ S \in State /\ C \in Seq(Activations) /\ C # << >> /\ S.th \in [Threads -> Thread]
        /\ x = C[Len(C)].th /\ T = L(S) /\ T \in Thread /\ x \in Threads
        /\ Weak(C, S.th, "no", host) /\ m \in Nat /\ m \in 1 .. m
        /\ Len(T.ci) \in Nat /\ C[m].ci \in Nat /\ C[m].n \in Nat
        /\ T.nCcalls < ERRCCALLS /\ T.nCcalls \in Nat
        /\ C[m].kind = "pcall" => C[m].n = 0
    BY RunningThread DEF WeakState, Ready
  <1>2. Protects(C) /\ C[m].n >= 1 /\ Len(T.ci) = C[m].ci + C[m].n + 1
    BY <1>1 DEF Ready
  <1>3. C[m].kind # "pcall"
    BY <1>1, <1>2
  <1>4. /\ t \in Thread /\ Calls(C, "pcall", handler, t, T) /\ t.ci = T.ci /\ t.nCcalls = T.nCcalls
    <2>1. m + 1 \in Nat
      BY <1>1
    <2> HIDE DEF T, C
    <2> QED
      BY <1>1, <2>1 DEF Thread, Calls, m
  <1>5. a.th = x /\ a.kind = "pcall" /\ a.n = 0 /\ a.ci = Len(T.ci)
    BY <1>1 DEF NewActivation
  <1>6. luaD_pcall(S, x, handler) = luaD_call(W, x, "execute")
    <2>1. Activation(S, "pcall", x, handler, FALSE) = a
      BY <1>1 DEF Activation, NewActivation
    <2> HIDE DEF x
    <2>2. [S EXCEPT !.th[x].errorJmp = Len(S.C) + 1, !.th[x].errfunc = handler] = R
      <3>1. [S EXCEPT !.th[x].errorJmp = m + 1]
                = [S EXCEPT !.th = [S.th EXCEPT ![x] = [T EXCEPT !.errorJmp = m + 1]]]
        OBVIOUS
      <3> QED
        BY <1>1, <3>1 DEF State, Thread
    <2> QED
      BY <2>1, <2>2 DEF luaD_pcall
  <1> HIDE DEF C, m, x, T, a, t
  <1>7. a \in Activations /\ D \in Seq(Activations) /\ u \in [Threads -> Thread]
        /\ Weak(D, u, "no", host)
    <2>1. MayBegin(C, S.th, "pcall")
      BY <1>1, <1>2, <1>3 DEF MayBegin, T, m
    <2>2. "no" # "ERRERR" /\ Calls(C, "pcall", handler, t, S.th[C[Len(C)].th])
      BY <1>1, <1>4 DEF T
    <2>3. t.nCcalls = ERRCCALLS => "no" = "ERRERR"
      BY <1>1, <1>4, LuaCallAssumption
    <2>4. a.th = x /\ "no" # "ERRERR"
      BY <1>5
    <2>5. LET e == NewActivation(C, S.th, "pcall", handler)
          IN  /\ e \in Activations
              /\ Append(C, e) \in Seq(Activations)
              /\ [S.th EXCEPT ![e.th] = t] \in [Threads -> Thread]
              /\ Weak(Append(C, e), [S.th EXCEPT ![e.th] = t], "no", host)
      <3>1. C \in Seq(Activations) /\ C # << >> /\ S.th \in [Threads -> Thread] /\ t \in Thread
            /\ Weak(C, S.th, "no", host)
        BY <1>1, <1>4
      <3> QED
        BY <2>1, <2>2, <2>3, <3>1, CallWeak, ZenonT(60)
    <2> QED
      BY <2>4, <2>5 DEF a
  <1>8. Is(W, D, u, "no")
    <2>1. Is(R, C, u, "no")
      BY <1>1, <1>4, ThreadsIs DEF C, Ready
    <2> HIDE DEF R, u
    <2> QED
      BY <1>7, <2>1, PushIs DEF Is
  <1>9. ProtectsWith(D, "execute")
    <2>1. ProtectsWith(C, "pcall")
      BY <1>1, <1>2 DEF Protects, ProtectsWith
    <2> QED
      BY <1>1, <1>2, <1>5, <1>7, <2>1, PushProtects
  <1> HIDE DEF R, W, D, u
  <1>10. D # << >> /\ D[Len(D)] = a
    BY <1>1, <1>7, PushLen DEF D
  <1>11. WeakState(W, host) /\ W.raise = "no" /\ W.C = D /\ W.th = u
    BY <1>7, <1>8, <1>10 DEF WeakState, Is
  <1>12. Cur(W) = x
    BY <1>5, <1>10, <1>11, StateTypes DEF WeakState
  <1>13. MayBegin(D, u, "execute")
    <2>1. u[x] = t
      BY <1>1 DEF u
    <2> QED
      BY <1>4, <1>5, <1>10, <2>1 DEF MayBegin
  <1>14. Inv(luaD_call(W, x, "execute"), host)
    <2>1. Inv(luaD_call(W, Cur(W), "execute"), host)
      BY <1>9, <1>11, <1>13, CallInv
    <2> QED
      BY <1>12, <2>1
  <1> QED
    BY <1>6, <1>14 DEF x

-----------------------------------------------------------------------------
(* The initial state *)

\* No thread is on the C stack.
LEMMA StartWeak ==
    ASSUME NEW host \in 0 .. MAXCCALLS - 1
    PROVE  /\ Start(host) \in State
           /\ Weak(<< >>, Start(host).th, "no", host)
           /\ Start(host).C = << >> /\ Start(host).raise = "no"
           /\ Start(host).th[Main] = NewThread(host, <<"base">>)
  <1> DEFINE th == Start(host).th
             B == <<"base">>
  <1>1. host \in Nat /\ host < ERRCCALLS /\ BASIC_CI_SIZE \in Nat /\ 1 <= BASIC_CI_SIZE
        /\ BASIC_CI_SIZE <= 2 * MAXCALLS /\ ERRCCALLS \in Nat /\ 0 < ERRCCALLS
        /\ MAXCALLS \in Nat
    BY LuaCallAssumption
  <1>2. /\ B \in Seq(Frames) /\ Len(B) = 1
    BY DEF Frames
  <1> HIDE DEF B
  <1>3. /\ Start(host).C = << >> /\ Start(host).raise = "no"
        /\ th = [x \in Threads |-> IF x = Main THEN NewThread(host, B) ELSE Unborn]
    BY DEF Start, B
  <1>4. /\ NewThread(host, B) \in Thread /\ NewThread(host, B).nCcalls = host
        /\ NewThread(host, B).status = "ok" /\ NewThread(host, B).ci = B
        /\ NewThread(host, B).size = BASIC_CI_SIZE /\ NewThread(host, B).baseCcalls = 0
        /\ NewThread(host, B).errorJmp = 0 /\ NewThread(host, B).errfunc = FALSE
    BY <1>1, <1>2 DEF NewThread, Thread, Statuses
  <1>5. /\ Unborn \in Thread /\ Unborn.nCcalls = 0 /\ Unborn.status = "none" /\ Unborn.ci = B
        /\ Unborn.size = BASIC_CI_SIZE /\ Unborn.errorJmp = 0 /\ Unborn.errfunc = FALSE
    <2>1. Unborn = [NewThread(0, B) EXCEPT !.status = "none"]
      BY DEF Unborn, B
    <2> QED
      BY <1>1, <1>2, <2>1 DEF NewThread, Thread, Statuses
  <1> HIDE DEF th
  <1>6. th \in [Threads -> Thread]
    BY <1>3, <1>4, <1>5
  <1>7. ASSUME NEW x \in Threads
        PROVE  /\ th[x].errorJmp = 0 /\ th[x].errfunc = FALSE /\ th[x].status \in {"ok", "none"}
               /\ th[x].ci = B /\ th[x].size = BASIC_CI_SIZE /\ th[x].nCcalls \in {host, 0}
    BY <1>3, <1>4, <1>5
  <1>8. th[Main] = NewThread(host, B)
    BY <1>3 DEF Threads
  <1>9. ASSUME NEW x \in Threads
        PROVE  /\ Innermost(<< >>, 0, x, th[x].errorJmp)
               /\ Well(<< >>, th[x])
               /\ th[x].nCcalls # ERRCCALLS
    <2> DEFINE T == th[x]
    <2>0. /\ T.errorJmp = 0 /\ T.errfunc = FALSE /\ T.status \in {"ok", "none"}
          /\ T.ci = B /\ T.size = BASIC_CI_SIZE /\ (T.nCcalls = host \/ T.nCcalls = 0)
      BY <1>7
    <2> HIDE DEF T
    <2>1. Innermost(<< >>, 0, x, T.errorJmp)
      BY <2>0 DEF Innermost
    <2>2. T.nCcalls < ERRCCALLS /\ T.nCcalls <= ERRCCALLS /\ T.nCcalls \in Nat
      BY <1>1, <2>0
    <2>3. Well(<< >>, T)
      <3>1. Len(T.ci) >= 1 /\ Len(T.ci) <= T.size /\ T.size <= 2 * MAXCALLS
        <4>1. Len(T.ci) = 1
          BY <1>2, <2>0
        <4> QED
          BY <1>1, <2>0, <4>1
      <3> QED
        BY <2>0, <2>2, <3>1 DEF Well
    <2> USE DEF T
    <2> QED
      BY <1>1, <2>1, <2>2, <2>3
  <1>10. Threading(<< >>, th, "no")
    <2>1. Len(<< >>) = 0
      OBVIOUS
    <2> QED
      BY <1>4, <1>8, <1>9, <2>1 DEF Threading
  <1>11. /\ Chained(<< >>) /\ Saved(<< >>, host) /\ Divided(<< >>) /\ Filled(<< >>, th)
         /\ Waiting(<< >>, th, host)
    BY DEF Chained, Resumed, Saved, Divided, Filled, Waiting
  <1>12. << >> \in Seq(Activations)
    OBVIOUS
  <1>13. Weak(<< >>, th, "no", host)
    BY <1>6, <1>10, <1>11, <1>12 DEF Weak
  <1>14. Start(host) \in State
    <2>1. Start(host) = [th |-> th, C |-> << >>, raise |-> "no"]
      BY <1>3 DEF Start, B, th
    <2> QED
      BY <1>6, <1>12, <2>1 DEF State
  <1> QED
    BY <1>3, <1>8, <1>13, <1>14 DEF th, B

\* The host calls luaD_pcall.
LEMMA InitInv ==
    ASSUME NEW host \in 0 .. MAXCCALLS - 1
    PROVE  Inv(luaD_pcall(Start(host), Main, FALSE), host)
  <1> DEFINE S == Start(host)
             N == << >>
             th == S.th
             T == th[Main]
             a == Activation(S, "pcall", Main, FALSE, FALSE)
             t == [T EXCEPT !.errorJmp = 1, !.errfunc = FALSE]
             u == [th EXCEPT ![Main] = t]
             R == [S EXCEPT !.th = u]
             W == Push(R, a)
             D == Append(N, a)
  <1>1. S \in State /\ Weak(N, th, "no", host) /\ S.C = N /\ S.raise = "no"
        /\ T = NewThread(host, <<"base">>)
    BY StartWeak
  <1>2. host \in Nat /\ host < ERRCCALLS /\ BASIC_CI_SIZE \in Nat /\ 1 <= BASIC_CI_SIZE
        /\ BASIC_CI_SIZE <= 2 * MAXCALLS /\ ERRCCALLS \in Nat
    BY LuaCallAssumption
  <1>3. /\ T \in Thread /\ T.nCcalls = host /\ T.status = "ok" /\ T.ci = <<"base">>
        /\ T.size = BASIC_CI_SIZE /\ T.baseCcalls = 0 /\ T.errorJmp = 0 /\ T.errfunc = FALSE
    BY <1>1, <1>2 DEF NewThread, Thread, Statuses, Frames
  <1>4. Len(T.ci) = 1
    BY <1>3
  <1>5. /\ a \in Activations /\ a.kind = "pcall" /\ a.th = Main /\ a.n = 0 /\ a.ci = 1
        /\ a.previous = 0 /\ a.nCcalls = host /\ a.errfunc = FALSE /\ a.handler = FALSE
    <2>1. a = [kind |-> "pcall", th |-> Main, n |-> 0, handler |-> FALSE, wrap |-> FALSE,
               ci |-> 1, previous |-> 0, nCcalls |-> host, errfunc |-> FALSE]
      BY <1>3, <1>4 DEF Activation
    <2> HIDE DEF a
    <2> QED
      BY <1>2, <2>1 DEF Activations, Kinds, Threads
  <1>6. /\ t \in Thread /\ t.errorJmp = 1 /\ t.errfunc = FALSE /\ t.status = "ok" /\ t.ci = T.ci
        /\ t.size = BASIC_CI_SIZE /\ t.nCcalls = host /\ t.baseCcalls = 0
    <2> HIDE DEF T
    <2> QED
      BY <1>3 DEF Thread
  <1>7. luaD_pcall(S, Main, FALSE) = luaD_call(W, Main, "execute")
    <2>1. Len(S.C) = 0
      BY <1>1
    <2>2. [S EXCEPT !.th[Main].errorJmp = Len(S.C) + 1, !.th[Main].errfunc = FALSE] = R
      <3> HIDE DEF S
      <3> DEFINE f == FALSE
                 x == Main
      <3>1. x \in Threads /\ S \in State /\ T = S.th[x] /\ T \in Thread
        BY <1>1, <1>3 DEF Threads
      <3> HIDE DEF f, x, T
      <3>2. [S EXCEPT !.th[x].errorJmp = 1, !.th[x].errfunc = f]
                = [S EXCEPT !.th = [S.th EXCEPT ![x] = [T EXCEPT !.errorJmp = 1, !.errfunc = f]]]
        <4>1. [S EXCEPT !.th[x].errorJmp = 1]
                = [S EXCEPT !.th = [S.th EXCEPT ![x] = [T EXCEPT !.errorJmp = 1]]]
          BY <3>1
        <4> QED
          BY <3>1, <4>1 DEF State, Thread
      <3> QED
        BY <2>1, <3>2 DEF f, x
    <2> QED
      BY <2>2 DEF luaD_pcall
  <1>8. N \in Seq(Activations) /\ Len(N) = 0 /\ th \in [Threads -> Thread] /\ Main \in Threads
    BY <1>1, StateTypes DEF Threads
  <1> HIDE DEF S, T, a, t, N, th
  <1>9. /\ D \in Seq(Activations) /\ Len(D) = 1 /\ D[1] = a /\ D # << >>
    <2>1. N \in Seq(Activations) /\ a \in Activations /\ Len(N) + 1 = 1
      BY <1>5, <1>8
    <2>2. /\ D \in Seq(Activations) /\ Len(D) = Len(N) + 1 /\ D[Len(N) + 1] = a /\ D # << >>
      BY <2>1, PushLen
    <2> QED
      BY <2>1, <2>2
  <1>10. Count(N, 0) = 0 /\ Count(D, 1) = 0 /\ Innermost(D, 1, Main, 1)
    <2>1. Count(N, 0) = 0
      <3>1. 0 \in 0 .. Len(N)
        BY <1>8
      <3> QED
        BY <1>8, <3>1, CountProperties
    <2>2. Catches(a, Main)
      BY <1>5 DEF Catches
    <2>3. /\ Count(D, Len(N) + 1) = Count(N, Len(N)) + (IF a.kind = "pcall" THEN 0 ELSE 1)
          /\ Innermost(D, Len(N) + 1, Main, Len(N) + 1)
      BY <1>5, <1>8, <2>2, PushCounts
    <2> QED
      BY <1>5, <1>8, <2>1, <2>3
  <1> HIDE DEF D
  <1>11. N = << >>
    BY DEF N
  <1>12. Fits(N, a) /\ Shares(N, a)
    BY <1>5, <1>11 DEF Fits, Shares
  <1>13. Keeps(N, a, host)
    <2>1. Innermost(N, 0, Main, 0)
      BY DEF Innermost
    <2> QED
      <3>1. host + Count(N, Len(N)) = host /\ Len(N) = 0
        BY <1>2, <1>8, <1>10
      <3>2. a.errfunc = (a.previous # 0 /\ N[a.previous].handler)
        BY <1>5
      <3> QED
        BY <1>2, <1>5, <1>11, <2>1, <3>1, <3>2 DEF Keeps
  <1>14. Begins(N, a, th, t, host)
    <2>1. AtTop(a, t, host + Count(D, 1))
      <3>1. host + Count(D, 1) = host /\ Len(t.ci) = 1 /\ a.ci + a.n + 1 = 2
        BY <1>2, <1>4, <1>5, <1>6, <1>10
      <3> QED
        BY <1>6, <3>1 DEF AtTop
    <2>2. \A k \in a.ci + 1 .. a.ci + a.n : FALSE
      BY <1>5
    <2>3. t.baseCcalls = th[a.th].baseCcalls /\ t.ci = th[a.th].ci
      BY <1>3, <1>5, <1>6 DEF T
    <2>4. AtTop(a, t, host + Count(Append(N, a), Len(N) + 1))
      BY <1>8, <2>1 DEF D
    <2>5. a.ci + a.n <= Len(t.ci)
      <3>1. Len(t.ci) = 1
        BY <1>4, <1>6
      <3> QED
        BY <1>5, <3>1
    <2> QED
      BY <1>6, <1>11, <2>2, <2>3, <2>4, <2>5 DEF Begins
  <1>15. u \in [Threads -> Thread] /\ u[Main] = t
    BY <1>6, <1>8
  <1>16. Now(D, u, Main, "no")
    <2>1. Well(D, t)
      <3>1. t.errfunc = (t.errorJmp # 0 /\ D[t.errorJmp].handler)
        BY <1>5, <1>6, <1>9
      <3>2. Len(t.ci) >= 1 /\ Len(t.ci) <= t.size /\ t.size <= 2 * MAXCALLS
        <4>1. Len(t.ci) = 1
          BY <1>4, <1>6
        <4> QED
          BY <1>2, <1>6, <4>1
      <3>3. t.nCcalls <= ERRCCALLS /\ t.status # "YIELD"
        BY <1>2, <1>6
      <3> QED
        BY <3>1, <3>2, <3>3 DEF Well
    <2>2. u[Main].nCcalls # ERRCCALLS
      BY <1>2, <1>6, <1>15
    <2> QED
      BY <1>6, <1>9, <1>10, <1>15, <2>1, <2>2 DEF Now
  <1> HIDE DEF u
  <1>17. Weak(D, u, "no", host)
    <2>1. Rises(N, a, th, t, "no", host)
      BY <1>5, <1>12, <1>13, <1>14, <1>16 DEF Rises, D, u
    <2>2. Weak(Append(N, a), [th EXCEPT ![a.th] = t], "no", host)
      BY <1>1, <1>2, <1>5, <1>6, <1>8, <2>1, RisesWeak
    <2> QED
      BY <1>5, <2>2 DEF D, u
  <1>18. Is(W, D, u, "no")
    <2>1. Is(R, N, u, "no")
      BY <1>1, <1>6, <1>8, ThreadsIs DEF u, th
    <2> HIDE DEF R
    <2> QED
      BY <1>5, <2>1, PushIs DEF Is, D
  <1> HIDE DEF R, W
  <1>19. WeakState(W, host) /\ W.raise = "no" /\ W.C = D /\ W.th = u
    BY <1>9, <1>17, <1>18 DEF WeakState, Is
  <1>20. Cur(W) = Main
    BY <1>5, <1>9, <1>19, StateTypes DEF WeakState
  <1>21. MayBegin(D, u, "execute")
    BY <1>4, <1>5, <1>6, <1>9, <1>15 DEF MayBegin
  <1>22. ProtectsWith(D, "execute")
    BY <1>9 DEF ProtectsWith
  <1>23. Inv(luaD_call(W, Cur(W), "execute"), host)
    BY <1>2, <1>19, <1>21, <1>22, CallInv
  <1> QED
    BY <1>7, <1>20, <1>23 DEF S

-----------------------------------------------------------------------------
(* Returns *)

LEMMA CountGrows ==
    ASSUME NEW C \in Seq(Activations), NEW j \in 0 .. Len(C), NEW m \in j .. Len(C)
    PROVE  Count(C, j) \in Nat /\ Count(C, m) \in Nat /\ Count(C, j) <= Count(C, m)
  <1>1. j \in Nat /\ m \in Nat /\ m \in 0 .. Len(C)
    OBVIOUS
  <1>2. {k \in 1 .. j : C[k].kind # "pcall"} \subseteq {k \in 1 .. m : C[k].kind # "pcall"}
    BY <1>1
  <1>3. IsFiniteSet({k \in 1 .. m : C[k].kind # "pcall"})
    <2>1. IsFiniteSet(1 .. m)
      BY <1>1, FS_Interval
    <2> QED
      BY <2>1, FS_Subset
  <1>4. Count(C, j) <= Count(C, m)
    BY <1>2, <1>3, FS_Subset DEF Count
  <1> QED
    BY <1>1, <1>4, CountProperties

\* The first activations, up to one that luaD_pcall does not call.
LEMMA ProtectsCut ==
    ASSUME NEW C \in Seq(Activations), Protects(C), NEW j \in 1 .. Len(C),
           j > 1 => C[j - 1].kind # "pcall"
    PROVE  Protects(SubSeq(C, 1, j - 1))
  <1> DEFINE D == SubSeq(C, 1, j - 1)
  <1>1. Len(C) \in Nat /\ j - 1 \in 0 .. Len(C)
    OBVIOUS
  <1>2. Len(D) = j - 1 /\ \A i \in 1 .. j - 1 : D[i] = C[i]
    BY <1>1
  <1> HIDE DEF D
  <1>3. ASSUME NEW i \in 1 .. j - 1, D[i].kind = "pcall"
        PROVE  i < j - 1 /\ D[i + 1].kind = "execute"
    <2>1. i \in 1 .. Len(C) /\ C[i].kind = "pcall" /\ i # j - 1
      BY <1>1, <1>2, <1>3
    <2>2. i + 1 \in 1 .. j - 1 /\ i < j - 1
      BY <1>1, <2>1
    <2>3. C[i + 1].kind = "execute"
      BY <2>1 DEF Protects
    <2> QED
      BY <1>2, <2>2, <2>3
  <1>4. Protects(D)
    BY <1>2, <1>3 DEF Protects
  <1> QED
    BY <1>4 DEF D

LEMMA NotPcall ==
    ASSUME NEW C \in Seq(Activations), Protects(C), NEW j \in 1 .. Len(C),
           C[j].kind # "execute"
    PROVE  j > 1 => C[j - 1].kind # "pcall"
  <1> SUFFICES ASSUME j > 1, C[j - 1].kind = "pcall"
               PROVE  FALSE
    OBVIOUS
  <1>1. j - 1 \in 1 .. Len(C) /\ (j - 1) + 1 = j
    OBVIOUS
  <1> QED
    BY <1>1 DEF Protects

\* luaD_pcall, at place j, returns with no error or has caught one; R is the
\* state before its C function returns.
LEMMA PcallReturnsInv ==
    ASSUME NEW C \in Seq(Activations), C # << >>, NEW th \in [Threads -> Thread],
           NEW t \in Thread, NEW raise, NEW host \in Nat, Weak(C, th, raise, host),
           NEW j \in 1 .. Len(C), C[j].th = C[Len(C)].th, C[j].kind = "pcall",
           Protects(SubSeq(C, 1, j - 1)), j > 1 => C[j - 1].kind # "pcall",
           Restored(C[j], t, th[C[Len(C)].th]),
           NEW R, Is(R, SubSeq(C, 1, j - 1), [th EXCEPT ![C[Len(C)].th] = t], "no")
    PROVE  Inv(PcallReturns(R), host)
  <1> DEFINE x == C[Len(C)].th
             D == SubSeq(C, 1, j - 1)
             u == [th EXCEPT ![x] = t]
             b == C[j - 1]
  <1>1. D \in Seq(Activations) /\ u \in [Threads -> Thread] /\ Weak(D, u, "no", host)
    BY Unwinds
  <1>2. Protects(D)
    OBVIOUS
  <1>3. R \in State /\ R.C = D /\ R.th = u /\ R.raise = "no"
    BY DEF Is
  <1>4. Chained(C) /\ Divided(C) /\ Saved(C, host)
    BY DEF Weak
  <1>5. Len(D) = j - 1 /\ (\A i \in 1 .. j - 1 : D[i] = C[i])
    BY <1>4, CutBottom
  <1>6. x \in Threads /\ u[x] = t /\ Len(t.ci) = C[j].ci
    <2>1. Len(C) \in 1 .. Len(C)
      OBVIOUS
    <2>2. x \in Threads
      BY <2>1, ActivationTypes
    <2> QED
      BY <2>2 DEF Restored
  <1> HIDE DEF D, u
  <1>7. CASE D = << >>
    BY <1>1, <1>2, <1>3, <1>7 DEF Inv, PcallReturns
  <1>8. CASE D # << >>
    <2>1. j \in 2 .. Len(C) /\ j - 1 \in 1 .. Len(C) /\ j - 1 \in 1 .. j - 1 /\ j > 1
      BY <1>1, <1>5, <1>8
    <2>2. D[Len(D)] = b /\ b.th = x
      BY <1>4, <1>5, <2>1 DEF Chained
    <2>3. b.kind # "pcall"
      BY <2>1
    <2>4. b.n >= 1 /\ C[j].ci = b.ci + b.n + 1
      BY <1>4, <2>1, <2>3 DEF Divided
    <2>5. L(R) = t
      BY <1>3, <1>6, <1>8, <2>2, StateTypes
    <2>6. Ready(R, host)
      BY <1>1, <1>2, <1>3, <1>6, <1>8, <2>2, <2>4, <2>5 DEF Ready, WeakState
    <2> QED
      BY <1>3, <1>8, <2>6, poscallInv DEF PcallReturns
  <1> QED
    BY <1>7, <1>8

\* A coroutine leaves the chain; the thread that resumed it runs.
LEMMA LeavesReady ==
    ASSUME NEW C \in Seq(Activations), C # << >>, NEW th \in [Threads -> Thread],
           NEW t \in Thread, NEW raise, NEW host \in Nat, Weak(C, th, raise, host), Protects(C),
           NEW j \in 1 .. Len(C), C[j].th = C[Len(C)].th, C[j].kind = "resume", Left(t),
           NEW R, Is(R, SubSeq(C, 1, j - 1), [th EXCEPT ![C[Len(C)].th] = t], "no")
    PROVE  Ready(R, host)
  <1> DEFINE x == C[Len(C)].th
             D == SubSeq(C, 1, j - 1)
             u == [th EXCEPT ![x] = t]
             b == C[j - 1]
  <1>1. /\ D \in Seq(Activations) /\ u \in [Threads -> Thread] /\ Weak(D, u, "no", host)
        /\ j > 1 /\ b.th \in Threads /\ b.th # x /\ Len(th[b.th].ci) = b.ci + b.n + 1
    <2>1. /\ D \in Seq(Activations) /\ u \in [Threads -> Thread] /\ Weak(D, u, "no", host)
      BY Leaves
    <2>2. Weak(SubSeq(C, 1, j - 1), [th EXCEPT ![C[Len(C)].th] = t], "no", host) /\ Resumer(C, th, j)
      BY Leaves
    <2> QED
      BY <2>1, <2>2 DEF Resumer
  <1>2. Protects(D)
    BY NotPcall, ProtectsCut
  <1>3. R \in State /\ R.C = D /\ R.th = u /\ R.raise = "no"
    BY DEF Is
  <1>4. Divided(C) /\ Saved(C, host)
    BY DEF Weak
  <1>5. Len(D) = j - 1 /\ (\A i \in 1 .. j - 1 : D[i] = C[i])
    BY <1>4, CutBottom
  <1>6. u[b.th] = th[b.th]
    BY <1>1
  <1> HIDE DEF D, u
  <1>7. j \in 2 .. Len(C) /\ j - 1 \in 1 .. j - 1 /\ D # << >>
    BY <1>1, <1>5
  <1>8. D[Len(D)] = b
    BY <1>5, <1>7
  <1>9. b.n >= 1
    BY <1>4, <1>7, NotPcall DEF Divided
  <1>10. L(R) = th[b.th]
    BY <1>3, <1>6, <1>7, <1>8, StateTypes
  <1> QED
    BY <1>1, <1>2, <1>3, <1>7, <1>8, <1>9, <1>10 DEF Ready, WeakState

\* The Lua function that runs returns.
Shorter(S) == [L(S) EXCEPT !.ci = SubSeq(L(S).ci, 1, Len(L(S).ci) - 1)]
Fewer(S) == [S.C EXCEPT ![Len(S.C)] = [S.C[Len(S.C)] EXCEPT !.n = S.C[Len(S.C)].n - 1]]

LEMMA ReturnedIs ==
    ASSUME NEW host \in Nat, WeakState(s, host), s.raise = "no", s.C[Len(s.C)].n >= 1
    PROVE  /\ Shorter(s) \in Thread
           /\ Shorter(s).ci = SubSeq(L(s).ci, 1, Len(L(s).ci) - 1)
           /\ Shorter(s).size = L(s).size
           /\ Same(Shorter(s), L(s))
           /\ Fewer(s) \in Seq(Activations) /\ Len(Fewer(s)) = Len(s.C)
           /\ Fewer(s)[Len(s.C)].n = s.C[Len(s.C)].n - 1
           /\ \A i \in 1 .. Len(s.C) : Alike(Fewer(s)[i], s.C[i])
           /\ \A i \in 1 .. Len(s.C) - 1 : Fewer(s)[i] = s.C[i]
           /\ Changes(Returned, s, Fewer(s), Shorter(s), "no")
  <1> DEFINE C == s.C
             m == Len(C)
             a == C[m]
             ci == SubSeq(L(s).ci, 1, Len(L(s).ci) - 1)
             t == [L(s) EXCEPT !.ci = ci]
             b == [a EXCEPT !.n = a.n - 1]
             D == [C EXCEPT ![m] = b]
             R == poscall(s)
  <1>1. /\ C \in Seq(Activations) /\ m \in Nat /\ m \in 1 .. m /\ a \in Activations
        /\ a.ci \in Nat /\ a.n \in Nat /\ a.ci >= 1 /\ Len(L(s).ci) \in Nat
        /\ a.ci + a.n <= Len(L(s).ci)
        /\ L(s) \in Thread /\ s \in State /\ C # << >>
    BY RunningThread DEF WeakState
  <1>2. ci \in Seq(Frames) /\ Changes(R, s, C, t, "no")
    <2>1. Len(L(s).ci) >= 1
      BY <1>1
    <2> QED
      BY <1>1, <2>1, poscallIs
  <1>3. t \in Thread /\ t.ci = ci /\ t.size = L(s).size /\ Same(t, L(s))
    <2>1. L(s).size \in Nat
      BY RunningThread
    <2> HIDE DEF ci
    <2> QED
      BY <1>1, <1>2, <2>1, ThreadExcept
  <1>4. b \in Activations /\ b.n = a.n - 1 /\ Alike(b, a)
    <2>1. a.n - 1 \in Nat
      BY <1>1
    <2> HIDE DEF a
    <2> QED
      BY <1>1, <2>1, ActivationExcept
  <1>5. D \in Seq(Activations) /\ Len(D) = m /\ D[m] = b /\ \A i \in 1 .. m : i # m => D[i] = C[i]
    <2> HIDE DEF b
    <2> QED
      BY <1>1, <1>4
  <1>6. Returned = [R EXCEPT !.C = D]
    <2>1. R.C = C /\ R \in State
      BY <1>2 DEF Changes, Is
    <2>2. Returned = [R EXCEPT !.C = [R.C EXCEPT ![m] = [R.C[m] EXCEPT !.n = R.C[m].n - 1]]]
      BY DEF Returned, poscall
    <2> QED
      BY <2>1, <2>2
  <1> HIDE DEF a, b, ci, t, R, D, C, m
  <1>7. Changes(Returned, s, D, t, "no")
    BY <1>2, <1>5, <1>6 DEF Changes, Is, State
  <1>8. \A i \in 1 .. m : Alike(D[i], C[i])
    BY <1>4, <1>5 DEF Alike, a
  <1>9. \A i \in 1 .. m - 1 : D[i] = C[i]
    BY <1>1, <1>5
  <1>10. t = Shorter(s) /\ D = Fewer(s) /\ ci = SubSeq(L(s).ci, 1, Len(L(s).ci) - 1)
    BY DEF Shorter, Fewer, t, D, ci, b, a, m, C
  <1>11. C = s.C /\ m = Len(s.C) /\ a = s.C[Len(s.C)]
    BY DEF C, m, a
  <1> HIDE DEF C, m
  <1>12. D[m].n = a.n - 1
    BY <1>4, <1>5
  <1> QED
    BY <1>3, <1>5, <1>7, <1>8, <1>9, <1>10, <1>11, <1>12

\* In the same luaV_execute.
LEMMA ReturnInv ==
    ASSUME NEW host \in Nat, Inv(s, host), s.C # << >>, s.raise = "no", Last(s.C).n > 1
    PROVE  Inv(Returned, host)
  <1> DEFINE C == s.C
             m == Len(C)
             a == C[m]
             D == Fewer(s)
             t == Shorter(s)
  <1>1. WeakState(s, host) /\ Protects(C) /\ Exact(s)
    BY DEF Inv, WeakState
  <1>2. /\ C \in Seq(Activations) /\ m \in Nat /\ m \in 1 .. m /\ a \in Activations
        /\ a.ci \in Nat /\ a.n \in Nat /\ a.ci >= 1 /\ Len(L(s).ci) \in Nat
        /\ L(s) \in Thread /\ L(s).ci \in Seq(Frames) /\ L(s).size \in Nat
        /\ Len(L(s).ci) <= L(s).size /\ L(s).size <= 2 * MAXCALLS
        /\ \A k \in a.ci + 1 .. a.ci + a.n : L(s).ci[k] = "Lua"
        /\ a.kind = "pcall" => a.n = 0
    BY <1>1, RunningThread
  <1>3. Last(C) = a /\ a.n > 1 /\ Len(L(s).ci) = a.ci + a.n /\ a.kind # "pcall"
    BY <1>1, <1>2, StateTypes DEF WeakState, Exact
  <1>4. /\ t \in Thread /\ t.ci = SubSeq(L(s).ci, 1, Len(L(s).ci) - 1) /\ t.size = L(s).size
        /\ Same(t, L(s))
        /\ D \in Seq(Activations) /\ Len(D) = m /\ D[m].n = a.n - 1
        /\ (\A i \in 1 .. m : Alike(D[i], C[i])) /\ (\A i \in 1 .. m - 1 : D[i] = C[i])
        /\ Changes(Returned, s, D, t, "no")
    BY <1>1, <1>2, <1>3, ReturnedIs
  <1> HIDE DEF C, m, a, D, t
  <1>5. Len(t.ci) = a.ci + a.n - 1 /\ \A k \in 1 .. a.ci + a.n - 1 : t.ci[k] = L(s).ci[k]
    BY <1>2, <1>3, <1>4
  <1>6. D[m].ci = a.ci /\ D[m].n = a.n - 1 /\ D[m].kind = a.kind
    BY <1>2, <1>4 DEF Alike, a
  <1>7. Runs(D[m], t, L(s))
    <2> DEFINE p == a.ci
               n == a.n - 1
    <2>1. p \in Nat /\ n \in Nat /\ n >= 1
      BY <1>2, <1>3
    <2>2. a.n = n + 1 /\ D[m].ci = p /\ D[m].n = n /\ Len(t.ci) = p + n
      BY <1>2, <1>5, <1>6
    <2>3. \A k \in 1 .. p + n : t.ci[k] = L(s).ci[k]
      BY <1>2, <1>5
    <2>4. \A k \in p + 1 .. p + (n + 1) : L(s).ci[k] = "Lua"
      BY <1>2, <2>2
    <2> HIDE DEF p, n
    <2>5. \A k \in 1 .. p : k \in 1 .. p + n
      BY <2>1
    <2>6. \A k \in p + 1 .. p + n : k \in 1 .. p + n /\ k \in p + 1 .. p + (n + 1)
      BY <2>1
    <2>7. p + n <= Len(t.ci) /\ Len(t.ci) <= p + n + 1 /\ Len(t.ci) # p + n + 1
      BY <2>1, <2>2
    <2>8. Len(t.ci) <= t.size
      <3>1. Len(t.ci) <= Len(L(s).ci)
        BY <1>2, <1>3, <1>5
      <3>2. Len(t.ci) \in Nat
        BY <2>1, <2>2
      <3> QED
        BY <1>2, <1>4, <3>1, <3>2
    <2> QED
      BY <1>2, <1>4, <2>2, <2>3, <2>4, <2>5, <2>6, <2>7, <2>8 DEF Runs
  <1>8. Bottom(C, D)
    <2>1. Divided(C)
      BY <1>1 DEF WeakState, Weak, C
    <2>2. \A i \in 1 .. m : C[i].kind = "pcall" => C[i].n = 0
      BY <2>1 DEF Divided, m
    <2>3. \A i \in 1 .. m - 1 : i \in 1 .. m
      BY <1>2
    <2>4. \A i \in 1 .. m : i = m \/ i \in 1 .. m - 1
      BY <1>2
    <2>5. \A i \in 1 .. m : D[i].kind = "pcall" => D[i].n = 0
      BY <1>3, <1>4, <1>6, <2>2, <2>4
    <2>6. Len(D) <= Len(C)
      BY <1>2, <1>4 DEF m
    <2> QED
      BY <1>4, <2>3, <2>5, <2>6 DEF Bottom
  <1>9. TopStep(s, Returned, D, t, "no")
    BY <1>4, <1>7, <1>8 DEF TopStep, C, m
  <1>10. WeakState(Returned, host) /\ L(Returned) = t /\ Last(Returned.C) = D[m]
         /\ Returned.C = D /\ Returned.raise = "no"
    BY <1>1, <1>4, <1>9, TopState DEF C, m
  <1>11. Protects(D)
    <2>1. \A i \in 1 .. m : D[i].kind = C[i].kind
      BY <1>4 DEF Alike
    <2>2. \A i \in 1 .. m : C[i].kind = "pcall" => i < m /\ C[i + 1].kind = "execute"
      BY <1>1 DEF Protects, m
    <2>3. \A i \in 1 .. m : i < m => i + 1 \in 1 .. m
      BY <1>2
    <2> QED
      BY <1>4, <2>1, <2>2, <2>3 DEF Protects
  <1>12. Exact(Returned)
    <2>1. Len(t.ci) = D[m].ci + D[m].n /\ D[m].n >= 1
      BY <1>2, <1>3, <1>5, <1>6
    <2> QED
      BY <1>10, <2>1 DEF Exact
  <1> QED
    BY <1>10, <1>11, <1>12 DEF Inv, WeakState

\* The last activation ends, and the running thread is t.
Ended(R, S, t, r) == Is(R, SubSeq(S.C, 1, Len(S.C) - 1), [S.th EXCEPT ![S.C[Len(S.C)].th] = t], r)

LEMMA EndIs ==
    ASSUME NEW S \in State, S.C # << >>, NEW t \in Thread
    PROVE  Ended(Pop([S EXCEPT !.th = [S.th EXCEPT ![Cur(S)] = t]]), S, t, S.raise)
  <1> DEFINE u == [S.th EXCEPT ![Cur(S)] = t]
             R == [S EXCEPT !.th = u]
  <1>1. Cur(S) \in Threads /\ Cur(S) = S.C[Len(S.C)].th
    BY StateTypes
  <1>2. Is(R, S.C, u, S.raise)
    BY <1>1, ThreadsIs
  <1>3. Is(Pop(R), SubSeq(S.C, 1, Len(S.C) - 1), u, S.raise)
    <2> HIDE DEF R, u
    <2> QED
      BY <1>2, PopIs DEF Is
  <1> QED
    BY <1>1, <1>3 DEF Ended

\* luaD_call ends.
Called(T) == [T EXCEPT !.nCcalls = T.nCcalls - 1]

LEMMA LeaveCIs ==
    ASSUME NEW S \in State, S.C # << >>, L(S).nCcalls >= 1
    PROVE  Called(L(S)) \in Thread /\ Ended(LeaveC(S), S, Called(L(S)), S.raise)
  <1> DEFINE x == Cur(S)
             t == Called(L(S))
  <1>1. x \in Threads /\ L(S) = S.th[x] /\ L(S) \in Thread
    BY StateTypes
  <1>2. t \in Thread
    <2>1. L(S).nCcalls - 1 \in Nat
      BY <1>1 DEF Thread
    <2> QED
      BY <1>1, <2>1 DEF Thread, Called
  <1>3. LeaveC(S) = Pop([S EXCEPT !.th = [S.th EXCEPT ![x] = t]])
    BY <1>1 DEF LeaveC, Called
  <1> QED
    BY <1>2, <1>3, EndIs

\* lua_resume ends.
ResumeEnded(T, previous, status) ==
    [T EXCEPT !.errorJmp = previous, !.nCcalls = T.nCcalls - 1, !.status = status]

LEMMA ResumeEndedThread ==
    ASSUME NEW T \in Thread, NEW previous \in Nat, NEW status \in Statuses, T.nCcalls >= 1
    PROVE  LET t == ResumeEnded(T, previous, status)
           IN  /\ t \in Thread /\ t.ci = T.ci /\ t.size = T.size /\ t.errfunc = T.errfunc
               /\ t.errorJmp = previous /\ t.nCcalls = T.nCcalls - 1 /\ t.status = status
  <1>1. T.nCcalls - 1 \in Nat
    BY DEF Thread
  <1> QED
    BY <1>1 DEF Thread, ResumeEnded

\* The three updates of a thread of S, at place x.
Updated(S, x, previous, status) ==
    [S EXCEPT !.th[x].errorJmp = previous, !.th[x].nCcalls = @ - 1, !.th[x].status = status]

LEMMA ResumeEndedIs ==
    ASSUME NEW S \in State, NEW x \in Threads, NEW previous, NEW status
    PROVE  Updated(S, x, previous, status)
               = [S EXCEPT !.th = [S.th EXCEPT ![x] = ResumeEnded(S.th[x], previous, status)]]
  <1> DEFINE T == S.th[x]
             T1 == [T EXCEPT !.errorJmp = previous]
             T2 == [T EXCEPT !.errorJmp = previous, !.nCcalls = T.nCcalls - 1]
             S1 == [S EXCEPT !.th[x].errorJmp = previous]
             S2 == [S EXCEPT !.th[x].errorJmp = previous, !.th[x].nCcalls = @ - 1]
  <1>1. S.th \in [Threads -> Thread] /\ T \in Thread
    BY StateTypes
  <1>2. T1.nCcalls = T.nCcalls
    BY <1>1 DEF Thread
  <1>3. S1 = [S EXCEPT !.th = [S.th EXCEPT ![x] = T1]] /\ S1.th[x] = T1
    BY <1>1 DEF State
  <1>4. S2 = [S1 EXCEPT !.th = [S1.th EXCEPT ![x] = [S1.th[x] EXCEPT !.nCcalls = S1.th[x].nCcalls - 1]]]
    OBVIOUS
  <1>5. S2 = [S EXCEPT !.th = [S.th EXCEPT ![x] = T2]]
    <2>1. [T1 EXCEPT !.nCcalls = T1.nCcalls - 1] = T2
      BY <1>1, <1>2
    <2>2. S2 = [S1 EXCEPT !.th = [S1.th EXCEPT ![x] = T2]]
      <3> HIDE DEF T1, T2, S2, S1
      <3> QED
        BY <1>3, <1>4, <2>1
    <2> HIDE DEF T1, T2, S2, S1, T
    <2>3. [S1 EXCEPT !.th = [S1.th EXCEPT ![x] = T2]] = [S EXCEPT !.th = [S.th EXCEPT ![x] = T2]]
      BY <1>1, <1>3 DEF State
    <2> QED
      BY <2>2, <2>3
  <1>6. S2.th[x] = T2
    <2> HIDE DEF T2, S2
    <2> QED
      BY <1>1, <1>5 DEF State
  <1>7. Updated(S, x, previous, status)
            = [S2 EXCEPT !.th = [S2.th EXCEPT ![x] = [S2.th[x] EXCEPT !.status = status]]]
    BY DEF Updated
  <1>8. [T2 EXCEPT !.status = status] = ResumeEnded(T, previous, status)
    BY DEF ResumeEnded
  <1>9. [S2 EXCEPT !.th = [S2.th EXCEPT ![x] = [T2 EXCEPT !.status = status]]]
            = [S EXCEPT !.th = [S.th EXCEPT ![x] = [T2 EXCEPT !.status = status]]]
    <2> DEFINE t == [T2 EXCEPT !.status = status]
    <2> HIDE DEF t, T2, S2, T
    <2>1. [S2 EXCEPT !.th = [S2.th EXCEPT ![x] = t]] = [S EXCEPT !.th = [S.th EXCEPT ![x] = t]]
      BY <1>1, <1>5 DEF State
    <2> QED
      BY <2>1 DEF t
  <1> QED
    BY <1>6, <1>7, <1>8, <1>9

LEMMA lua_resumeReturnsIs ==
    ASSUME NEW S \in State, S.C # << >>, L(S).nCcalls >= 1, NEW status \in Statuses
    PROVE  LET t == ResumeEnded(L(S), S.C[Len(S.C)].previous, status)
           IN  \E R : /\ lua_resumeReturns(S, Cur(S), status) = poscall(R)
                      /\ t \in Thread
                      /\ Ended(R, S, t, S.raise)
  <1> DEFINE x == Cur(S)
             p == S.C[Len(S.C)].previous
             t == ResumeEnded(L(S), p, status)
             R == Pop([S EXCEPT !.th = [S.th EXCEPT ![x] = t]])
  <1>1. /\ x \in Threads /\ L(S) = S.th[x] /\ L(S) \in Thread /\ Last(S.C) = S.C[Len(S.C)]
        /\ S.C \in Seq(Activations) /\ Len(S.C) \in 1 .. Len(S.C)
    BY StateTypes
  <1>2. p \in Nat
    BY <1>1, ActivationTypes
  <1>3. t \in Thread
    <2> HIDE DEF p
    <2> QED
      BY <1>1, <1>2, ResumeEndedThread
  <1>4. Ended(R, S, t, S.raise)
    <2> HIDE DEF t
    <2> QED
      BY <1>3, EndIs
  <1>5. lua_resumeReturns(S, x, status) = poscall(R)
    <2>1. Updated(S, x, p, status) = [S EXCEPT !.th = [S.th EXCEPT ![x] = t]]
      <3> HIDE DEF x, p
      <3> QED
        BY <1>1, ResumeEndedIs
    <2> QED
      BY <1>1, <2>1 DEF lua_resumeReturns, Updated
  <1> QED
    BY <1>3, <1>4, <1>5

\* What luaD_call has kept of the thread is what the thread still has.
LEMMA CallKept ==
    ASSUME NEW S, NEW host \in Nat, WeakState(S, host),
           S.C[Len(S.C)].kind \in {"execute", "handler", "resume"}
    PROVE  LET a == S.C[Len(S.C)]
               T == L(S)
           IN  /\ T.nCcalls \in Nat /\ T.nCcalls >= 1 /\ T.nCcalls - 1 = a.nCcalls
               /\ a.nCcalls < ERRCCALLS /\ a.nCcalls \in Nat
               /\ a.kind # "resume" =>
                      T.errorJmp = a.previous /\ T.errfunc = a.errfunc /\ Len(S.C) > 1
               /\ a.kind = "resume" => T.errorJmp = Len(S.C) /\ ~ T.errfunc /\ a.previous = 0
  <1> DEFINE C == S.C
             m == Len(C)
             a == C[m]
             T == L(S)
             x == Cur(S)
  <1>1. /\ C \in Seq(Activations) /\ m \in Nat /\ m \in 1 .. m /\ x \in Threads /\ a.th = x
        /\ T.errorJmp \in 1 .. m /\ Innermost(C, m, x, T.errorJmp)
        /\ T.nCcalls \in Nat /\ T.nCcalls = host + Count(C, m)
        /\ S.th[x] = T /\ T \in Thread /\ C # << >> /\ S.th \in [Threads -> Thread]
    BY RunningThread DEF WeakState
  <1>2. Chained(C) /\ Saved(C, host) /\ Divided(C) /\ TopThread(C, S.th, host)
    BY WeakTop DEF WeakState, Weak
  <1>3. SavedAt(C, m, host)
    BY <1>1, <1>2, CutBottom
  <1>4. /\ a.nCcalls = host + Count(C, m - 1) /\ a.nCcalls < ERRCCALLS /\ a.nCcalls \in Nat
        /\ Innermost(C, m - 1, x, a.previous)
        /\ a.errfunc = (a.previous # 0 /\ C[a.previous].handler)
    BY <1>1, <1>3 DEF SavedAt
  <1>5. T.errfunc = C[T.errorJmp].handler
    BY <1>1, <1>2 DEF TopThread
  <1>6. Count(C, m) = Count(C, m - 1) + 1 /\ Count(C, m - 1) \in Nat
    <2>1. m - 1 \in 0 .. Len(C) /\ m - 1 < Len(C) /\ (m - 1) + 1 = m /\ a.kind # "pcall"
      BY <1>1
    <2> QED
      BY <1>1, <2>1, CountProperties
  <1>7. T.nCcalls >= 1 /\ T.nCcalls - 1 = a.nCcalls
    BY <1>1, <1>4, <1>6
  <1>8. ASSUME a.kind # "resume"
        PROVE  T.errorJmp = a.previous /\ T.errfunc = a.errfunc /\ m > 1
    <2>1. m > 1
      <3>1. C[1].kind = "pcall"
        BY <1>1, <1>2 DEF Chained
      <3>2. C[m].kind # "pcall"
        OBVIOUS
      <3> HIDE DEF C, m
      <3> QED
        BY <1>1, <3>1, <3>2
    <2>2. ~ Catches(a, x)
      BY <1>8 DEF Catches
    <2> HIDE DEF a, C, T, m
    <2>3. T.errorJmp # m
      BY <1>1, <2>2 DEF Innermost, a
    <2>4. Innermost(C, m - 1, x, T.errorJmp)
      BY <1>1, <2>3 DEF Innermost
    <2>5. T.errorJmp = a.previous
      <3>1. m - 1 \in Nat
        BY <1>1
      <3> QED
        BY <1>4, <2>4, <3>1, InnermostUnique
    <2>6. a.previous # 0
      BY <1>1, <2>5
    <2>7. T.errfunc = a.errfunc
      <3>1. C[T.errorJmp].handler \in BOOLEAN
        BY <1>1, ActivationTypes DEF m
      <3> QED
        BY <1>4, <1>5, <2>5, <2>6, <3>1
    <2> QED
      BY <2>1, <2>5, <2>7
  <1>9. ASSUME a.kind = "resume"
        PROVE  T.errorJmp = m /\ ~ T.errfunc /\ a.previous = 0
    <2>1. Catches(a, x)
      BY <1>1, <1>9 DEF Catches
    <2>2. T.errorJmp = m
      <3> HIDE DEF C, T, x, m
      <3> QED
        BY <1>1, <2>1 DEF Innermost
    <2>3. ~ a.handler
      BY <1>1, <1>2, <1>9 DEF Saved
    <2>4. \A i \in 1 .. m - 1 : C[i].th # x
      <3>1. m # 1
        BY <1>1, <1>2, <1>9 DEF Chained
      <3>2. m \in 2 .. m
        <4> HIDE DEF m
        <4> QED
          BY <1>1, <3>1
      <3> QED
        BY <1>1, <1>2, <1>9, <3>2 DEF Chained
    <2>5. a.previous = 0
      <3>1. a.previous \in 0 .. m - 1 /\ (a.previous # 0 => C[a.previous].th = x)
        BY <1>4 DEF Innermost, Catches
      <3> HIDE DEF a, m
      <3> QED
        BY <1>1, <2>4, <3>1
    <2> QED
      BY <1>5, <2>2, <2>3, <2>5
  <1> QED
    BY <1>4, <1>1, <1>7, <1>8, <1>9

\* The last Lua function of the activation returns: the state is R once luaD_call
\* or lua_resume has ended, with t for the running thread.
LEMMA ReturnedEnds ==
    ASSUME NEW host \in Nat, WeakState(s, host), s.raise = "no", s.C[Len(s.C)].n = 1,
           NEW t, NEW R, Ended(R, Returned, t, "no")
    PROVE  Ended(R, s, t, "no")
  <1> DEFINE C == s.C
             m == Len(C)
             D == Fewer(s)
             x == C[m].th
             u == [s.th EXCEPT ![x] = Shorter(s)]
  <1>1. /\ D \in Seq(Activations) /\ Len(D) = m /\ (\A i \in 1 .. m : Alike(D[i], C[i]))
        /\ (\A i \in 1 .. m - 1 : D[i] = C[i]) /\ Changes(Returned, s, D, Shorter(s), "no")
    <2>1. s.C[Len(s.C)].n >= 1
      OBVIOUS
    <2> QED
      BY <2>1, ReturnedIs
  <1>2. C \in Seq(Activations) /\ m \in Nat /\ m \in 1 .. m
    BY RunningThread
  <1>3. Returned.C = D /\ Returned.th = u
    BY <1>1 DEF Changes, Is
  <1>4. D[Len(D)].th = x
    BY <1>1, <1>2 DEF Alike
  <1> HIDE DEF D, m, C
  <1>5. SubSeq(D, 1, m - 1) = SubSeq(C, 1, m - 1)
    <2>1. \A i \in 1 .. m - 1 : i \in 1 .. m
      BY <1>2
    <2> QED
      BY <1>1, <1>2, <2>1
  <1>6. [u EXCEPT ![x] = t] = [s.th EXCEPT ![x] = t]
    OBVIOUS
  <1> HIDE DEF u, x
  <1>7. Is(R, SubSeq(D, 1, m - 1), [u EXCEPT ![x] = t], "no")
    BY <1>1, <1>3, <1>4 DEF Ended
  <1> QED
    BY <1>5, <1>6, <1>7 DEF Ended, C, m, x

\* luaD_call ends, in the state R.
LEMMA LeaveCWeak ==
    ASSUME NEW host \in Nat, Inv(s, host), s.C # << >>, s.raise = "no",
           s.C[Len(s.C)].kind \in {"execute", "handler"}, s.C[Len(s.C)].n = 1
    PROVE  /\ WeakState(LeaveC(Returned), host)
           /\ LeaveC(Returned).C = SubSeq(s.C, 1, Len(s.C) - 1)
           /\ LeaveC(Returned).raise = "no"
           /\ Cur(LeaveC(Returned)) = Cur(s)
           /\ Len(L(LeaveC(Returned)).ci) = s.C[Len(s.C)].ci
           /\ Len(s.C) > 1
  <1> DEFINE C == s.C
             m == Len(C)
             a == C[m]
             x == C[m].th
             T == L(s)
             t == Called(Shorter(s))
             R == LeaveC(Returned)
             D == SubSeq(C, 1, m - 1)
             u == [s.th EXCEPT ![x] = t]
  <1>1. WeakState(s, host) /\ Exact(s) /\ C # << >> /\ Weak(C, s.th, "no", host)
    BY DEF Inv, WeakState
  <1>2. /\ C \in Seq(Activations) /\ m \in Nat /\ m \in 1 .. m /\ a \in Activations
        /\ a.ci \in Nat /\ a.n \in Nat /\ a.ci >= 1 /\ Len(T.ci) \in Nat
        /\ T \in Thread /\ T.ci \in Seq(Frames) /\ T.size \in Nat
        /\ Len(T.ci) <= T.size /\ T.size <= 2 * MAXCALLS /\ T.status = "ok"
        /\ s.th \in [Threads -> Thread] /\ s.th[x] = T /\ x \in Threads /\ x = Cur(s)
    BY <1>1, RunningThread
  <1>3. Len(T.ci) = a.ci + 1
    <2>1. Last(C) = a
      BY <1>1, StateTypes DEF WeakState
    <2> QED
      BY <1>1, <1>2, <2>1 DEF Exact
  <1>4. /\ T.nCcalls \in Nat /\ T.nCcalls >= 1 /\ T.nCcalls - 1 = a.nCcalls /\ a.nCcalls \in Nat
        /\ T.errorJmp = a.previous /\ T.errfunc = a.errfunc /\ m > 1
    <2>1. a.kind \in {"execute", "handler", "resume"} /\ a.kind # "resume"
      OBVIOUS
    <2> HIDE DEF a, T, m, C
    <2> QED
      BY <1>1, <2>1, CallKept DEF a, T, m, C
  <1>5. /\ Shorter(s) \in Thread /\ Shorter(s).ci = SubSeq(T.ci, 1, Len(T.ci) - 1)
        /\ Shorter(s).size = T.size /\ Same(Shorter(s), T)
        /\ Fewer(s) \in Seq(Activations) /\ Len(Fewer(s)) = m
        /\ \A i \in 1 .. m : Alike(Fewer(s)[i], C[i])
        /\ Changes(Returned, s, Fewer(s), Shorter(s), "no")
    <2>1. a.n >= 1
      OBVIOUS
    <2> QED
      BY <1>1, <2>1, ReturnedIs
  <1>6. Returned \in State /\ Returned.C # << >> /\ L(Returned) = Shorter(s) /\ Returned.raise = "no"
    <2>1. /\ Returned \in State /\ Returned.C = Fewer(s) /\ Returned.raise = "no"
          /\ Returned.th = [s.th EXCEPT ![x] = Shorter(s)]
      BY <1>5 DEF Changes, Is
    <2>2. Fewer(s) # << >> /\ Fewer(s)[Len(Fewer(s))].th = x
      BY <1>2, <1>5 DEF Alike
    <2> QED
      BY <1>2, <2>1, <2>2, StateTypes
  <1> HIDE DEF C, m, a, x, T
  <1>7. /\ t \in Thread /\ t.ci = SubSeq(T.ci, 1, Len(T.ci) - 1) /\ t.size = T.size
        /\ t.status = T.status /\ t.baseCcalls = T.baseCcalls
        /\ t.nCcalls = a.nCcalls /\ t.errorJmp = a.previous /\ t.errfunc = a.errfunc
    BY <1>4, <1>5 DEF Called, Thread, Same
  <1>8. Ended(R, s, t, "no")
    <2>1. L(Returned).nCcalls >= 1
      BY <1>4, <1>5, <1>6 DEF Same
    <2>2. Ended(R, Returned, t, "no")
      BY <1>6, <2>1, LeaveCIs
    <2> HIDE DEF R, t
    <2> QED
      BY <1>1, <2>2, ReturnedEnds
  <1> HIDE DEF t, R
  <1>9. Restored(a, t, T)
    <2>1. Len(t.ci) = a.ci /\ \A k \in 1 .. a.ci : t.ci[k] = T.ci[k]
      BY <1>2, <1>3, <1>7
    <2>2. Len(t.ci) <= t.size
      BY <1>2, <1>3, <1>7, <2>1
    <2> QED
      BY <1>2, <1>7, <2>1, <2>2 DEF Restored
  <1>10. D \in Seq(Activations) /\ u \in [Threads -> Thread] /\ Weak(D, u, "no", host)
    <2>1. a.kind # "resume" /\ a.th = C[Len(C)].th /\ m = Len(C) /\ a = C[m] /\ x = C[Len(C)].th
      BY DEF a, m, C, x
    <2>2. m \in 1 .. Len(C)
      BY <1>2, <2>1
    <2> QED
      BY <1>1, <1>2, <1>7, <1>9, <2>1, <2>2, Unwinds
  <1>11. R \in State /\ R.C = D /\ R.th = u /\ R.raise = "no"
    BY <1>8 DEF Ended, Is, D, u, C, m, x
  <1>12. Chained(C) /\ Saved(C, host) /\ Divided(C)
    BY <1>1 DEF Weak
  <1>13. Len(D) = m - 1 /\ \A i \in 1 .. m - 1 : D[i] = C[i]
    BY <1>2, <1>12, CutBottom DEF m
  <1>14. u[x] = t
    BY <1>2
  <1> HIDE DEF D, u
  <1>15. D # << >> /\ m - 1 \in 1 .. m - 1 /\ m \in 2 .. m
    BY <1>2, <1>4, <1>13
  <1>16. D[Len(D)].th = x
    <2>1. C[m].kind # "resume" /\ m = Len(C) /\ x = C[m].th
      BY DEF a, m, C, x
    <2>2. C[m].th = C[m - 1].th
      BY <1>12, <1>15, <2>1 DEF Chained
    <2> QED
      BY <1>13, <1>15, <2>1, <2>2
  <1>17. WeakState(R, host)
    BY <1>10, <1>11, <1>15 DEF WeakState
  <1>18. Cur(R) = x /\ L(R) = t
    BY <1>11, <1>14, <1>15, <1>16, StateTypes
  <1>19. Len(t.ci) = a.ci
    BY <1>9 DEF Restored
  <1> QED
    BY <1>2, <1>4, <1>11, <1>17, <1>18, <1>19 DEF R, D, C, m, a

LEMMA ReturnFromHandlerInv ==
    ASSUME NEW host \in Nat, Inv(s, host), s.C # << >>, s.raise = "no",
           s.C[Len(s.C)].kind = "handler", s.C[Len(s.C)].n = 1
    PROVE  Inv(Raise(LeaveC(Returned), "ERRRUN"), host)
  <1> DEFINE R == LeaveC(Returned)
             C == s.C
             m == Len(C)
  <1>1. WeakState(R, host) /\ R.C = SubSeq(C, 1, m - 1) /\ R.raise = "no"
    BY LeaveCWeak
  <1>2. C \in Seq(Activations) /\ m \in 1 .. Len(C) /\ Protects(C)
    BY StateTypes DEF Inv
  <1>3. Protects(SubSeq(C, 1, m - 1))
    <2>1. C[m].kind # "execute"
      OBVIOUS
    <2> HIDE DEF C, m
    <2> QED
      BY <1>2, <2>1, NotPcall, ProtectsCut
  <1> QED
    BY <1>1, <1>3, RaiseInv DEF Codes

\* luaD_pcall ends, in a state S within a step.
PcallEnded(T, a) == [T EXCEPT !.errorJmp = a.previous, !.errfunc = a.errfunc]

LEMMA PcallEndedIs ==
    ASSUME NEW S \in State, S.C # << >>
    PROVE  LET t == PcallEnded(L(S), S.C[Len(S.C)])
           IN  /\ t \in Thread /\ t.status = L(S).status /\ t.baseCcalls = L(S).baseCcalls
               /\ t.nCcalls = L(S).nCcalls /\ t.ci = L(S).ci /\ t.size = L(S).size
               /\ t.errorJmp = S.C[Len(S.C)].previous /\ t.errfunc = S.C[Len(S.C)].errfunc
               /\ \E R : PcallEnds(S, Cur(S)) = PcallReturns(R) /\ Ended(R, S, t, S.raise)
  <1> DEFINE x == Cur(S)
             a == S.C[Len(S.C)]
             T == S.th[x]
             p == a.previous
             e == a.errfunc
             t == [T EXCEPT !.errorJmp = p, !.errfunc = e]
             R == Pop([S EXCEPT !.th = [S.th EXCEPT ![x] = t]])
  <1>1. /\ x \in Threads /\ L(S) = T /\ T \in Thread /\ Last(S.C) = a
        /\ S.C \in Seq(Activations) /\ Len(S.C) \in 1 .. Len(S.C)
    BY StateTypes
  <1>2. p \in Nat /\ e \in BOOLEAN
    BY <1>1, ActivationTypes
  <1>3. /\ t \in Thread /\ t.status = T.status /\ t.baseCcalls = T.baseCcalls
        /\ t.nCcalls = T.nCcalls /\ t.ci = T.ci /\ t.size = T.size
        /\ t.errorJmp = p /\ t.errfunc = e
    <2> HIDE DEF p, e, T
    <2> QED
      BY <1>1, <1>2 DEF Thread
  <1>4. Ended(R, S, t, S.raise)
    <2> HIDE DEF t
    <2> QED
      BY <1>3, EndIs
  <1>5. PcallEnds(S, x) = PcallReturns(R)
    <2>1. [S EXCEPT !.th[x].errorJmp = p, !.th[x].errfunc = e] = [S EXCEPT !.th = [S.th EXCEPT ![x] = t]]
      <3> HIDE DEF x, p, e, T
      <3>0. T = S.th[x]
        BY DEF T
      <3>1. [S EXCEPT !.th[x].errorJmp = p] = [S EXCEPT !.th = [S.th EXCEPT ![x] = [T EXCEPT !.errorJmp = p]]]
        BY <3>0
      <3> QED
        BY <1>1, <3>0, <3>1 DEF State, Thread
    <2> QED
      BY <1>1, <2>1 DEF PcallEnds
  <1>6. t = PcallEnded(L(S), a)
    BY <1>1 DEF PcallEnded
  <1> QED
    BY <1>1, <1>3, <1>4, <1>5, <1>6

LEMMA PcallEndsInv ==
    ASSUME NEW S, NEW host \in Nat, WeakState(S, host), S.raise = "no",
           S.C[Len(S.C)].kind = "pcall", Len(L(S).ci) = S.C[Len(S.C)].ci,
           Protects(SubSeq(S.C, 1, Len(S.C) - 1)),
           Len(S.C) > 1 => S.C[Len(S.C) - 1].kind # "pcall"
    PROVE  Inv(PcallEnds(S, Cur(S)), host)
  <1> DEFINE C == S.C
             m == Len(C)
             a == C[m]
             T == L(S)
             x == a.th
             t == PcallEnded(T, a)
  <1>1. /\ C \in Seq(Activations) /\ m \in Nat /\ m \in 1 .. m /\ a \in Activations
        /\ Len(T.ci) \in Nat /\ T.nCcalls = host + Count(C, m)
        /\ T \in Thread /\ Len(T.ci) <= T.size /\ T.size <= 2 * MAXCALLS
        /\ S.th \in [Threads -> Thread] /\ S.th[x] = T /\ x \in Threads /\ x = Cur(S)
        /\ S \in State /\ C # << >> /\ Weak(C, S.th, "no", host)
    <2>1. S \in State /\ C # << >> /\ Weak(C, S.th, "no", host)
      BY DEF WeakState
    <2>2. /\ C \in Seq(Activations) /\ m \in Nat /\ m \in 1 .. m
          /\ Len(T.ci) \in Nat /\ T.nCcalls = host + Count(C, m)
          /\ T \in Thread /\ Len(T.ci) <= T.size /\ T.size <= 2 * MAXCALLS
          /\ S.th \in [Threads -> Thread] /\ S.th[x] = T /\ x = Cur(S) /\ Cur(S) \in Threads
      BY RunningThread
    <2> QED
      BY <2>1, <2>2
  <1>2. Saved(C, host) /\ Divided(C)
    BY <1>1 DEF Weak
  <1>3. a.nCcalls = host + Count(C, m - 1)
    BY <1>1, <1>2 DEF Saved
  <1>4. Count(C, m) = Count(C, m - 1)
    <2>1. m - 1 \in 0 .. Len(C) /\ m - 1 < Len(C) /\ (m - 1) + 1 = m /\ a.kind = "pcall"
      BY <1>1
    <2>2. Count(C, m) = Count(C, m - 1) + 0 /\ Count(C, m - 1) \in Nat
      BY <1>1, <2>1, CountProperties
    <2> QED
      BY <2>2
  <1>5. /\ t \in Thread /\ t.status = T.status /\ t.baseCcalls = T.baseCcalls
        /\ t.nCcalls = T.nCcalls /\ t.ci = T.ci /\ t.size = T.size
        /\ t.errorJmp = a.previous /\ t.errfunc = a.errfunc
        /\ \E R : PcallEnds(S, Cur(S)) = PcallReturns(R) /\ Ended(R, S, t, "no")
    BY <1>1, PcallEndedIs
  <1>6. PICK R : PcallEnds(S, Cur(S)) = PcallReturns(R) /\ Ended(R, S, t, "no")
    BY <1>5
  <1>7. Len(T.ci) = a.ci /\ a.kind = "pcall" /\ Protects(SubSeq(C, 1, m - 1))
        /\ (m > 1 => C[m - 1].kind # "pcall")
    OBVIOUS
  <1>8. x = C[m].th /\ a = C[m] /\ m = Len(C) /\ C = S.C
    OBVIOUS
  <1> HIDE DEF C, m, a, T, x, t
  <1>9. Restored(a, t, T)
    BY <1>1, <1>3, <1>4, <1>5, <1>7 DEF Restored
  <1>10. Is(R, SubSeq(C, 1, m - 1), [S.th EXCEPT ![x] = t], "no")
    BY <1>6, <1>8 DEF Ended
  <1>11. Inv(PcallReturns(R), host)
    BY <1>1, <1>5, <1>7, <1>8, <1>9, <1>10, PcallReturnsInv
  <1> QED
    BY <1>6, <1>11

LEMMA ReturnFromCallInv ==
    ASSUME NEW host \in Nat, Inv(s, host), s.C # << >>, s.raise = "no",
           s.C[Len(s.C)].kind = "execute", s.C[Len(s.C)].n = 1
    PROVE  Inv(CallEnds(LeaveC(Returned), Cur(s)), host)
  <1> DEFINE R == LeaveC(Returned)
             C == s.C
             m == Len(C)
             a == C[m]
             b == C[m - 1]
             D == SubSeq(C, 1, m - 1)
  <1>1. /\ WeakState(R, host) /\ R.C = D /\ R.raise = "no" /\ Cur(R) = Cur(s)
        /\ Len(L(R).ci) = a.ci /\ m > 1
    BY LeaveCWeak
  <1>2. C \in Seq(Activations) /\ m \in 1 .. Len(C) /\ Protects(C) /\ Weak(C, s.th, "no", host)
        /\ m \in Nat
    BY StateTypes DEF Inv
  <1>3. Chained(C) /\ Saved(C, host) /\ Divided(C)
    BY <1>2 DEF Weak
  <1>4. Len(D) = m - 1 /\ \A i \in 1 .. m - 1 : D[i] = C[i]
    BY <1>2, <1>3, CutBottom
  <1>5. a.kind = "execute" /\ R.C[Len(R.C)] = b /\ m - 1 \in 1 .. m - 1 /\ m \in 2 .. Len(C)
        /\ m - 1 \in 1 .. Len(C) /\ m = Len(C) /\ Len(R.C) = m - 1
    BY <1>1, <1>2, <1>4
  <1>6. a.th = b.th
    BY <1>3, <1>5 DEF Chained
  <1>7. Last(R.C) = b
    BY <1>1, <1>5, StateTypes DEF WeakState
  <1>8. Cur(s) = Cur(R)
    BY <1>1
  <1>9. /\ b.ci \in Nat /\ b.n \in Nat /\ b.ci >= 1 /\ L(R).ci \in Seq(Frames)
        /\ Len(L(R).ci) \in Nat
        /\ \A k \in b.ci + 1 .. b.ci + b.n : L(R).ci[k] = "Lua"
        /\ Len(L(R).ci) = b.ci + b.n + 1 => L(R).ci[b.ci + b.n + 1] = "C"
    <2>1. LET e == R.C[Len(R.C)]
          IN  /\ e.ci \in Nat /\ e.n \in Nat /\ e.ci >= 1 /\ L(R).ci \in Seq(Frames)
              /\ Len(L(R).ci) \in Nat
              /\ \A k \in e.ci + 1 .. e.ci + e.n : L(R).ci[k] = "Lua"
              /\ Len(L(R).ci) = e.ci + e.n + 1 => L(R).ci[e.ci + e.n + 1] = "C"
      <3>1. WeakState(R, host)
        BY <1>1
      <3> HIDE DEF R
      <3> QED
        BY <3>1, RunningThread
    <2>2. R.C[Len(R.C)] = b
      BY <1>5
    <2> HIDE DEF R, b
    <2> QED
      BY <2>1, <2>2
  <1>10. CASE b.kind = "pcall"
    <2>1. a.ci = b.ci
      BY <1>3, <1>5, <1>10 DEF Divided
    <2>2. m - 1 > 1 => C[m - 2].kind # "pcall"
      <3>1. (m - 1) - 1 = m - 2
        BY <1>2
      <3>2. b.kind # "execute"
        BY <1>10
      <3> QED
        BY <1>2, <1>5, <3>1, <3>2, NotPcall
    <2>3. Protects(SubSeq(C, 1, m - 2))
      <3>1. (m - 1) - 1 = m - 2 /\ C \in Seq(Activations) /\ Protects(C) /\ m - 1 \in 1 .. Len(C)
            /\ (m - 1 > 1 => C[(m - 1) - 1].kind # "pcall")
        BY <1>2, <1>5, <2>2
      <3> HIDE DEF m, C
      <3>2. Protects(SubSeq(C, 1, (m - 1) - 1))
        BY <3>1, ProtectsCut
      <3> QED
        BY <3>1, <3>2
    <2>4. SubSeq(D, 1, m - 2) = SubSeq(C, 1, m - 2)
      <3> HIDE DEF C, D, m
      <3>1. \A i \in 1 .. m - 2 : i \in 1 .. m - 1
        BY <1>2
      <3> QED
        BY <1>2, <1>4, <3>1
    <2>5. Len(R.C) - 1 = m - 2 /\ Protects(SubSeq(R.C, 1, Len(R.C) - 1))
      <3>1. Len(R.C) - 1 = m - 2
        BY <1>2, <1>5
      <3>2. SubSeq(R.C, 1, m - 2) = SubSeq(C, 1, m - 2)
        BY <1>1, <2>4
      <3> HIDE DEF R, C, m
      <3> QED
        BY <2>3, <3>1, <3>2
    <2>6. Len(R.C) > 1 => R.C[Len(R.C) - 1].kind # "pcall"
      <3> SUFFICES ASSUME Len(R.C) > 1
                   PROVE  R.C[Len(R.C) - 1].kind # "pcall"
        OBVIOUS
      <3>1. m - 2 \in 1 .. m - 1 /\ m - 1 > 1 /\ Len(R.C) - 1 = m - 2
        BY <1>2, <1>5
      <3>2. R.C[m - 2] = C[m - 2]
        BY <1>1, <1>4, <3>1
      <3> QED
        BY <2>2, <3>1, <3>2
    <2>7. R.C[Len(R.C)].kind = "pcall" /\ Len(L(R).ci) = R.C[Len(R.C)].ci
      BY <1>1, <1>5, <1>10, <2>1
    <2>8. Inv(PcallEnds(R, Cur(R)), host)
      <3> HIDE DEF R
      <3> QED
        BY <1>1, <2>5, <2>6, <2>7, PcallEndsInv
    <2>9. CallEnds(R, Cur(s)) = PcallEnds(R, Cur(R))
      BY <1>7, <1>8, <1>10 DEF CallEnds
    <2> QED
      BY <2>8, <2>9
  <1>11. CASE b.kind # "pcall"
    <2>1. Protects(D)
      <3> HIDE DEF C, m
      <3> QED
        BY <1>2, <1>11, ProtectsCut
    <2>2. b.n >= 1 /\ (a.ci = b.ci + b.n \/ a.ci = b.ci + b.n + 1)
      <3>1. b.n >= 1
        BY <1>3, <1>5, <1>11 DEF Divided
      <3>2. b.ci + b.n <= a.ci
        <4>1. m - 1 < m
          BY <1>2
        <4> QED
          BY <1>3, <1>5, <1>6, <4>1 DEF Divided
      <3>3. a.ci <= b.ci + b.n + 1
        BY <1>3, <1>5 DEF Divided
      <3>4. a.ci \in Nat
        BY <1>2, ActivationTypes
      <3> DEFINE p == b.ci
                 n == b.n
                 q == a.ci
      <3>5. p \in Nat /\ n \in Nat /\ q \in Nat /\ p + n <= q /\ q <= p + n + 1
        BY <1>9, <3>2, <3>3, <3>4
      <3> HIDE DEF p, n, q
      <3>6. q = p + n \/ q = p + n + 1
        BY <3>5
      <3> QED
        BY <3>1, <3>6 DEF p, n, q
    <2>3. Last(L(R).ci) = L(R).ci[Len(L(R).ci)]
      BY DEF Last
    <2>4. CASE a.ci = b.ci + b.n
      <3>1. L(R).ci[Len(L(R).ci)] = "Lua"
        <4>1. b.ci + b.n \in b.ci + 1 .. b.ci + b.n
          BY <1>9, <2>2
        <4> QED
          BY <1>1, <1>9, <2>4, <4>1
      <3>2. CallEnds(R, Cur(s)) = R
        BY <1>7, <1>11, <2>3, <3>1 DEF CallEnds
      <3>3. Exact(R)
        BY <1>1, <1>7, <2>2, <2>4 DEF Exact
      <3> QED
        BY <1>1, <2>1, <3>2, <3>3 DEF Inv, WeakState
    <2>5. CASE a.ci = b.ci + b.n + 1
      <3>1. L(R).ci[Len(L(R).ci)] = "C"
        BY <1>1, <1>9, <2>5
      <3>2. CallEnds(R, Cur(s)) = poscall(R)
        BY <1>7, <1>11, <2>3, <3>1 DEF CallEnds
      <3>3. Ready(R, host)
        BY <1>1, <1>5, <2>1, <2>2, <2>5 DEF Ready
      <3> QED
        BY <3>2, <3>3, poscallInv
    <2> QED
      BY <2>2, <2>4, <2>5
  <1> QED
    BY <1>10, <1>11

\* The body of a coroutine returns.
LEMMA ReturnFromBodyInv ==
    ASSUME NEW host \in Nat, Inv(s, host), s.C # << >>, s.raise = "no",
           s.C[Len(s.C)].kind = "resume", s.C[Len(s.C)].n = 1
    PROVE  Inv(lua_resumeReturns(Returned, Cur(s), "ok"), host)
  <1> DEFINE C == s.C
             m == Len(C)
             a == C[m]
             x == C[m].th
             T == L(s)
             t == ResumeEnded(Shorter(s), a.previous, "ok")
  <1>1. WeakState(s, host) /\ Exact(s) /\ C # << >> /\ Weak(C, s.th, "no", host) /\ Protects(C)
    BY DEF Inv, WeakState
  <1>2. /\ C \in Seq(Activations) /\ m \in Nat /\ m \in 1 .. m /\ a \in Activations
        /\ a.ci \in Nat /\ a.n \in Nat /\ a.ci >= 1 /\ Len(T.ci) \in Nat
        /\ T \in Thread /\ T.ci \in Seq(Frames) /\ T.size \in Nat
        /\ Len(T.ci) <= T.size /\ T.size <= 2 * MAXCALLS
        /\ s.th \in [Threads -> Thread] /\ s.th[x] = T /\ x \in Threads /\ x = Cur(s)
    BY <1>1, RunningThread
  <1>3. Len(T.ci) = a.ci + 1
    <2>1. Last(C) = a
      BY <1>1, StateTypes DEF WeakState
    <2> QED
      BY <1>1, <1>2, <2>1 DEF Exact
  <1>4. /\ T.nCcalls \in Nat /\ T.nCcalls >= 1 /\ T.nCcalls - 1 = a.nCcalls
        /\ a.nCcalls < ERRCCALLS /\ ~ T.errfunc /\ a.previous = 0
    <2>1. a.kind \in {"execute", "handler", "resume"} /\ a.kind = "resume"
      OBVIOUS
    <2> HIDE DEF a, T, m, C
    <2> QED
      BY <1>1, <2>1, CallKept DEF a, T, m, C
  <1>5. /\ Shorter(s) \in Thread /\ Shorter(s).ci = SubSeq(T.ci, 1, Len(T.ci) - 1)
        /\ Shorter(s).size = T.size /\ Same(Shorter(s), T)
        /\ Fewer(s) \in Seq(Activations) /\ Len(Fewer(s)) = m
        /\ \A i \in 1 .. m : Alike(Fewer(s)[i], C[i])
        /\ Changes(Returned, s, Fewer(s), Shorter(s), "no")
    <2>1. a.n >= 1
      OBVIOUS
    <2> QED
      BY <1>1, <2>1, ReturnedIs
  <1>6. /\ Returned \in State /\ Returned.C # << >> /\ L(Returned) = Shorter(s)
        /\ Returned.raise = "no" /\ Cur(Returned) = x
        /\ Returned.C[Len(Returned.C)].previous = a.previous
    <2>1. /\ Returned \in State /\ Returned.C = Fewer(s) /\ Returned.raise = "no"
          /\ Returned.th = [s.th EXCEPT ![x] = Shorter(s)]
      BY <1>5 DEF Changes, Is
    <2>2. /\ Fewer(s) # << >> /\ Fewer(s)[Len(Fewer(s))].th = x
          /\ Fewer(s)[Len(Fewer(s))].previous = a.previous
      BY <1>2, <1>5 DEF Alike
    <2> QED
      BY <1>2, <2>1, <2>2, StateTypes
  <1>7. PICK R : /\ lua_resumeReturns(Returned, x, "ok") = poscall(R)
                 /\ t \in Thread
                 /\ Ended(R, Returned, t, "no")
    <2>1. L(Returned).nCcalls >= 1
      BY <1>4, <1>5, <1>6 DEF Same
    <2> QED
      BY <1>6, <2>1, lua_resumeReturnsIs DEF Statuses
  <1>8. Ended(R, s, t, "no")
    <2> HIDE DEF t
    <2> QED
      BY <1>1, <1>7, ReturnedEnds
  <1>9. /\ t.ci = SubSeq(T.ci, 1, Len(T.ci) - 1) /\ t.size = T.size /\ t.errfunc = T.errfunc
        /\ t.errorJmp = 0 /\ t.nCcalls = a.nCcalls /\ t.status = "ok"
    <2>1. Shorter(s).nCcalls = T.nCcalls /\ Shorter(s).errfunc = T.errfunc
      BY <1>5 DEF Same
    <2>2. a.previous \in Nat /\ "ok" \in Statuses
      BY <1>4 DEF Statuses
    <2> HIDE DEF T, a
    <2>3. /\ t.ci = Shorter(s).ci /\ t.size = Shorter(s).size /\ t.errfunc = Shorter(s).errfunc
          /\ t.errorJmp = a.previous /\ t.nCcalls = Shorter(s).nCcalls - 1 /\ t.status = "ok"
      BY <1>4, <1>5, <2>1, <2>2, ResumeEndedThread
    <2> HIDE DEF t
    <2> QED
      BY <1>4, <1>5, <2>1, <2>3
  <1> HIDE DEF t
  <1>10. Left(t)
    <2> HIDE DEF C, m, a, T
    <2>1. Len(t.ci) = a.ci
      BY <1>2, <1>3, <1>9
    <2>2. Len(t.ci) <= t.size /\ t.size <= 2 * MAXCALLS /\ Len(t.ci) >= 1
      BY <1>2, <1>3, <1>9, <2>1
    <2> QED
      BY <1>4, <1>9, <2>2 DEF Left
  <1>11. Ready(R, host)
    <2>1. Is(R, SubSeq(C, 1, m - 1), [s.th EXCEPT ![C[Len(C)].th] = t], "no")
      BY <1>8 DEF Ended
    <2>2. m \in 1 .. Len(C) /\ C[m].kind = "resume" /\ C[m].th = C[Len(C)].th
      BY <1>2
    <2> HIDE DEF C, m
    <2> QED
      BY <1>1, <1>2, <1>7, <1>10, <2>1, <2>2, LeavesReady
  <1> QED
    BY <1>2, <1>7, <1>11, poscallInv

\* Only the resumption is left of the C calls of the coroutine.
LEMMA YieldsResume ==
    ASSUME NEW S, NEW host \in Nat, WeakState(S, host), S.C[Len(S.C)].n >= 1,
           ~ (L(S).nCcalls > L(S).baseCcalls)
    PROVE  S.C[Len(S.C)].kind = "resume"
  <1> DEFINE C == S.C
             m == Len(C)
             a == C[m]
             x == Cur(S)
             T == L(S)
  <1>1. /\ C \in Seq(Activations) /\ m \in Nat /\ m \in 1 .. m /\ x \in Threads /\ a.th = x
        /\ T.nCcalls \in Nat /\ T.nCcalls = host + Count(C, m)
        /\ S.th[x] = T /\ T \in Thread /\ C # << >>
    <2>1. C # << >>
      BY DEF WeakState
    <2> QED
      BY <2>1, RunningThread
  <1>2. Weak(C, S.th, S.raise, host) /\ Chained(C) /\ Divided(C) /\ Waiting(C, S.th, host)
        /\ (x = Main => T.baseCcalls = 0)
    BY <1>1 DEF WeakState, Weak, Threading
  <1>3. a.kind # "pcall"
    BY <1>1, <1>2 DEF Divided
  <1>4. Count(C, m) = Count(C, m - 1) + 1 /\ Count(C, m - 1) \in Nat
    <2>1. m - 1 \in 0 .. Len(C) /\ m - 1 < Len(C) /\ (m - 1) + 1 = m
      BY <1>1
    <2> QED
      BY <1>1, <1>3, <2>1, CountProperties
  <1>5. x # Main
    BY <1>1, <1>2, <1>4
  <1>6. PICK r \in 1 .. m : C[r].th = x /\ C[r].kind = "resume"
    BY <1>1, <1>2, <1>5 DEF Chained, Resumed
  <1>7. T.baseCcalls = host + Count(C, r)
    BY <1>1, <1>2, <1>6 DEF Waiting
  <1>8. r = m
    <2> SUFFICES ASSUME r # m
                 PROVE  FALSE
      OBVIOUS
    <2>1. r \in 0 .. Len(C) /\ m - 1 \in r .. Len(C)
      BY <1>1
    <2>2. Count(C, r) <= Count(C, m - 1) /\ Count(C, r) \in Nat
      BY <1>1, <2>1, CountGrows
    <2> HIDE DEF C, m, T
    <2>3. T.nCcalls > T.baseCcalls
      BY <1>1, <1>4, <1>7, <2>2
    <2> QED
      BY <2>3 DEF T
  <1> QED
    BY <1>6, <1>8

LEMMA YieldInv ==
    ASSUME NEW S, NEW host \in Nat, Ready(S, host)
    PROVE  Inv(lua_yield(S, Cur(S)), host)
  <1> DEFINE C == S.C
             m == Len(C)
             a == C[m]
             x == C[m].th
             T == L(S)
             t == ResumeEnded(T, a.previous, "YIELD")
  <1>1. WeakState(S, host) /\ C # << >> /\ Weak(C, S.th, "no", host) /\ Protects(C)
        /\ S.raise = "no" /\ a.n >= 1 /\ Len(T.ci) = a.ci + a.n + 1 /\ S \in State
    BY DEF Ready, WeakState
  <1>2. /\ C \in Seq(Activations) /\ m \in Nat /\ m \in 1 .. m /\ a \in Activations
        /\ a.ci \in Nat /\ a.n \in Nat /\ a.ci >= 1 /\ Len(T.ci) \in Nat
        /\ T \in Thread /\ T.ci \in Seq(Frames) /\ T.size \in Nat
        /\ Len(T.ci) <= T.size /\ T.size <= 2 * MAXCALLS
        /\ (\A k \in a.ci + 1 .. a.ci + a.n : T.ci[k] = "Lua")
        /\ S.th \in [Threads -> Thread] /\ S.th[x] = T /\ x \in Threads /\ x = Cur(S)
    BY <1>1, RunningThread
  <1>3. CASE T.nCcalls > T.baseCcalls
    <2>1. lua_yield(S, Cur(S)) = Raise(S, "message")
      BY <1>2, <1>3 DEF lua_yield
    <2> QED
      BY <1>1, <2>1, RaiseInv
  <1>4. CASE ~ (T.nCcalls > T.baseCcalls)
    <2>1. a.kind = "resume"
      BY <1>1, <1>4, YieldsResume
    <2>2. /\ T.nCcalls \in Nat /\ T.nCcalls >= 1 /\ T.nCcalls - 1 = a.nCcalls
          /\ a.nCcalls < ERRCCALLS /\ ~ T.errfunc /\ a.previous = 0
      <3>1. a.kind \in {"execute", "handler", "resume"}
        BY <2>1
      <3> HIDE DEF a, T, m, C
      <3> QED
        BY <1>1, <2>1, <3>1, CallKept DEF a, T, m, C
    <2>3. lua_yield(S, Cur(S)) = lua_resumeReturns(S, Cur(S), "YIELD")
      BY <1>2, <1>4 DEF lua_yield
    <2>4. PICK R : /\ lua_resumeReturns(S, Cur(S), "YIELD") = poscall(R)
                   /\ t \in Thread
                   /\ Ended(R, S, t, "no")
      BY <1>1, <2>2, lua_resumeReturnsIs DEF Statuses
    <2>5. /\ t.ci = T.ci /\ t.size = T.size /\ t.errfunc = T.errfunc
          /\ t.errorJmp = 0 /\ t.nCcalls = a.nCcalls /\ t.status = "YIELD"
      <3>1. a.previous \in Nat /\ "YIELD" \in Statuses
        BY <2>2 DEF Statuses
      <3> HIDE DEF T, a
      <3>2. /\ t.ci = T.ci /\ t.size = T.size /\ t.errfunc = T.errfunc
            /\ t.errorJmp = a.previous /\ t.nCcalls = T.nCcalls - 1 /\ t.status = "YIELD"
        BY <1>2, <2>2, <3>1, ResumeEndedThread
      <3> HIDE DEF t
      <3> QED
        BY <2>2, <3>2
    <2>6. a.ci = 1
      BY <1>1, <1>2, <2>1 DEF Weak, Divided
    <2> HIDE DEF t
    <2>7. Left(t)
      <3> HIDE DEF C, m, a, T
      <3>1. Len(t.ci) = a.n + 2
        BY <1>1, <1>2, <2>5, <2>6
      <3>2. Len(t.ci) > 2 /\ Len(t.ci) >= 1
        BY <1>1, <1>2, <3>1
      <3>3. \A k \in 2 .. Len(t.ci) - 1 : k \in a.ci + 1 .. a.ci + a.n
        BY <1>2, <2>6, <3>1
      <3>4. \A k \in 2 .. Len(t.ci) - 1 : t.ci[k] = "Lua"
        BY <1>2, <2>5, <3>3
      <3>5. Len(t.ci) <= t.size /\ t.size <= 2 * MAXCALLS
        BY <1>2, <2>5
      <3> QED
        BY <2>2, <2>5, <3>2, <3>4, <3>5 DEF Left
    <2>8. Ready(R, host)
      <3>1. Is(R, SubSeq(C, 1, m - 1), [S.th EXCEPT ![C[Len(C)].th] = t], "no")
        BY <2>4 DEF Ended
      <3>2. m \in 1 .. Len(C) /\ C[m].kind = "resume" /\ C[m].th = C[Len(C)].th
        BY <1>2, <2>1
      <3> HIDE DEF C, m
      <3> QED
        BY <1>1, <1>2, <2>4, <2>7, <3>1, <3>2, LeavesReady
    <2> QED
      BY <2>3, <2>4, <2>8, poscallInv
  <1> QED
    BY <1>3, <1>4

-----------------------------------------------------------------------------
(* Errors that are caught *)

At(S, x, t) == [S EXCEPT !.th = [S.th EXCEPT ![x] = t]]

LEMMA AtAt ==
    ASSUME NEW S \in State, NEW x \in Threads, NEW t
    PROVE  /\ At(S, x, t).th[x] = t
           /\ At(S, x, t).C = S.C
           /\ \A v : At(At(S, x, t), x, v) = At(S, x, v)
  <1>1. S.th \in [Threads -> Thread]
    BY StateTypes
  <1> QED
    BY <1>1 DEF State, At

CaughtThread(T, a) ==
    [T EXCEPT !.errorJmp = a.previous, !.nCcalls = a.nCcalls, !.errfunc = a.errfunc,
              !.ci = SubSeq(T.ci, 1, a.ci), !.size = restore_stack_limit(T.size, a.ci - 1)]

LEMMA CaughtThreadIs ==
    ASSUME NEW T \in Thread, NEW a \in Activations, a.ci >= 1, a.ci <= Len(T.ci),
           Len(T.ci) <= T.size, T.size <= 2 * MAXCALLS
    PROVE  CaughtThread(T, a) \in Thread /\ Restored(a, CaughtThread(T, a), T)
  <1> DEFINE ci == SubSeq(T.ci, 1, a.ci)
             size == restore_stack_limit(T.size, a.ci - 1)
             p == a.previous
             n == a.nCcalls
             e == a.errfunc
             k == a.ci
             t == [T EXCEPT !.errorJmp = p, !.nCcalls = n, !.errfunc = e, !.ci = ci, !.size = size]
  <1>1. p \in Nat /\ n \in Nat /\ e \in BOOLEAN /\ k \in Nat
    BY DEF Activations
  <1>2. T.ci \in Seq(Frames) /\ Len(T.ci) \in Nat /\ T.size \in Nat
    BY DEF Thread
  <1>3. ci \in Seq(Frames) /\ Len(ci) = k /\ \A i \in 1 .. k : ci[i] = T.ci[i]
    <2> DEFINE c == T.ci
    <2>1. c \in Seq(Frames) /\ Len(c) \in Nat /\ k \in Nat /\ k <= Len(c)
      BY <1>1, <1>2
    <2> HIDE DEF c, k
    <2>2. SubSeq(c, 1, k) \in Seq(Frames) /\ Len(SubSeq(c, 1, k)) = k
          /\ \A i \in 1 .. k : SubSeq(c, 1, k)[i] = c[i]
      BY <2>1
    <2> QED
      BY <2>2 DEF c, k
  <1>4. size \in Nat /\ k <= size /\ size <= 2 * MAXCALLS
    BY <1>1, <1>2, LuaCallAssumption DEF restore_stack_limit
  <1> HIDE DEF p, n, e, ci, size
  <1>5. /\ t \in Thread /\ t.status = T.status /\ t.baseCcalls = T.baseCcalls /\ t.nCcalls = n
        /\ t.errorJmp = p /\ t.errfunc = e /\ t.ci = ci /\ t.size = size
    BY <1>1, <1>3, <1>4 DEF Thread
  <1>6. t = CaughtThread(T, a)
    BY DEF CaughtThread, p, n, e, ci, size
  <1> HIDE DEF t
  <1>7. Restored(a, t, T)
    BY <1>3, <1>4, <1>5 DEF Restored, p, n, e
  <1> QED
    BY <1>5, <1>6, <1>7

LEMMA CaughtIs ==
    ASSUME NEW S \in State, NEW x \in Threads, NEW j, CaughtThread(S.th[x], S.C[j]) \in Thread,
           SubSeq(S.C, 1, j - 1) \in Seq(Activations)
    PROVE  \E R : /\ Caught(S, x, j) = PcallReturns(R)
                  /\ Is(R, SubSeq(S.C, 1, j - 1),
                        [S.th EXCEPT ![x] = CaughtThread(S.th[x], S.C[j])], S.raise)
  <1> DEFINE T == S.th[x]
             p == S.C[j].previous
             n == S.C[j].nCcalls
             e == S.C[j].errfunc
             k == S.C[j].ci
             D == SubSeq(S.C, 1, j - 1)
             T1 == [T EXCEPT !.errorJmp = p]
             T2 == [T1 EXCEPT !.nCcalls = n]
             T3 == [T2 EXCEPT !.errfunc = e]
             T4 == [T3 EXCEPT !.ci = SubSeq(T.ci, 1, k)]
             T5 == [T4 EXCEPT !.size = restore_stack_limit(T.size, k - 1)]
             E1 == [S EXCEPT !.th[x].errorJmp = p]
             E2 == [S EXCEPT !.th[x].errorJmp = p, !.th[x].nCcalls = n]
             E3 == [S EXCEPT !.th[x].errorJmp = p, !.th[x].nCcalls = n, !.th[x].errfunc = e]
             E4 == [S EXCEPT !.th[x].errorJmp = p, !.th[x].nCcalls = n, !.th[x].errfunc = e,
                             !.th[x].ci = SubSeq(@, 1, k)]
             E5 == [S EXCEPT !.th[x].errorJmp = p, !.th[x].nCcalls = n, !.th[x].errfunc = e,
                             !.th[x].ci = SubSeq(@, 1, k),
                             !.th[x].size = restore_stack_limit(@, k - 1)]
             R == [S EXCEPT !.th[x].errorJmp = p, !.th[x].nCcalls = n, !.th[x].errfunc = e,
                            !.th[x].ci = SubSeq(@, 1, k),
                            !.th[x].size = restore_stack_limit(@, k - 1), !.C = D]
  <1>1. S.th \in [Threads -> Thread] /\ T \in Thread
    BY StateTypes
  <1>2. Caught(S, x, j) = PcallReturns(R)
    BY DEF Caught
  <1>3. E1 = At(S, x, T1)
    BY DEF At
  <1>4. E2 = At(E1, x, [E1.th[x] EXCEPT !.nCcalls = n])
    BY DEF At
  <1>5. E3 = At(E2, x, [E2.th[x] EXCEPT !.errfunc = e])
    BY DEF At
  <1>6. E4 = At(E3, x, [E3.th[x] EXCEPT !.ci = SubSeq(T.ci, 1, k)])
    BY DEF At
  <1>7. E5 = At(E4, x, [E4.th[x] EXCEPT !.size = restore_stack_limit(T.size, k - 1)])
    BY DEF At
  <1>8. R = [E5 EXCEPT !.C = D]
    OBVIOUS
  <1>9. T5 = CaughtThread(T, S.C[j])
    <2> HIDE DEF p, n, e, k, T
    <2>1. T5 = [T EXCEPT !.errorJmp = p, !.nCcalls = n, !.errfunc = e,
                         !.ci = SubSeq(T.ci, 1, k), !.size = restore_stack_limit(T.size, k - 1)]
      OBVIOUS
    <2> QED
      BY <2>1 DEF CaughtThread, p, n, e, k
  <1>10. D \in Seq(Activations) /\ T5 \in Thread
    BY <1>9
  <1> HIDE DEF E1, E2, E3, E4, E5, R, T1, p, n, e, k, D
  <1>11. E2 = At(S, x, T2)
    BY <1>3, <1>4, AtAt
  <1> HIDE DEF T2
  <1>12. E3 = At(S, x, T3)
    BY <1>5, <1>11, AtAt
  <1> HIDE DEF T3
  <1>13. E4 = At(S, x, T4)
    <2> DEFINE c == SubSeq(T.ci, 1, k)
    <2>1. E4 = At(E3, x, [E3.th[x] EXCEPT !.ci = c]) /\ T4 = [T3 EXCEPT !.ci = c]
      BY <1>6
    <2> HIDE DEF c, T4
    <2> QED
      BY <1>12, <2>1, AtAt
  <1> HIDE DEF T4
  <1>14. E5 = At(S, x, T5)
    BY <1>7, <1>13, AtAt
  <1> HIDE DEF T5, T
  <1>15. Is(E5, S.C, [S.th EXCEPT ![x] = T5], S.raise)
    BY <1>10, <1>14, ThreadsIs DEF At
  <1>16. Is(R, D, [S.th EXCEPT ![x] = T5], S.raise)
    BY <1>8, <1>10, <1>15 DEF Is, State
  <1> QED
    BY <1>2, <1>9, <1>16 DEF D, T

LEMMA DiesIs ==
    ASSUME NEW S \in State, NEW x \in Threads, NEW j, NEW code,
           ResumeEnded(S.th[x], S.C[j].previous, code) \in Thread,
           SubSeq(S.C, 1, j - 1) \in Seq(Activations)
    PROVE  Is(Dies(S, x, j, code), SubSeq(S.C, 1, j - 1),
              [S.th EXCEPT ![x] = ResumeEnded(S.th[x], S.C[j].previous, code)], S.raise)
  <1> DEFINE p == S.C[j].previous
             t == ResumeEnded(S.th[x], p, code)
             D == SubSeq(S.C, 1, j - 1)
             U == Updated(S, x, p, code)
             R == Dies(S, x, j, code)
  <1>1. U = [S EXCEPT !.th = [S.th EXCEPT ![x] = t]]
    BY ResumeEndedIs
  <1>2. R = [U EXCEPT !.C = D]
    BY DEF Dies, Updated
  <1>3. t \in Thread /\ D \in Seq(Activations)
    OBVIOUS
  <1> HIDE DEF t, U, R, D, p
  <1>4. Is(U, S.C, [S.th EXCEPT ![x] = t], S.raise)
    BY <1>1, <1>3, ThreadsIs
  <1>5. Is(R, D, [S.th EXCEPT ![x] = t], S.raise)
    BY <1>2, <1>3, <1>4, SMTT(40) DEF Is, State
  <1> QED
    BY <1>5 DEF R, D, t, p

\* What is known where an error is on its way.
LEMMA ThrowKnows ==
    ASSUME NEW host \in Nat, WeakState(s, host), Protects(s.C)
    PROVE  LET C == s.C
               T == L(s)
               x == Cur(s)
               j == T.errorJmp
           IN  /\ C \in Seq(Activations) /\ C # << >> /\ s.th \in [Threads -> Thread]
               /\ Weak(C, s.th, s.raise, host)
               /\ x \in Threads /\ x = C[Len(C)].th /\ T = s.th[x] /\ T \in Thread
               /\ j \in 1 .. Len(C) /\ C[j].th = x /\ C[j].kind \in {"pcall", "resume"}
               /\ C[j] \in Activations /\ C[j].ci >= 1 /\ C[j].ci <= Len(T.ci)
               /\ Len(T.ci) <= T.size /\ T.size <= 2 * MAXCALLS
               /\ SubSeq(C, 1, j - 1) \in Seq(Activations)
               /\ Protects(SubSeq(C, 1, j - 1))
               /\ (j > 1 => C[j - 1].kind # "pcall")
  <1> DEFINE C == s.C
             T == L(s)
             x == Cur(s)
             j == T.errorJmp
             m == Len(C)
  <1>1. C # << >> /\ Weak(C, s.th, s.raise, host)
    BY DEF WeakState
  <1>2. /\ C \in Seq(Activations) /\ m \in Nat /\ s.th \in [Threads -> Thread]
        /\ x = C[m].th /\ x \in Threads /\ T = s.th[x] /\ T \in Thread
        /\ j \in 1 .. m /\ Innermost(C, m, x, j) /\ Len(T.ci) \in Nat
        /\ Len(T.ci) <= T.size /\ T.size <= 2 * MAXCALLS
    BY RunningThread
  <1> HIDE DEF T, x, j
  <1>3. C[j].th = x /\ C[j].kind \in {"pcall", "resume"}
    <2> HIDE DEF C, m, j, x
    <2> QED
      BY <1>2 DEF Innermost, Catches
  <1>4. Saved(C, host) /\ Divided(C) /\ Filled(C, s.th)
    BY <1>1 DEF Weak
  <1>5. SubSeq(C, 1, j - 1) \in Seq(Activations) /\ C[j].ci >= 1 /\ C[j].ci \in Nat /\ C[j].n \in Nat
        /\ C[j] \in Activations
    BY <1>2, <1>4, CutBottom, SMTT(40) DEF SavedAt
  <1>6. C[j].ci <= Len(T.ci)
    <2>1. C[j].ci + C[j].n <= Len(T.ci)
      BY <1>2, <1>3, <1>4 DEF Filled
    <2> HIDE DEF C, T, j
    <2> QED
      BY <1>2, <1>5, <2>1
  <1>7. j > 1 => C[j - 1].kind # "pcall"
    <2>1. Protects(C) /\ C[j].kind # "execute"
      BY <1>3
    <2> HIDE DEF C, j
    <2> QED
      BY <1>2, <2>1, NotPcall DEF m
  <1>8. Protects(SubSeq(C, 1, j - 1))
    <2>1. Protects(C)
      OBVIOUS
    <2> HIDE DEF C, j
    <2> QED
      BY <1>2, <1>7, <2>1, ProtectsCut DEF m
  <1> QED
    BY <1>1, <1>2, <1>3, <1>5, <1>6, <1>7, <1>8 DEF T, x, j

\* An error is caught.
LEMMA ThrowInv ==
    ASSUME NEW host \in Nat, Inv(s, host), s.raise \in Codes
    PROVE  LET j == L(s).errorJmp
               S == Raise(s, "no")
           IN  Inv(IF s.C[j].kind = "pcall" THEN Caught(S, Cur(s), j)
                   ELSE ResumeFails(Dies(S, Cur(s), j, s.raise), s.C[j].wrap), host)
  <1> DEFINE C == s.C
             th == s.th
             T == L(s)
             x == Cur(s)
             j == T.errorJmp
             a == C[j]
             D == SubSeq(C, 1, j - 1)
             S == Raise(s, "no")
  <1>1. WeakState(s, host) /\ Protects(C)
    BY DEF Inv, WeakState, Codes
  <1>2. /\ C \in Seq(Activations) /\ C # << >> /\ th \in [Threads -> Thread]
        /\ Weak(C, th, s.raise, host)
        /\ x \in Threads /\ x = C[Len(C)].th /\ T = th[x] /\ T \in Thread
        /\ j \in 1 .. Len(C) /\ a.th = x /\ a.kind \in {"pcall", "resume"}
        /\ a \in Activations /\ a.ci >= 1 /\ a.ci <= Len(T.ci)
        /\ Len(T.ci) <= T.size /\ T.size <= 2 * MAXCALLS
        /\ D \in Seq(Activations)
        /\ Protects(D)
        /\ (j > 1 => C[j - 1].kind # "pcall")
    BY <1>1, ThrowKnows
  <1>3. S \in State /\ S.C = C /\ S.th = th /\ S.raise = "no"
    BY <1>1, RaiseIs DEF Is, WeakState
  <1>4. /\ T.nCcalls \in Nat /\ T.nCcalls <= ERRCCALLS /\ T.nCcalls = host + Count(C, Len(C))
        /\ Len(T.ci) \in Nat
    BY <1>1, RunningThread
  <1> HIDE DEF S, T, x, j, th
  <1>5. T.errfunc = a.handler
    <2>1. TopThread(C, th, host)
      BY <1>2, WeakTop
    <2> HIDE DEF C
    <2>2. LET U == th[C[Len(C)].th] IN U.errfunc = C[U.errorJmp].handler
      BY <2>1 DEF TopThread
    <2>3. T = th[C[Len(C)].th]
      BY <1>2
    <2> QED
      BY <2>2, <2>3 DEF j
  <1>6. CASE a.kind = "pcall"
    <2> DEFINE t == CaughtThread(T, a)
    <2>1. t \in Thread /\ Restored(a, t, T)
      <3> HIDE DEF a
      <3> QED
        BY <1>2, CaughtThreadIs
    <2>2. PICK R : Caught(S, x, j) = PcallReturns(R) /\ Is(R, D, [th EXCEPT ![x] = t], "no")
      <3>1. S.th[x] = T /\ S.C[j] = a
        BY <1>2, <1>3
      <3>2. CaughtThread(S.th[x], S.C[j]) \in Thread /\ SubSeq(S.C, 1, j - 1) \in Seq(Activations)
        BY <1>2, <1>3, <2>1, <3>1
      <3>3. \E R : /\ Caught(S, x, j) = PcallReturns(R)
                   /\ Is(R, SubSeq(S.C, 1, j - 1),
                         [S.th EXCEPT ![x] = CaughtThread(S.th[x], S.C[j])], S.raise)
        <4> HIDE DEF j
        <4> QED
          BY <1>2, <1>3, <3>2, CaughtIs
      <3> QED
        BY <1>3, <3>1, <3>3
    <2> HIDE DEF t
    <2>3. Is(R, SubSeq(C, 1, j - 1), [th EXCEPT ![C[Len(C)].th] = t], "no")
      BY <1>2, <2>2
    <2>4. Restored(C[j], t, th[C[Len(C)].th]) /\ C[j].th = C[Len(C)].th /\ C[j].kind = "pcall"
          /\ Protects(SubSeq(C, 1, j - 1))
      BY <1>2, <1>6, <2>1
    <2>5. Inv(PcallReturns(R), host)
      <3> HIDE DEF C, j, a, th
      <3> QED
        BY <1>2, <2>1, <2>3, <2>4, PcallReturnsInv
    <2>6. Inv(Caught(S, x, j), host)
      BY <2>2, <2>5
    <2> QED
      BY <1>6, <2>6 DEF S, x, T, j
  <1>7. CASE a.kind = "resume"
    <2> DEFINE t == ResumeEnded(T, a.previous, s.raise)
    <2>1. Chained(C) /\ Saved(C, host) /\ Divided(C)
      BY <1>2 DEF Weak
    <2>2. Innermost(C, j - 1, x, a.previous) /\ (a.handler => a.kind = "pcall")
      BY <1>2, <2>1 DEF Saved
    <2>3. a.previous = 0
      <3>1. j # 1
        BY <1>2, <1>7, <2>1 DEF Chained
      <3>2. \A i \in 1 .. j - 1 : C[i].th # x
        <4>1. j \in 2 .. Len(C)
          <5> HIDE DEF j, C
          <5> QED
            BY <1>2, <3>1
        <4>2. C[j].kind = "resume" /\ C[j].th = x
          BY <1>2, <1>7
        <4> HIDE DEF j, C
        <4> QED
          BY <2>1, <4>1, <4>2 DEF Chained
      <3>3. a.previous \in 0 .. j - 1 /\ (a.previous # 0 => C[a.previous].th = x)
        BY <2>2 DEF Innermost, Catches
      <3> HIDE DEF a, j
      <3> QED
        BY <1>2, <3>2, <3>3
    <2>4. T.nCcalls >= 1
      <3>1. j - 1 \in 0 .. Len(C) /\ j - 1 < Len(C) /\ (j - 1) + 1 = j /\ j \in 0 .. Len(C)
            /\ Len(C) \in j .. Len(C)
        <4> HIDE DEF j
        <4> QED
          BY <1>2
      <3>2. Count(C, j) = Count(C, j - 1) + 1 /\ Count(C, j - 1) \in Nat
        <4>1. C[j].kind # "pcall"
          BY <1>7
        <4> HIDE DEF j
        <4> QED
          BY <1>2, <3>1, <4>1, CountProperties
      <3>3. Count(C, j) <= Count(C, Len(C)) /\ Count(C, Len(C)) \in Nat
        <4> HIDE DEF j
        <4> QED
          BY <1>2, <3>1, CountGrows
      <3> HIDE DEF j, C
      <3> QED
        BY <1>4, <3>2, <3>3
    <2>5. /\ t \in Thread /\ t.ci = T.ci /\ t.size = T.size /\ t.errfunc = T.errfunc
          /\ t.errorJmp = 0 /\ t.nCcalls = T.nCcalls - 1 /\ t.status = s.raise
      <3>1. s.raise \in Statuses /\ a.previous \in Nat
        BY <2>3 DEF Statuses
      <3> HIDE DEF a
      <3>2. /\ t \in Thread /\ t.ci = T.ci /\ t.size = T.size /\ t.errfunc = T.errfunc
            /\ t.errorJmp = a.previous /\ t.nCcalls = T.nCcalls - 1 /\ t.status = s.raise
        BY <1>2, <2>4, <3>1, ResumeEndedThread
      <3> HIDE DEF t
      <3> QED
        BY <2>3, <3>2
    <2>6. Is(Dies(S, x, j, s.raise), D, [th EXCEPT ![x] = t], "no")
      <3>1. S.th[x] = T /\ S.C[j] = a
        BY <1>2, <1>3
      <3>2. ResumeEnded(S.th[x], S.C[j].previous, s.raise) \in Thread
            /\ SubSeq(S.C, 1, j - 1) \in Seq(Activations)
        BY <1>2, <1>3, <2>5, <3>1
      <3>3. Is(Dies(S, x, j, s.raise), SubSeq(S.C, 1, j - 1),
               [S.th EXCEPT ![x] = ResumeEnded(S.th[x], S.C[j].previous, s.raise)], S.raise)
        <4> HIDE DEF j
        <4> QED
          BY <1>2, <1>3, <3>2, DiesIs
      <3> QED
        BY <1>3, <3>1, <3>3
    <2> HIDE DEF t
    <2>7. Left(t)
      <3>1. s.raise # "YIELD"
        BY DEF Codes
      <3>2. t.nCcalls < ERRCCALLS
        BY <1>4, <2>4, <2>5, LuaCallAssumption
      <3>3. ~ t.errfunc
        BY <1>5, <1>7, <2>2, <2>5
      <3>4. Len(t.ci) >= 1 /\ Len(t.ci) <= t.size /\ t.size <= 2 * MAXCALLS
        <4>1. a.ci \in Nat
          BY <1>2 DEF Activations
        <4> HIDE DEF a
        <4>2. Len(T.ci) >= 1
          <5> DEFINE k == a.ci
                     l == Len(T.ci)
          <5>1. k \in Nat /\ l \in Nat /\ k >= 1 /\ k <= l
            BY <1>2, <1>4, <4>1
          <5> HIDE DEF k, l
          <5>2. l >= 1
            BY <5>1
          <5> QED
            BY <5>2 DEF l
        <4> QED
          BY <1>2, <2>5, <4>2
      <3> QED
        BY <2>5, <3>1, <3>2, <3>3, <3>4 DEF Left
    <2>8. Ready(Dies(S, x, j, s.raise), host)
      <3>1. /\ Is(Dies(S, x, j, s.raise), SubSeq(C, 1, j - 1), [th EXCEPT ![C[Len(C)].th] = t], "no")
            /\ C[j].th = C[Len(C)].th /\ C[j].kind = "resume"
        BY <1>2, <1>7, <2>6
      <3> HIDE DEF C, j, a, th
      <3> QED
        BY <1>1, <1>2, <2>5, <2>7, <3>1, LeavesReady
    <2>9. Inv(ResumeFails(Dies(S, x, j, s.raise), a.wrap), host)
      BY <2>8, ResumeFailsInv
    <2> QED
      BY <1>7, <2>9 DEF S, x, T, j
  <1> QED
    BY <1>2, <1>6, <1>7

\* The handler of an error is called, or there is none.
LEMMA MessageInv ==
    ASSUME NEW host \in Nat, Inv(s, host), s.raise = "message"
    PROVE  Inv(IF L(s).errfunc THEN luaD_call(Raise(s, "no"), Cur(s), "handler")
               ELSE Raise(s, "ERRRUN"), host)
  <1> DEFINE C == s.C
             S == Raise(s, "no")
  <1>1. WeakState(s, host) /\ Protects(C) /\ C # << >> /\ C \in Seq(Activations)
    BY StateTypes DEF Inv, WeakState
  <1>2. S \in State /\ S.C = C /\ S.th = s.th /\ S.raise = "no"
    BY <1>1, RaiseIs DEF Is, WeakState
  <1>3. Weak(C, s.th, "no", host)
    BY <1>1, RaiseWeak DEF WeakState
  <1>4. Cur(S) = Cur(s)
    BY <1>2 DEF Cur
  <1>5. C[Len(C)].kind # "pcall"
    <2>1. Len(C) \in Nat /\ Len(C) \in 1 .. Len(C) /\ Protects(C)
      BY <1>1
    <2> HIDE DEF C
    <2>2. C[Len(C)].kind = "pcall" => Len(C) < Len(C)
      BY <2>1 DEF Protects
    <2> QED
      BY <2>1, <2>2
  <1> HIDE DEF C, S
  <1>6. WeakState(S, host) /\ MayBegin(S.C, S.th, "handler") /\ ProtectsWith(S.C, "handler")
    <2>1. WeakState(S, host)
      BY <1>1, <1>2, <1>3 DEF WeakState
    <2>2. MayBegin(S.C, S.th, "handler")
      BY <1>2, <1>5 DEF MayBegin
    <2>3. ProtectsWith(C, "handler")
      BY <1>1, <1>5 DEF Protects, ProtectsWith
    <2> QED
      BY <1>2, <2>1, <2>2, <2>3
  <1>7. Inv(luaD_call(S, Cur(S), "handler"), host)
    BY <1>2, <1>6, CallInv
  <1>8. Inv(Raise(s, "ERRRUN"), host)
    BY <1>1, RaiseInv DEF Codes, C
  <1> QED
    BY <1>4, <1>7, <1>8 DEF S

-----------------------------------------------------------------------------
(* Coroutines *)

\* T is the coroutine co, and it can be resumed.
Suspended(S, co, T) ==
    /\ co # Cur(S) /\ Off(S.C, co) /\ T = S.th[co] /\ T \in Thread
    /\ T.errorJmp = 0 /\ T.errfunc = FALSE
    /\ T.ci \in Seq(Frames) /\ Len(T.ci) \in Nat /\ Len(T.ci) >= 1
    /\ T.size \in Nat /\ Len(T.ci) <= T.size /\ T.size <= 2 * MAXCALLS
    /\ \/ T.status = "ok" /\ Len(T.ci) = 1
       \/ T.status = "YIELD" /\ Len(T.ci) > 2
          /\ \A k \in 2 .. Len(T.ci) - 1 : T.ci[k] = "Lua"

LEMMA SuspendedKnows ==
    ASSUME NEW S, NEW host \in Nat, WeakState(S, host), S.raise = "no", NEW co \in Threads,
           costatus(S, co) = "suspended"
    PROVE  Suspended(S, co, S.th[co])
  <1> DEFINE T == S.th[co]
             C == S.C
  <1>1. C # << >> /\ S.th \in [Threads -> Thread] /\ Weak(C, S.th, "no", host)
        /\ C[Len(C)].th = Cur(S)
    BY RunningThread DEF WeakState
  <1>2. co # Cur(S) /\ (T.status = "YIELD" \/ (T.status = "ok" /\ Len(T.ci) = 1))
    BY DEF costatus
  <1>3. Off(C, co)
    <2> SUFFICES ASSUME NEW i \in 1 .. Len(C), C[i].th = co
                 PROVE  FALSE
      BY DEF Off
    <2>1. Waiting(C, S.th, host) /\ C[Len(C)].th = Cur(S)
      BY <1>1 DEF Weak
    <2> HIDE DEF C
    <2>2. C[i].th # C[Len(C)].th
      BY <1>2, <2>1
    <2>3. S.th[C[i].th].status = "ok" /\ Len(S.th[C[i].th].ci) > 1
      BY <2>1, <2>2 DEF Waiting
    <2>4. T.status = "ok" /\ Len(T.ci) > 1
      BY <2>3
    <2>5. ~(T.status = "YIELD") /\ ~(Len(T.ci) = 1)
      <3> DEFINE st == T.status
                 k == Len(T.ci)
      <3>1. k \in Nat
        BY <1>1, ThreadTypes
      <3>2. st = "ok" /\ k > 1
        BY <2>4
      <3> HIDE DEF st, k
      <3>3. ~(st = "YIELD")
        BY <3>2
      <3>4. ~(k = 1)
        BY <3>1, <3>2
      <3> QED
        BY <3>3, <3>4 DEF st, k
    <2> QED
      BY <1>2, <2>5
  <1>4. T.errorJmp = 0 /\ T.errfunc = FALSE /\ Well(C, T)
    <2> DEFINE th == S.th
               no == "no"
    <2>1. Weak(C, th, no, host) /\ C # << >> /\ Off(C, co)
      BY <1>1, <1>3
    <2> HIDE DEF C, th, no
    <2>2. th[co].errorJmp = 0 /\ th[co].errfunc = FALSE /\ Well(C, th[co])
      BY <2>1, OffThread
    <2> QED
      BY <2>2 DEF th
  <1>5. T \in Thread /\ T.ci \in Seq(Frames) /\ Len(T.ci) \in Nat /\ T.size \in Nat
    BY <1>1, ThreadTypes
  <1>6. /\ Len(T.ci) >= 1 /\ Len(T.ci) <= T.size /\ T.size <= 2 * MAXCALLS
        /\ T.status = "YIELD" =>
               Len(T.ci) > 2 /\ \A k \in 2 .. Len(T.ci) - 1 : T.ci[k] = "Lua"
    BY <1>4 DEF Well
  <1> HIDE DEF C, T
  <1> QED
    BY <1>1, <1>2, <1>3, <1>4, <1>5, <1>6 DEF Suspended, C, T

\* A thread that is not on the C stack changes, while a C function runs.
LEMMA AsideReady ==
    ASSUME NEW S, NEW host \in Nat, Ready(S, host), NEW co \in Threads, NEW t \in Thread,
           co # Cur(S), Aside(S.C, co, t, S.th[co]), NEW R, R = At(S, co, t)
    PROVE  Ready(R, host)
  <1> DEFINE C == S.C
             u == [S.th EXCEPT ![co] = t]
  <1>1. WeakState(S, host) /\ S.raise = "no" /\ Protects(C) /\ C[Len(C)].n >= 1
        /\ Len(L(S).ci) = C[Len(C)].ci + C[Len(C)].n + 1
    BY DEF Ready
  <1>2. S \in State /\ C # << >> /\ Weak(C, S.th, "no", host) /\ Cur(S) = C[Len(C)].th
        /\ Cur(S) \in Threads /\ L(S) = S.th[Cur(S)] /\ S.th \in [Threads -> Thread]
    BY <1>1, StateTypes DEF WeakState
  <1>3. u \in [Threads -> Thread] /\ Weak(C, u, "no", host)
    BY <1>2, AsideWeak
  <1>4. Is(R, C, u, "no")
    BY <1>1, <1>2, ThreadsIs DEF At
  <1>5. R \in State /\ R.C = C /\ R.th = u /\ R.raise = "no"
    BY <1>4 DEF Is
  <1>6. u[Cur(S)] = S.th[Cur(S)]
    BY <1>2
  <1> HIDE DEF C, u
  <1>7. L(R) = L(S)
    BY <1>2, <1>5, <1>6, StateTypes
  <1>8. WeakState(R, host)
    BY <1>2, <1>3, <1>5 DEF WeakState
  <1> QED
    BY <1>1, <1>5, <1>7, <1>8 DEF Ready

\* There is no C stack left for the coroutine.
Refusing(T, n) == [T EXCEPT !.nCcalls = n, !.body = FALSE]

LEMMA RefusedReady ==
    ASSUME NEW S, NEW host \in Nat, Ready(S, host), NEW co \in Threads, NEW wrap,
           costatus(S, co) = "suspended"
    PROVE  LET R == At(S, co, Refusing(S.th[co], L(S).nCcalls))
           IN  /\ resume_error(lua_setlevel(S, co), co, wrap) = ResumeFails(R, wrap)
               /\ Ready(R, host)
  <1> DEFINE T == S.th[co]
             n == L(S).nCcalls
             t == Refusing(T, n)
             R == At(S, co, t)
             M == lua_setlevel(S, co)
  <1>1. WeakState(S, host) /\ S.raise = "no" /\ S \in State
    BY DEF Ready, WeakState
  <1>2. /\ co # Cur(S) /\ Off(S.C, co) /\ T \in Thread
        /\ Len(T.ci) >= 1 /\ Len(T.ci) <= T.size /\ T.size <= 2 * MAXCALLS
        /\ T.status = "YIELD" =>
               Len(T.ci) > 2 /\ \A k \in 2 .. Len(T.ci) - 1 : T.ci[k] = "Lua"
    <2>1. Suspended(S, co, T)
      BY <1>1, SuspendedKnows
    <2> HIDE DEF T
    <2> QED
      BY <2>1 DEF Suspended
  <1>3. n \in Nat /\ n < ERRCCALLS
    BY <1>1, RunningThread
  <1> HIDE DEF n, T
  <1>4. /\ t \in Thread /\ t.status = T.status /\ t.ci = T.ci /\ t.size = T.size
        /\ t.errorJmp = T.errorJmp /\ t.errfunc = T.errfunc /\ t.nCcalls = n
    BY <1>2, <1>3 DEF Thread, Refusing
  <1>5. M = At(S, co, [T EXCEPT !.nCcalls = n])
    BY DEF lua_setlevel, At, n, T
  <1>6. [M EXCEPT !.th[co].body = FALSE] = At(M, co, [M.th[co] EXCEPT !.body = FALSE])
    BY DEF At
  <1>7. [M EXCEPT !.th[co].body = FALSE] = R
    <2> DEFINE t1 == [T EXCEPT !.nCcalls = n]
    <2>1. t = [t1 EXCEPT !.body = FALSE]
      BY DEF Refusing
    <2>2. M = At(S, co, t1)
      BY <1>5
    <2>3. S.th \in [Threads -> Thread] /\ S \in State
      BY <1>1, StateTypes
    <2> HIDE DEF M, t1, t
    <2>4. M.th[co] = t1 /\ At(M, co, t) = At(S, co, t)
      BY <2>2, <2>3, AtAt
    <2> QED
      BY <1>6, <2>1, <2>4
  <1>8. Aside(S.C, co, t, T)
    <2> HIDE DEF t
    <2> QED
      BY <1>2, <1>3, <1>4 DEF Aside
  <1>9. Ready(R, host)
    <2>1. t \in Thread /\ R = At(S, co, t)
      BY <1>4
    <2> HIDE DEF t, R
    <2> QED
      BY <1>2, <1>8, <2>1, AsideReady DEF T
  <1>10. resume_error(M, co, wrap) = ResumeFails(R, wrap)
    BY <1>7 DEF resume_error
  <1> HIDE DEF R
  <1> QED
    BY <1>9, <1>10 DEF R, T, n

LEMMA RefusedInv ==
    ASSUME NEW S, NEW host \in Nat, Ready(S, host), NEW co \in Threads, NEW wrap,
           costatus(S, co) = "suspended"
    PROVE  Inv(resume_error(lua_setlevel(S, co), co, wrap), host)
  <1> DEFINE R == At(S, co, Refusing(S.th[co], L(S).nCcalls))
  <1>1. resume_error(lua_setlevel(S, co), co, wrap) = ResumeFails(R, wrap) /\ Ready(R, host)
    BY RefusedReady
  <1> HIDE DEF R
  <1> QED
    BY <1>1, ResumeFailsInv

\* The state in which coroutine co, resumed at level n, begins to run.
Level(T, n) == [T EXCEPT !.nCcalls = n]
Begun(T, n, m) ==
    [[[T EXCEPT !.nCcalls = n + 1] EXCEPT !.baseCcalls = n + 1] EXCEPT !.errorJmp = m + 1]
Resuming(S, co, t, a) == [At(S, co, t) EXCEPT !.C = Append(S.C, a)]

LEMMA LevelIs ==
    ASSUME NEW S \in State, NEW co \in Threads
    PROVE  lua_setlevel(S, co) = At(S, co, Level(S.th[co], L(S).nCcalls))
  BY DEF lua_setlevel, At, Level

LEMMA ResumingIs ==
    ASSUME NEW S \in State, NEW host \in Nat, WeakState(S, host), S.raise = "no",
           NEW co \in Threads, NEW wrap, Suspended(S, co, S.th[co]),
           NEW n, n = L(S).nCcalls
    PROVE  lua_resume(lua_setlevel(S, co), co, wrap) =
               resume(Resuming(S, co, Begun(S.th[co], n, Len(S.C)),
                               Resumption(S.C, S.th, co, 0, wrap)), co)
  <1> DEFINE T == S.th[co]
             m == Len(S.C)
             M == lua_setlevel(S, co)
             t0 == Level(T, n)
             t1 == [t0 EXCEPT !.nCcalls = n + 1]
             t2 == [t1 EXCEPT !.baseCcalls = n + 1]
             t3 == [t2 EXCEPT !.errorJmp = m + 1]
             E1 == [M EXCEPT !.th[co].nCcalls = n + 1]
             E2 == [M EXCEPT !.th[co].nCcalls = n + 1, !.th[co].baseCcalls = n + 1]
             E3 == [M EXCEPT !.th[co].nCcalls = n + 1, !.th[co].baseCcalls = n + 1,
                             !.th[co].errorJmp = m + 1]
             a == [Activation(M, "resume", co, FALSE, wrap) EXCEPT !.ci = 1]
             r == Resumption(S.C, S.th, co, 0, wrap)
  <1>1. /\ S.th \in [Threads -> Thread] /\ T \in Thread /\ S.C \in Seq(Activations)
        /\ S.C # << >> /\ L(S) = S.th[S.C[m].th]
    BY StateTypes DEF WeakState
  <1>2. M = At(S, co, t0)
    BY LevelIs
  <1> HIDE DEF M
  <1>3. M.th[co] = t0 /\ M.C = S.C
    BY <1>2, AtAt
  <1>4. t0.nCcalls = n /\ t0.errorJmp = 0 /\ t0.errfunc = FALSE
    <2>1. T.errorJmp = 0 /\ T.errfunc = FALSE /\ T \in Thread
      BY DEF Suspended
    <2> HIDE DEF T
    <2> QED
      BY <2>1 DEF Level, Thread
  <1>5. a = r
    <2>1. a = [kind |-> "resume", th |-> co, n |-> 0, handler |-> FALSE, wrap |-> wrap,
               ci |-> 1, previous |-> M.th[co].errorJmp, nCcalls |-> M.th[co].nCcalls,
               errfunc |-> M.th[co].errfunc]
      <3> DEFINE l == Len(M.th[co].ci)
                 p == M.th[co].errorJmp
                 q == M.th[co].nCcalls
                 e == M.th[co].errfunc
                 kind == "resume"
                 no == FALSE
                 one == 1
                 none == 0
                 b == [kind |-> kind, th |-> co, n |-> none, handler |-> no, wrap |-> wrap,
                       ci |-> l, previous |-> p, nCcalls |-> q, errfunc |-> e]
      <3>1. a = [b EXCEPT !.ci = one]
        BY DEF Activation
      <3> HIDE DEF l, p, q, e, a, kind, no, one, none
      <3>2. [b EXCEPT !.ci = one] =
                [kind |-> kind, th |-> co, n |-> none, handler |-> no, wrap |-> wrap,
                 ci |-> one, previous |-> p, nCcalls |-> q, errfunc |-> e]
        OBVIOUS
      <3> HIDE DEF b
      <3> QED
        BY <3>1, <3>2 DEF l, p, q, e, kind, no, one, none
    <2>2. n = S.th[S.C[Len(S.C)].th].nCcalls
      BY <1>1
    <2> HIDE DEF t0, a
    <2>3. a = [kind |-> "resume", th |-> co, n |-> 0, handler |-> FALSE, wrap |-> wrap,
               ci |-> 1, previous |-> 0, nCcalls |-> n, errfunc |-> FALSE]
      BY <1>3, <1>4, <2>1
    <2> QED
      BY <2>2, <2>3 DEF Resumption
  <1>6. lua_resume(M, co, wrap) = resume([E3 EXCEPT !.C = Append(E3.C, a)], co)
    <2>1. [M EXCEPT !.th[co].nCcalls = @ + 1, !.th[co].baseCcalls = M.th[co].nCcalls + 1,
                    !.th[co].errorJmp = Len(M.C) + 1] = E3
      BY <1>3, <1>4
    <2> QED
      BY <2>1 DEF lua_resume, Push
  <1> HIDE DEF a, r
  <1>7. E1 = At(M, co, [M.th[co] EXCEPT !.nCcalls = n + 1])
    BY DEF At
  <1>8. E2 = At(E1, co, [E1.th[co] EXCEPT !.baseCcalls = n + 1])
    BY DEF At
  <1>9. E3 = At(E2, co, [E2.th[co] EXCEPT !.errorJmp = m + 1])
    BY DEF At
  <1> HIDE DEF E1, E2, E3, T, t0
  <1>10. E1 = At(S, co, t1)
    BY <1>2, <1>3, <1>7, AtAt
  <1> HIDE DEF t1
  <1>11. E2 = At(S, co, t2)
    BY <1>8, <1>10, AtAt
  <1> HIDE DEF t2
  <1>12. E3 = At(S, co, t3)
    BY <1>9, <1>11, AtAt
  <1>13. t3 = Begun(T, n, m)
    <2>1. t3 = [[[[T EXCEPT !.nCcalls = n] EXCEPT !.nCcalls = n + 1] EXCEPT !.baseCcalls = n + 1]
                EXCEPT !.errorJmp = m + 1]
      BY DEF t0, t1, t2, Level
    <2> QED
      BY <1>1, <2>1 DEF Begun, Thread
  <1> HIDE DEF t3
  <1>14. E3.C = S.C
    BY <1>12, AtAt
  <1> QED
    BY <1>5, <1>6, <1>12, <1>13, <1>14 DEF Resuming, M, r, T, m

LEMMA BegunThread ==
    ASSUME NEW T \in Thread, NEW n \in Nat, NEW m \in Nat
    PROVE  LET t == Begun(T, n, m)
           IN  /\ t \in Thread /\ t.nCcalls = n + 1 /\ t.baseCcalls = n + 1 /\ t.errorJmp = m + 1
               /\ t.status = T.status /\ t.ci = T.ci /\ t.size = T.size /\ t.errfunc = T.errfunc
  <1> DEFINE t1 == [T EXCEPT !.nCcalls = n + 1]
             t2 == [t1 EXCEPT !.baseCcalls = n + 1]
             t3 == [t2 EXCEPT !.errorJmp = m + 1]
  <1>1. /\ t1 \in Thread /\ t1.nCcalls = n + 1
        /\ t1.status = T.status /\ t1.ci = T.ci /\ t1.size = T.size /\ t1.errfunc = T.errfunc
    BY DEF Thread
  <1>2. t3 = Begun(T, n, m)
    BY DEF Begun
  <1> HIDE DEF t1
  <1>3. /\ t2 \in Thread /\ t2.nCcalls = n + 1 /\ t2.baseCcalls = n + 1
        /\ t2.status = T.status /\ t2.ci = T.ci /\ t2.size = T.size /\ t2.errfunc = T.errfunc
    BY <1>1 DEF Thread
  <1> HIDE DEF t2
  <1>4. /\ t3 \in Thread /\ t3.nCcalls = n + 1 /\ t3.baseCcalls = n + 1 /\ t3.errorJmp = m + 1
        /\ t3.status = T.status /\ t3.ci = T.ci /\ t3.size = T.size /\ t3.errfunc = T.errfunc
    BY <1>3 DEF Thread
  <1> HIDE DEF t3
  <1> QED
    BY <1>2, <1>4

LEMMA ResumptionIs ==
    ASSUME NEW C, NEW th, NEW co \in Threads, NEW n \in Nat, NEW wrap \in BOOLEAN,
           th[C[Len(C)].th].nCcalls \in Nat
    PROVE  LET a == Resumption(C, th, co, n, wrap)
           IN  /\ a \in Activations /\ a.kind = "resume" /\ a.th = co /\ a.n = n /\ a.ci = 1
               /\ \A k \in Nat : [a EXCEPT !.n = k] = Resumption(C, th, co, k, wrap)
  <1> DEFINE w == th[C[Len(C)].th].nCcalls
             a == [kind |-> "resume", th |-> co, n |-> n, handler |-> FALSE, wrap |-> wrap,
                   ci |-> 1, previous |-> 0, nCcalls |-> w, errfunc |-> FALSE]
             b(k) == [kind |-> "resume", th |-> co, n |-> k, handler |-> FALSE, wrap |-> wrap,
                      ci |-> 1, previous |-> 0, nCcalls |-> w, errfunc |-> FALSE]
             kind == "resume"
             no == FALSE
             one == 1
             none == 0
  <1>1. w \in Nat
    OBVIOUS
  <1>2. a = Resumption(C, th, co, n, wrap) /\ \A k : b(k) = Resumption(C, th, co, k, wrap)
    BY DEF Resumption
  <1> HIDE DEF w
  <1>3. a.kind = "resume" /\ a.th = co /\ a.n = n /\ a.ci = 1
    OBVIOUS
  <1>4. ASSUME NEW k \in Nat
        PROVE  [a EXCEPT !.n = k] = b(k)
    <2> HIDE DEF kind, no, one, none
    <2>1. [[kind |-> kind, th |-> co, n |-> n, handler |-> no, wrap |-> wrap, ci |-> one,
            previous |-> none, nCcalls |-> w, errfunc |-> no] EXCEPT !.n = k] =
              [kind |-> kind, th |-> co, n |-> k, handler |-> no, wrap |-> wrap, ci |-> one,
               previous |-> none, nCcalls |-> w, errfunc |-> no]
      OBVIOUS
    <2> QED
      BY <2>1 DEF kind, no, one, none
  <1>5. a \in Activations
    BY <1>1 DEF Activations, Kinds
  <1> HIDE DEF a, b
  <1> QED
    BY <1>2, <1>3, <1>4, <1>5

\* The activation of a coroutine that runs n Lua functions is on top.
LEMMA ResumingWeak ==
    ASSUME NEW S, NEW host \in Nat, Ready(S, host), NEW co \in Threads, Off(S.C, co),
           NEW n \in Nat, NEW wrap \in BOOLEAN, NEW t \in Thread,
           L(S).nCcalls < MAXCCALLS, Resumes(S.C, n, t, L(S)),
           NEW R, R = Resuming(S, co, t, Resumption(S.C, S.th, co, n, wrap))
    PROVE  /\ WeakState(R, host) /\ R.raise = "no" /\ Protects(R.C)
           /\ L(R) = t /\ Cur(R) = co
           /\ Last(R.C) = Resumption(S.C, S.th, co, n, wrap) /\ R.C[Len(R.C)] = Last(R.C)
  <1> DEFINE C == S.C
             m == Len(C)
             a == Resumption(C, S.th, co, n, wrap)
             D == Append(C, a)
             u == [S.th EXCEPT ![co] = t]
  <1>1. /\ S \in State /\ C \in Seq(Activations) /\ C # << >> /\ S.th \in [Threads -> Thread]
        /\ Weak(C, S.th, "no", host) /\ S.raise = "no" /\ Protects(C) /\ C[m].n >= 1
        /\ L(S) = S.th[C[m].th] /\ Len(L(S).ci) = C[m].ci + C[m].n + 1 /\ m \in Nat /\ m \in 1 .. m
    BY StateTypes DEF Ready, WeakState
  <1>2. a \in Activations /\ D \in Seq(Activations) /\ u \in [Threads -> Thread]
        /\ Weak(D, u, "no", host)
    <2>1. /\ C[Len(C)].n >= 1
          /\ Len(S.th[C[Len(C)].th].ci) = C[Len(C)].ci + C[Len(C)].n + 1
          /\ S.th[C[Len(C)].th].nCcalls < MAXCCALLS
          /\ Resumes(C, n, t, S.th[C[Len(C)].th])
      BY <1>1
    <2>2. C \in Seq(Activations) /\ C # << >> /\ S.th \in [Threads -> Thread]
          /\ Weak(C, S.th, "no", host) /\ Off(C, co) /\ "no" # "ERRERR"
      BY <1>1
    <2> HIDE DEF C
    <2>3. LET e == Resumption(C, S.th, co, n, wrap)
          IN  /\ e \in Activations
              /\ Append(C, e) \in Seq(Activations)
              /\ [S.th EXCEPT ![co] = t] \in [Threads -> Thread]
              /\ Weak(Append(C, e), [S.th EXCEPT ![co] = t], "no", host)
      <3> DEFINE th == S.th
                 no == "no"
      <3>1. /\ C \in Seq(Activations) /\ C # << >> /\ th \in [Threads -> Thread]
            /\ Weak(C, th, no, host) /\ Off(C, co) /\ no # "ERRERR"
        BY <2>2
      <3>2. /\ C[Len(C)].n >= 1
            /\ Len(th[C[Len(C)].th].ci) = C[Len(C)].ci + C[Len(C)].n + 1
            /\ th[C[Len(C)].th].nCcalls < MAXCCALLS
            /\ Resumes(C, n, t, th[C[Len(C)].th])
        BY <2>1
      <3> HIDE DEF th, no
      <3>3. LET e == Resumption(C, th, co, n, wrap)
            IN  /\ e \in Activations
                /\ Append(C, e) \in Seq(Activations)
                /\ [th EXCEPT ![co] = t] \in [Threads -> Thread]
                /\ Weak(Append(C, e), [th EXCEPT ![co] = t], no, host)
        BY <3>1, <3>2, ResumeWeak
      <3> QED
        BY <3>3 DEF th, no
    <2> QED
      BY <2>3
  <1>3. C[m].kind # "pcall"
    <2>1. C[m].kind = "pcall" => C[m].n = 0
      BY RunningThread DEF Ready
    <2> QED
      BY <1>1, <2>1
  <1>4. ProtectsWith(C, a.kind) /\ a.kind # "pcall" /\ a.th = co
    <2>1. a.kind = "resume" /\ a.th = co
      BY DEF Resumption
    <2>2. ProtectsWith(C, "resume")
      BY <1>1, <1>3 DEF Protects, ProtectsWith
    <2> HIDE DEF a
    <2> QED
      BY <2>1, <2>2
  <1>5. R = [S EXCEPT !.th = u, !.C = D]
    BY DEF Resuming, At
  <1> HIDE DEF a, C
  <1>6. Protects(D)
    BY <1>1, <1>2, <1>4, PushProtects
  <1>7. Len(D) = m + 1 /\ D[m + 1] = a /\ D # << >> /\ D[Len(D)] = a
    BY <1>1, <1>2, PushLen DEF m
  <1>8. u[co] = t
    BY <1>1
  <1> HIDE DEF D, u
  <1>9. R \in State /\ R.C = D /\ R.th = u /\ R.raise = "no"
    BY <1>1, <1>2, <1>5 DEF State
  <1>10. WeakState(R, host)
    BY <1>2, <1>7, <1>9 DEF WeakState
  <1>11. Cur(R) = co /\ L(R) = t /\ Last(R.C) = a
    BY <1>4, <1>7, <1>8, <1>9, StateTypes
  <1> QED
    BY <1>6, <1>7, <1>9, <1>10, <1>11 DEF a, C

\* A new coroutine calls its body.
LEMMA StartedInv ==
    ASSUME NEW S, NEW host \in Nat, Ready(S, host), NEW co \in Threads, NEW wrap \in BOOLEAN,
           Suspended(S, co, S.th[co]), S.th[co].status = "ok", Len(S.th[co].ci) = 1,
           L(S).nCcalls < MAXCCALLS,
           NEW P0, P0 = Resuming(S, co, Begun(S.th[co], L(S).nCcalls, Len(S.C)),
                                 Resumption(S.C, S.th, co, 0, wrap))
    PROVE  Inv(Started(P0, co), host)
  <1> DEFINE T == S.th[co]
             t0 == Begun(T, L(S).nCcalls, Len(S.C))
             t == [t0 EXCEPT !.body = FALSE]
             a == Resumption(S.C, S.th, co, 0, wrap)
             R == Resuming(S, co, t, a)
             m == Len(S.C)
  <1>1. T \in Thread /\ Off(S.C, co) /\ T.errfunc = FALSE /\ Len(T.ci) <= T.size
        /\ T.size <= 2 * MAXCALLS /\ T.status = "ok" /\ Len(T.ci) = 1
    BY DEF Suspended
  <1>2. L(S).nCcalls \in Nat /\ m \in Nat /\ S \in State /\ S.th \in [Threads -> Thread]
    BY RunningThread DEF Ready, WeakState
  <1> HIDE DEF T, m
  <1>3. /\ t0 \in Thread /\ t0.nCcalls = L(S).nCcalls + 1 /\ t0.baseCcalls = L(S).nCcalls + 1
        /\ t0.errorJmp = m + 1 /\ t0.status = "ok" /\ t0.ci = T.ci /\ t0.size = T.size
        /\ t0.errfunc = FALSE
    <2> DEFINE l == L(S).nCcalls
    <2>1. l \in Nat
      BY <1>2
    <2> HIDE DEF l
    <2>2. LET e == Begun(T, l, m)
          IN  /\ e \in Thread /\ e.nCcalls = l + 1 /\ e.baseCcalls = l + 1 /\ e.errorJmp = m + 1
              /\ e.status = T.status /\ e.ci = T.ci /\ e.size = T.size /\ e.errfunc = T.errfunc
      BY <1>1, <1>2, <2>1, BegunThread
    <2>3. t0 = Begun(T, l, m)
      BY DEF l, m, T
    <2> HIDE DEF t0
    <2> QED
      BY <1>1, <2>2, <2>3 DEF l
  <1>4. P0 = Resuming(S, co, t0, a)
    BY DEF T
  <1> HIDE DEF t0, a
  <1>5. /\ t \in Thread /\ t.nCcalls = L(S).nCcalls + 1 /\ t.baseCcalls = L(S).nCcalls + 1
        /\ t.errorJmp = m + 1 /\ t.status = "ok" /\ t.ci = T.ci /\ t.size = T.size
        /\ t.errfunc = FALSE
    <2> DEFINE l == L(S).nCcalls
    <2>1. /\ t0 \in Thread /\ t0.nCcalls = l + 1 /\ t0.baseCcalls = l + 1
          /\ t0.errorJmp = m + 1 /\ t0.status = "ok" /\ t0.ci = T.ci /\ t0.size = T.size
          /\ t0.errfunc = FALSE
      BY <1>3
    <2> HIDE DEF l
    <2>2. /\ t \in Thread /\ t.nCcalls = t0.nCcalls /\ t.baseCcalls = t0.baseCcalls
          /\ t.errorJmp = t0.errorJmp /\ t.status = t0.status /\ t.ci = t0.ci
          /\ t.size = t0.size /\ t.errfunc = t0.errfunc
      BY <2>1 DEF Thread
    <2> HIDE DEF t
    <2> QED
      BY <2>1, <2>2 DEF l
  <1>6. [P0 EXCEPT !.th[co].body = FALSE] = R
    <2>1. [P0 EXCEPT !.th[co].body = FALSE] = At(P0, co, [P0.th[co] EXCEPT !.body = FALSE])
      BY DEF At
    <2>2. P0.th = [S.th EXCEPT ![co] = t0] /\ P0.th[co] = t0
      <3> DEFINE u == [S.th EXCEPT ![co] = t0]
                 D == Append(S.C, a)
      <3>1. P0 = [[S EXCEPT !.th = u] EXCEPT !.C = D] /\ u[co] = t0
        BY <1>2, <1>4 DEF Resuming, At
      <3> HIDE DEF u, D
      <3>2. P0.th = u
        BY <1>2, <3>1 DEF State
      <3> QED
        BY <3>1, <3>2 DEF u
    <2>3. At(P0, co, t) = Resuming(S, co, t, a)
      <3>1. At(P0, co, t) = [P0 EXCEPT !.th = [S.th EXCEPT ![co] = t]]
        <4>1. [[S.th EXCEPT ![co] = t0] EXCEPT ![co] = t] = [S.th EXCEPT ![co] = t]
          BY <1>2
        <4> QED
          BY <2>2, <4>1 DEF At
      <3> QED
        BY <1>2, <1>4, <3>1 DEF Resuming, At, State
    <2> QED
      BY <2>1, <2>2, <2>3
  <1> HIDE DEF t
  <1>7. Resumes(S.C, 0, t, L(S))
    <2>1. Len(t.ci) = 1 + 0 /\ 2 .. 1 + 0 = {}
      BY <1>1, <1>5
    <2>2. \A k \in 2 .. 1 + 0 : t.ci[k] = "Lua"
      BY <2>1
    <2>3. Len(t.ci) <= t.size
      BY <1>1, <1>5
    <2> QED
      BY <1>1, <1>5, <2>1, <2>2, <2>3 DEF Resumes, m
  <1>8. /\ WeakState(R, host) /\ R.raise = "no" /\ Protects(R.C)
        /\ L(R) = t /\ R.C[Len(R.C)] = a
    <2> HIDE DEF R
    <2>1. R = Resuming(S, co, t, Resumption(S.C, S.th, co, 0, wrap))
      BY DEF R, a
    <2> QED
      BY <1>1, <1>5, <1>7, <2>1, ResumingWeak DEF a
  <1>9. a.kind # "pcall" /\ a.ci + a.n = 1
    BY DEF a, Resumption
  <1>10. Inv(EnterLua(R), host)
    <2> HIDE DEF R
    <2> QED
      BY <1>1, <1>5, <1>8, <1>9, EnterInv
  <1> QED
    BY <1>6, <1>10 DEF Started

\* A suspended coroutine completes its call of yield.
LEMMA ContinuedInv ==
    ASSUME NEW S, NEW host \in Nat, Ready(S, host), NEW co \in Threads, NEW wrap \in BOOLEAN,
           Suspended(S, co, S.th[co]), S.th[co].status = "YIELD",
           L(S).nCcalls < MAXCCALLS,
           NEW P0, P0 = Resuming(S, co, Begun(S.th[co], L(S).nCcalls, Len(S.C)),
                                 Resumption(S.C, S.th, co, 0, wrap))
    PROVE  Inv(Continued(P0, co), host)
  <1> DEFINE T == S.th[co]
             t0 == Begun(T, L(S).nCcalls, Len(S.C))
             n == Len(T.ci) - 2
             ci == SubSeq(T.ci, 1, Len(T.ci) - 1)
             t1 == [t0 EXCEPT !.ci = ci]
             t == [t1 EXCEPT !.status = "ok"]
             a0 == Resumption(S.C, S.th, co, 0, wrap)
             a == Resumption(S.C, S.th, co, n, wrap)
             R == Resuming(S, co, t, a)
             m == Len(S.C)
             D0 == Append(S.C, a0)
             D == Append(S.C, a)
  <1>1. T \in Thread /\ Off(S.C, co) /\ T.errfunc = FALSE /\ Len(T.ci) <= T.size
        /\ T.size <= 2 * MAXCALLS /\ T.status = "YIELD" /\ Len(T.ci) > 2
        /\ (\A k \in 2 .. Len(T.ci) - 1 : T.ci[k] = "Lua")
        /\ T.ci \in Seq(Frames) /\ Len(T.ci) \in Nat /\ T.size \in Nat
    <2>1. Suspended(S, co, T) /\ T.status = "YIELD"
      OBVIOUS
    <2> HIDE DEF T
    <2> QED
      BY <2>1 DEF Suspended
  <1>2. /\ L(S).nCcalls \in Nat /\ m \in Nat /\ S \in State /\ S.th \in [Threads -> Thread]
        /\ S.C \in Seq(Activations) /\ S.raise = "no"
    BY RunningThread DEF Ready, WeakState
  <1> HIDE DEF T, m
  <1>3. /\ t0 \in Thread /\ t0.nCcalls = L(S).nCcalls + 1 /\ t0.baseCcalls = L(S).nCcalls + 1
        /\ t0.errorJmp = m + 1 /\ t0.ci = T.ci /\ t0.size = T.size
        /\ t0.errfunc = FALSE
    <2> DEFINE l == L(S).nCcalls
    <2>1. l \in Nat
      BY <1>2
    <2> HIDE DEF l
    <2>2. LET e == Begun(T, l, m)
          IN  /\ e \in Thread /\ e.nCcalls = l + 1 /\ e.baseCcalls = l + 1 /\ e.errorJmp = m + 1
              /\ e.status = T.status /\ e.ci = T.ci /\ e.size = T.size /\ e.errfunc = T.errfunc
      BY <1>1, <1>2, <2>1, BegunThread
    <2>3. t0 = Begun(T, l, m)
      BY DEF l, m, T
    <2> HIDE DEF t0
    <2> QED
      BY <1>1, <2>2, <2>3 DEF l
  <1>4. P0 = Resuming(S, co, t0, a0)
    BY DEF T
  <1>5. n \in Nat /\ ci \in Seq(Frames) /\ Len(ci) = n + 1 /\ ci = Front(T.ci)
        /\ (\A k \in 1 .. n + 1 : ci[k] = T.ci[k]) /\ n >= 1
    <2> DEFINE c == T.ci
    <2>1. c \in Seq(Frames) /\ Len(c) \in Nat /\ Len(c) > 2
      BY <1>1
    <2> HIDE DEF c
    <2>2. /\ Len(c) - 2 \in Nat /\ SubSeq(c, 1, Len(c) - 1) \in Seq(Frames)
          /\ Len(SubSeq(c, 1, Len(c) - 1)) = Len(c) - 2 + 1
          /\ SubSeq(c, 1, Len(c) - 1) = Front(c)
          /\ (\A k \in 1 .. Len(c) - 2 + 1 : SubSeq(c, 1, Len(c) - 1)[k] = c[k])
          /\ Len(c) - 2 >= 1
      BY <2>1 DEF Front
    <2> QED
      BY <2>2 DEF c
  <1>6. \A k \in 2 .. n + 1 : ci[k] = "Lua"
    <2>1. \A k \in 2 .. n + 1 : k \in 2 .. Len(T.ci) - 1 /\ k \in 1 .. n + 1
      BY <1>1, <1>5
    <2> HIDE DEF n, ci
    <2> QED
      BY <1>1, <1>5, <2>1
  <1>7. S.th[S.C[Len(S.C)].th].nCcalls \in Nat
    <2>1. L(S) = S.th[S.C[Len(S.C)].th]
      BY RunningThread DEF Ready
    <2> QED
      BY <1>2, <2>1
  <1>8. /\ [a0 EXCEPT !.n = n] = a /\ a.ci = 1 /\ a.n = n /\ a0.th = co
        /\ a0 \in Activations /\ a \in Activations
    <2> DEFINE C == S.C
               th == S.th
               zero == 0
    <2>1. th[C[Len(C)].th].nCcalls \in Nat /\ n \in Nat /\ zero \in Nat
      BY <1>5, <1>7
    <2>2. a0 = Resumption(C, th, co, zero, wrap) /\ a = Resumption(C, th, co, n, wrap)
      OBVIOUS
    <2> HIDE DEF n, C, th, zero
    <2>3. /\ Resumption(C, th, co, zero, wrap) \in Activations
          /\ Resumption(C, th, co, zero, wrap).th = co
          /\ [Resumption(C, th, co, zero, wrap) EXCEPT !.n = n] = Resumption(C, th, co, n, wrap)
      BY <2>1, ResumptionIs
    <2>4. /\ Resumption(C, th, co, n, wrap) \in Activations
          /\ Resumption(C, th, co, n, wrap).ci = 1 /\ Resumption(C, th, co, n, wrap).n = n
      BY <2>1, ResumptionIs
    <2> HIDE DEF a0, a
    <2> QED
      BY <2>2, <2>3, <2>4
  <1> HIDE DEF t0, n, ci
  <1>9. /\ t1 \in Thread /\ t1.nCcalls = L(S).nCcalls + 1 /\ t1.baseCcalls = L(S).nCcalls + 1
        /\ t1.errorJmp = m + 1 /\ t1.ci = ci /\ t1.size = T.size /\ t1.errfunc = FALSE
    BY <1>3, <1>5 DEF Thread
  <1> HIDE DEF t1
  <1>10. /\ t \in Thread /\ t.nCcalls = L(S).nCcalls + 1 /\ t.baseCcalls = L(S).nCcalls + 1
        /\ t.errorJmp = m + 1 /\ t.ci = ci /\ t.size = T.size /\ t.errfunc = FALSE
        /\ t.status = "ok"
    BY <1>9 DEF Thread, Statuses
  <1> HIDE DEF t, a, a0
  <1>11. Resumes(S.C, n, t, L(S))
    <2>1. Len(t.ci) = 1 + n /\ Len(t.ci) <= t.size
      BY <1>1, <1>5, <1>10 DEF n
    <2>2. \A k \in 2 .. 1 + n : t.ci[k] = "Lua"
      BY <1>5, <1>6, <1>10
    <2> QED
      BY <1>1, <1>10, <2>1, <2>2 DEF Resumes, m
  <1>12. /\ WeakState(R, host) /\ R.raise = "no" /\ Protects(R.C)
        /\ L(R) = t /\ Last(R.C) = a
    <2> HIDE DEF R
    <2>1. R = Resuming(S, co, t, Resumption(S.C, S.th, co, n, wrap))
      BY DEF R, a
    <2> QED
      BY <1>1, <1>5, <1>10, <1>11, <2>1, ResumingWeak DEF a
  <1>13. Exact(R)
    BY <1>5, <1>8, <1>10, <1>12 DEF Exact
  <1>14. Inv(R, host)
    BY <1>12, <1>13 DEF Inv, WeakState
  <1>15. Continued(P0, co) = R
    <2> DEFINE P1 == poscall(P0)
               P2 == At(P1, co, t)
    <2>1. P0 = [S EXCEPT !.th = [S.th EXCEPT ![co] = t0], !.C = D0]
      BY <1>4 DEF Resuming, At
    <2>2. P0.th = [S.th EXCEPT ![co] = t0] /\ P0.th[co] = t0 /\ P0.C = D0
      BY <1>2, <2>1 DEF State
    <2>3. Len(D0) = m + 1 /\ D0[m + 1] = a0 /\ Last(D0) = a0 /\ [D0 EXCEPT ![m + 1] = a] = D
      <3> DEFINE C == S.C
      <3>1. C \in Seq(Activations) /\ a0 \in Activations /\ a \in Activations
        BY <1>2, <1>8
      <3> HIDE DEF C
      <3>2. /\ Len(Append(C, a0)) = Len(C) + 1 /\ Append(C, a0)[Len(C) + 1] = a0
            /\ Last(Append(C, a0)) = a0
            /\ [Append(C, a0) EXCEPT ![Len(C) + 1] = a] = Append(C, a)
        <4>1. Len(Append(C, a0)) = Len(C) + 1 /\ Append(C, a0)[Len(C) + 1] = a0
          BY <3>1
        <4>2. Last(Append(C, a0)) = a0
          BY <4>1 DEF Last
        <4>3. [Append(C, a0) EXCEPT ![Len(C) + 1] = a] = Append(C, a)
          <5> DEFINE Z == [Append(C, a0) EXCEPT ![Len(C) + 1] = a]
          <5>1. Append(C, a0) \in Seq(Activations) /\ Append(C, a) \in Seq(Activations)
                /\ Len(C) \in Nat
            BY <3>1
          <5>2. Z \in Seq(Activations) /\ Len(Z) = Len(C) + 1
            BY <3>1, <4>1, <5>1
          <5>3. Len(Append(C, a)) = Len(C) + 1
            BY <3>1
          <5>4. ASSUME NEW i \in 1 .. Len(C) + 1
                PROVE  Z[i] = Append(C, a)[i]
            <6>1. CASE i = Len(C) + 1
              BY <3>1, <4>1, <5>1, <6>1
            <6>2. CASE i # Len(C) + 1
              <7>1. i \in 1 .. Len(C) /\ Append(C, a0)[i] = C[i] /\ Append(C, a)[i] = C[i]
                BY <3>1, <5>1, <6>2
              <7>2. Z[i] = Append(C, a0)[i]
                <8> DEFINE A == Append(C, a0)
                           q == Len(C) + 1
                <8>1. A \in Seq(Activations) /\ Len(A) = q /\ i \in 1 .. q /\ i # q
                  BY <4>1, <5>1, <6>2
                <8> HIDE DEF A, q
                <8>2. [A EXCEPT ![q] = a][i] = A[i]
                  BY <8>1
                <8> QED
                  BY <8>2 DEF A, q
              <7> QED
                BY <7>1, <7>2
            <6> QED
              BY <6>1, <6>2
          <5> HIDE DEF Z
          <5>5. Z = Append(C, a)
            BY <5>1, <5>2, <5>3, <5>4
          <5> QED
            BY <5>5 DEF Z
        <4> QED
          BY <4>1, <4>2, <4>3
      <3> QED
        BY <3>2 DEF C, m
    <2>4. Cur(P0) = co
      BY <1>8, <2>2, <2>3 DEF Cur
    <2>5. P1 = At(P0, co, t1)
      <3>1. P1 = At(P0, co, [P0.th[co] EXCEPT !.ci = Front(P0.th[co].ci)])
        BY <2>4 DEF poscall, At
      <3>2. Front(P0.th[co].ci) = ci
        BY <1>3, <1>5, <2>2
      <3> QED
        BY <2>2, <3>1, <3>2 DEF t1
    <2> HIDE DEF D0, D
    <2>6. P1 = [S EXCEPT !.th = [S.th EXCEPT ![co] = t1], !.C = D0]
      BY <1>2, <2>1, <2>5 DEF At, State
    <2>7. P1.th[co] = t1 /\ P1.C = D0 /\ P1.th = [S.th EXCEPT ![co] = t1]
      BY <1>2, <2>6 DEF State
    <2>8. Continued(P0, co) = [P2 EXCEPT !.C = [P2.C EXCEPT ![m + 1] = [P2.C[m + 1] EXCEPT !.n = n]]]
      <3>1. Len(P0.C) = m + 1 /\ Len(P0.th[co].ci) - 2 = n
        BY <1>3, <2>2, <2>3 DEF n
      <3>2. [P1 EXCEPT !.th[co].status = "ok"] = P2
        BY <2>7 DEF At, t
      <3>3. Continued(P0, co) = [[P1 EXCEPT !.th[co].status = "ok"] EXCEPT !.C[Len(P0.C)].n = Len(P0.th[co].ci) - 2]
        BY DEF Continued
      <3> HIDE DEF P1, P2
      <3>4. Continued(P0, co) = [P2 EXCEPT !.C[m + 1].n = n]
        BY <3>1, <3>2, <3>3
      <3> QED
        BY <3>4
    <2> HIDE DEF P1
    <2>9. P2 = [S EXCEPT !.th = [S.th EXCEPT ![co] = t], !.C = D0]
      BY <1>2, <2>6 DEF At, State
    <2>10. P2.C = D0 /\ [P2.C EXCEPT ![m + 1] = [P2.C[m + 1] EXCEPT !.n = n]] = D
      BY <1>2, <1>8, <2>3, <2>9 DEF State
    <2> HIDE DEF P2
    <2>11. Continued(P0, co) = [P2 EXCEPT !.C = D]
      BY <2>8, <2>10
    <2>12. R = [S EXCEPT !.th = [S.th EXCEPT ![co] = t], !.C = D]
      BY DEF Resuming, At, D
    <2> HIDE DEF R
    <2> QED
      BY <2>9, <2>11, <2>12
  <1> QED
    BY <1>14, <1>15

LEMMA AuxresumeInv ==
    ASSUME NEW S, NEW host \in Nat, Ready(S, host), NEW co \in Threads, NEW wrap \in BOOLEAN
    PROVE  Inv(auxresume(S, co, wrap), host)
  <1>1. CASE costatus(S, co) # "suspended"
    BY <1>1, ResumeFailsInv DEF auxresume
  <1>2. CASE costatus(S, co) = "suspended" /\ L(S).nCcalls >= MAXCCALLS
    <2>1. Inv(resume_error(lua_setlevel(S, co), co, wrap), host)
      BY <1>2, RefusedInv
    <2> QED
      BY <1>2, <2>1 DEF auxresume
  <1>3. CASE costatus(S, co) = "suspended" /\ ~ (L(S).nCcalls >= MAXCCALLS)
    <2> DEFINE T == S.th[co]
               a == Resumption(S.C, S.th, co, 0, wrap)
               t == Begun(T, L(S).nCcalls, Len(S.C))
               P0 == Resuming(S, co, t, a)
    <2>1. WeakState(S, host) /\ S.raise = "no" /\ S \in State /\ S.th \in [Threads -> Thread]
          /\ L(S).nCcalls \in Nat /\ Len(S.C) \in Nat
      BY RunningThread DEF Ready, WeakState
    <2>2. Suspended(S, co, S.th[co])
      BY <1>3, <2>1, SuspendedKnows
    <2>3. lua_resume(lua_setlevel(S, co), co, wrap) = resume(P0, co)
      BY <2>1, <2>2, ResumingIs
    <2>4. P0.th[co].status = T.status
      <3>1. T \in Thread
        BY <2>2 DEF Suspended
      <3> HIDE DEF T
      <3>2. t.status = T.status
        BY <2>1, <3>1, BegunThread
      <3> HIDE DEF t
      <3> QED
        BY <2>1, <3>2 DEF Resuming, At, State
    <2>5. T.status = "YIELD" \/ (T.status = "ok" /\ Len(T.ci) = 1)
      BY <2>2 DEF Suspended
    <2>6. L(S).nCcalls < MAXCCALLS
      BY <1>3, <2>1, LuaCallAssumption
    <2>7. auxresume(S, co, wrap) = resume(P0, co)
      BY <1>3, <2>3 DEF auxresume
    <2>8. CASE T.status = "ok"
      <3>1. Inv(Started(P0, co), host)
        BY <2>2, <2>5, <2>6, <2>8, StartedInv
      <3> QED
        BY <2>4, <2>7, <2>8, <3>1 DEF resume
    <2>9. CASE T.status = "YIELD"
      <3>1. Inv(Continued(P0, co), host)
        BY <2>2, <2>6, <2>9, ContinuedInv
      <3> QED
        BY <2>4, <2>7, <2>9, <3>1 DEF resume
    <2> QED
      BY <2>5, <2>8, <2>9
  <1> QED
    BY <1>1, <1>2, <1>3


-----------------------------------------------------------------------------
(* The steps *)

\* A Lua function runs.
Working(host) ==
    LET a == s.C[Len(s.C)]
    IN  /\ WeakState(s, host) /\ s.raise = "no" /\ Protects(s.C) /\ Exact(s)
        /\ a = Last(s.C) /\ a.kind # "pcall" /\ a.n >= 1 /\ Len(L(s).ci) = a.ci + a.n

LEMMA WorkingState ==
    ASSUME NEW host \in Nat, Inv(s, host), Running
    PROVE  Working(host)
  <1> DEFINE C == s.C
             a == C[Len(C)]
  <1>1. WeakState(s, host) /\ s.raise = "no" /\ Protects(C) /\ Exact(s)
    BY DEF Inv, WeakState, Running
  <1>2. a = Last(C)
    BY <1>1, StateTypes DEF WeakState
  <1>3. Len(L(s).ci) = a.ci + a.n /\ a.n >= 1
    BY <1>1, <1>2 DEF Exact
  <1>4. a.kind = "pcall" => a.n = 0
    BY <1>1, RunningThread
  <1>5. a.kind # "pcall"
    BY <1>3, <1>4
  <1> HIDE DEF a, C
  <1> QED
    BY <1>1, <1>2, <1>3, <1>5 DEF Working, a, C

LEMMA LibraryInv ==
    ASSUME NEW host \in Nat, Working(host), NEW R, Library(R), ~ Full(s) => Inv(R, host)
    PROVE  Inv(s', host)
  <1>1. CASE Full(s)
    BY <1>1, growInv DEF Library, Working
  <1>2. CASE ~ Full(s)
    BY <1>2 DEF Library
  <1> QED
    BY <1>1, <1>2

LEMMA calledReady ==
    ASSUME NEW host \in Nat, Working(host), ~ Full(s)
    PROVE  Ready(called, host) /\ Cur(called) = Cur(s) /\ called.C = s.C
  <1>1. Ready(called, host)
    BY incReady DEF Working, called
  <1>2. called.C = s.C
    BY DEF called, inc_ci, Working, WeakState, State
  <1> QED
    BY <1>1, <1>2 DEF Cur

LEMMA CallStep ==
    ASSUME NEW host \in Nat, Working(host), Call
    PROVE  Inv(s', host)
  BY EnterInv DEF Call, Working

LEMMA CallMetamethodStep ==
    ASSUME NEW host \in Nat, Working(host), CallMetamethod
    PROVE  Inv(s', host)
  <1>1. s' = luaD_call(s, Cur(s), "execute")
    BY DEF CallMetamethod
  <1>2. MayBegin(s.C, s.th, "execute") /\ ProtectsWith(s.C, "execute")
    BY DEF Working, MayBegin, Protects, ProtectsWith
  <1>3. WeakState(s, host) /\ s.raise = "no"
    BY DEF Working
  <1>4. Inv(luaD_call(s, Cur(s), "execute"), host)
    BY <1>2, <1>3, CallInv
  <1> QED
    BY <1>1, <1>4

LEMMA CallBackStep ==
    ASSUME NEW host \in Nat, Working(host), CallBack
    PROVE  Inv(s', host)
  <1> DEFINE R == luaD_call(called, Cur(s), "execute")
  <1>1. ASSUME ~ Full(s)
        PROVE  Inv(R, host)
    <2>1. Ready(called, host) /\ Cur(called) = Cur(s) /\ called.C = s.C
      BY <1>1, calledReady
    <2>2. WeakState(called, host) /\ called.raise = "no"
      BY <2>1 DEF Ready
    <2>3. MayBegin(called.C, called.th, "execute")
      BY <2>1 DEF Working, MayBegin
    <2>4. ProtectsWith(called.C, "execute")
      BY <2>1 DEF Working, Protects, ProtectsWith
    <2>5. Inv(luaD_call(called, Cur(called), "execute"), host)
      BY <2>2, <2>3, <2>4, CallInv
    <2> QED
      BY <2>1, <2>5
  <1> HIDE DEF R
  <1>2. Library(R)
    BY DEF CallBack, R
  <1> QED
    BY <1>1, <1>2, LibraryInv

LEMMA PcallStep ==
    ASSUME NEW host \in Nat, Working(host), NEW handler \in BOOLEAN, Pcall(handler)
    PROVE  Inv(s', host)
  <1> DEFINE R == luaD_pcall(called, Cur(s), handler)
  <1>1. ASSUME ~ Full(s)
        PROVE  Inv(R, host)
    <2>1. Ready(called, host) /\ Cur(called) = Cur(s)
      BY <1>1, calledReady
    <2>2. Inv(luaD_pcall(called, Cur(called), handler), host)
      BY <2>1, PcallInv
    <2> QED
      BY <2>1, <2>2
  <1> HIDE DEF R
  <1>2. Library(R)
    BY DEF Pcall, R
  <1> QED
    BY <1>1, <1>2, LibraryInv

LEMMA ErrorStep ==
    ASSUME NEW host \in Nat, Working(host), Error
    PROVE  Inv(s', host)
  <1> DEFINE R == Raise(called, "message")
  <1>1. ASSUME ~ Full(s)
        PROVE  Inv(R, host)
    <2>1. Ready(called, host)
      BY <1>1, calledReady
    <2> QED
      BY <2>1, RaiseInv DEF Ready
  <1> HIDE DEF R
  <1>2. Library(R)
    BY DEF Error, R
  <1> QED
    BY <1>1, <1>2, LibraryInv

LEMMA MemoryErrorStep ==
    ASSUME NEW host \in Nat, Working(host), MemoryError
    PROVE  Inv(s', host)
  <1>1. s' = Raise(s, "ERRMEM") /\ "ERRMEM" \in Codes
    BY DEF MemoryError, Codes
  <1> QED
    BY <1>1, RaiseInv DEF Working

LEMMA ResumeStep ==
    ASSUME NEW host \in Nat, Working(host), NEW co \in Coroutines, NEW wrap \in BOOLEAN,
           Resume(co, wrap)
    PROVE  Inv(s', host)
  <1> DEFINE R == auxresume(called, co, wrap)
  <1>1. ASSUME ~ Full(s)
        PROVE  Inv(R, host)
    <2>1. Ready(called, host) /\ co \in Threads
      BY <1>1, calledReady DEF Threads
    <2> QED
      BY <2>1, AuxresumeInv
  <1> HIDE DEF R
  <1>2. Library(R)
    BY DEF Resume, R
  <1> QED
    BY <1>1, <1>2, LibraryInv

LEMMA YieldStep ==
    ASSUME NEW host \in Nat, Working(host), Yield
    PROVE  Inv(s', host)
  <1> DEFINE R == lua_yield(called, Cur(s))
  <1>1. ASSUME ~ Full(s)
        PROVE  Inv(R, host)
    <2>1. Ready(called, host) /\ Cur(called) = Cur(s)
      BY <1>1, calledReady
    <2>2. Inv(lua_yield(called, Cur(called)), host)
      BY <2>1, YieldInv
    <2> QED
      BY <2>1, <2>2
  <1> HIDE DEF R
  <1>2. Library(R)
    BY DEF Yield, R
  <1> QED
    BY <1>1, <1>2, LibraryInv

LEMMA ReturnStep ==
    ASSUME NEW host \in Nat, Inv(s, host),
           Return \/ ReturnFromCall \/ ReturnFromHandler \/ ReturnFromBody
    PROVE  Inv(s', host)
  <1>1. Running
    BY DEF Return, ReturnFromCall, ReturnFromHandler, ReturnFromBody, InReturn
  <1>2. s.C # << >> /\ s.raise = "no" /\ Last(s.C) = s.C[Len(s.C)]
    BY <1>1, WorkingState DEF Running, Working
  <1>3. CASE Return
    <2>1. s' = Returned /\ Last(s.C).n > 1
      BY <1>3 DEF Return
    <2> QED
      BY <1>2, <2>1, ReturnInv
  <1>4. CASE ReturnFromCall
    <2>1. s' = CallEnds(LeaveC(Returned), Cur(s)) /\ s.C[Len(s.C)].n = 1
          /\ s.C[Len(s.C)].kind = "execute"
      BY <1>2, <1>4 DEF ReturnFromCall, InReturn
    <2> QED
      BY <1>2, <2>1, ReturnFromCallInv
  <1>5. CASE ReturnFromHandler
    <2>1. s' = Raise(LeaveC(Returned), "ERRRUN") /\ s.C[Len(s.C)].n = 1
          /\ s.C[Len(s.C)].kind = "handler"
      BY <1>2, <1>5 DEF ReturnFromHandler, InReturn
    <2> QED
      BY <1>2, <2>1, ReturnFromHandlerInv
  <1>6. CASE ReturnFromBody
    <2>1. s' = lua_resumeReturns(Returned, Cur(s), "ok") /\ s.C[Len(s.C)].n = 1
          /\ s.C[Len(s.C)].kind = "resume"
      BY <1>2, <1>6 DEF ReturnFromBody, InReturn
    <2> QED
      BY <1>2, <2>1, ReturnFromBodyInv
  <1> QED
    BY <1>3, <1>4, <1>5, <1>6

LEMMA ErrorsStep ==
    ASSUME NEW host \in Nat, Inv(s, host), luaG_errormsg \/ luaD_throw
    PROVE  Inv(s', host)
  <1>1. CASE luaG_errormsg
    BY <1>1, MessageInv DEF luaG_errormsg
  <1>2. CASE luaD_throw
    BY <1>2, ThrowInv DEF luaD_throw
  <1> QED
    BY <1>1, <1>2


\* The new coroutine of coroutine.create.
Born == [NewThread(0, <<"base">>) EXCEPT !.body = TRUE]

LEMMA BornIs ==
    /\ Born \in Thread
    /\ Born.status = "ok" /\ Len(Born.ci) = 1 /\ Born.size = BASIC_CI_SIZE /\ Born.nCcalls = 0
    /\ Born.errorJmp = 0 /\ Born.errfunc = FALSE
  <1> DEFINE ci == <<"base">>
             N == [status |-> "ok", ci |-> ci, size |-> BASIC_CI_SIZE, nCcalls |-> 0,
                   baseCcalls |-> 0, errorJmp |-> 0, errfunc |-> FALSE, body |-> FALSE]
  <1>1. ci \in Seq(Frames) /\ Len(ci) = 1
    BY DEF Frames
  <1>2. BASIC_CI_SIZE \in Nat
    BY LuaCallAssumption
  <1>3. Born = [N EXCEPT !.body = TRUE]
    BY DEF Born, NewThread
  <1> HIDE DEF ci
  <1>4. N \in Thread
    BY <1>1, <1>2 DEF Thread, Statuses
  <1>5. /\ N.status = "ok" /\ N.ci = ci /\ N.size = BASIC_CI_SIZE /\ N.nCcalls = 0
        /\ N.errorJmp = 0 /\ N.errfunc = FALSE
    OBVIOUS
  <1> HIDE DEF N
  <1>6. /\ Born \in Thread /\ Born.status = N.status /\ Born.ci = N.ci /\ Born.size = N.size
        /\ Born.nCcalls = N.nCcalls /\ Born.errorJmp = N.errorJmp /\ Born.errfunc = N.errfunc
    BY <1>3, <1>4 DEF Thread
  <1> QED
    BY <1>1, <1>5, <1>6

LEMMA CreateStep ==
    ASSUME NEW host \in Nat, Working(host), NEW co \in Coroutines, Create(co)
    PROVE  Inv(s', host)
  <1> DEFINE Q == At(called, co, Born)
             R == poscall(Q)
  <1>1. co \in Threads /\ WeakState(s, host) /\ s.th[co].status = "none"
    BY DEF Threads, Working, Create
  <1>2. co # Cur(s)
    <2>1. L(s).status = "ok"
      BY <1>1, RunningThread
    <2> QED
      BY <1>1, <2>1 DEF L
  <1>3. ASSUME ~ Full(s)
        PROVE  Inv(R, host)
    <2>1. Ready(called, host) /\ Cur(called) = Cur(s) /\ called.C = s.C
      BY <1>3, calledReady
    <2>2. WeakState(called, host) /\ called.raise = "no" /\ called \in State
      BY <2>1 DEF Ready, WeakState
    <2>3. called.th[co] = s.th[co]
      <3>1. s \in State /\ s.th \in [Threads -> Thread]
        BY <1>1, StateTypes DEF WeakState
      <3> QED
        BY <1>1, <1>2, <3>1 DEF called, inc_ci, State
    <2>4. Off(called.C, co)
      <3>1. Waiting(called.C, called.th, host)
        BY <2>2 DEF WeakState, Weak
      <3>2. \A i \in 1 .. Len(called.C) : called.th[called.C[i].th].status = "ok"
        BY <3>1 DEF Waiting
      <3>3. called.th[co].status = "none"
        BY <1>1, <2>3
      <3> HIDE DEF called
      <3> QED
        BY <3>2, <3>3 DEF Off
    <2>5. called.th[co].errorJmp = 0 /\ called.th[co].errfunc = FALSE
      <3>1. Weak(called.C, called.th, "no", host) /\ called.C # << >>
        BY <2>2 DEF WeakState
      <3> QED
        BY <1>1, <2>4, <3>1, OffThread
    <2>6. Aside(called.C, co, Born, called.th[co])
      <3>1. 1 <= BASIC_CI_SIZE /\ BASIC_CI_SIZE <= 2 * MAXCALLS /\ 0 < ERRCCALLS
        BY LuaCallAssumption
      <3> QED
        <4> DEFINE T == called.th[co]
                   C == called.C
        <4>1. T.errorJmp = 0 /\ T.errfunc = FALSE /\ Off(C, co)
          BY <2>4, <2>5
        <4> HIDE DEF T, C
        <4>2. Born.status # "YIELD" /\ Len(Born.ci) >= 1 /\ Len(Born.ci) <= Born.size
              /\ Born.size <= 2 * MAXCALLS /\ Born.nCcalls < ERRCCALLS
          BY <3>1, BornIs
        <4>3. Born.errorJmp = T.errorJmp /\ Born.errfunc = T.errfunc
          BY <4>1, BornIs
        <4>4. Aside(C, co, Born, T)
          BY <4>1, <4>2, <4>3 DEF Aside
        <4> QED
          BY <4>4 DEF T, C
    <2> HIDE DEF Q
    <2>7. Ready(Q, host)
      <3>1. Q = At(called, co, Born) /\ Born \in Thread /\ co # Cur(called)
        BY <1>2, <2>1, BornIs DEF Q
      <3> QED
        BY <1>1, <2>1, <2>6, <3>1, AsideReady
    <2> QED
      BY <2>7, poscallInv
  <1>4. Library(R)
    BY DEF Create, At, Born
  <1> HIDE DEF R
  <1> QED
    BY <1>3, <1>4, LibraryInv

LEMMA checkstacksizesStep ==
    ASSUME NEW host \in Nat, Working(host), NEW x \in Threads, checkstacksizes(x)
    PROVE  Inv(s', host)
  <1> DEFINE T == s.th[x]
             size == T.size \div 2
             t == [T EXCEPT !.size = size]
             u == [s.th EXCEPT ![x] = t]
             C == s.C
  <1>1. /\ WeakState(s, host) /\ s.raise = "no" /\ Protects(C) /\ Exact(s)
        /\ s \in State /\ C # << >> /\ Weak(C, s.th, "no", host) /\ s.th \in [Threads -> Thread]
        /\ Cur(s) \in Threads
    BY StateTypes DEF Working, WeakState
  <1>2. Well(C, T) /\ T \in Thread
    BY <1>1 DEF Weak, Threading
  <1>3. T.size \in Nat /\ Len(T.ci) \in Nat /\ T.ci \in Seq(Frames)
    BY <1>1, ThreadTypes
  <1>4. 4 * (Len(T.ci) - 1) < T.size /\ 2 * BASIC_CI_SIZE < T.size
    BY DEF checkstacksizes
  <1>5. Len(T.ci) >= 1 /\ T.size <= 2 * MAXCALLS
    BY <1>2 DEF Well
  <1>6. size \in Nat /\ Len(T.ci) <= size /\ size <= 2 * MAXCALLS
    <2> DEFINE k == T.size
               l == Len(T.ci)
    <2>1. k \in Nat /\ l \in Nat /\ 4 * (l - 1) < k /\ 2 < k /\ l >= 1 /\ k <= 2 * MAXCALLS
      <3>1. 2 * BASIC_CI_SIZE >= 2
        BY LuaCallAssumption
      <3> QED
        BY <1>3, <1>4, <1>5, <3>1, LuaCallAssumption
    <2> HIDE DEF k, l
    <2>2. k \div 2 \in Nat /\ l <= k \div 2 /\ k \div 2 <= 2 * MAXCALLS
      BY <2>1, LuaCallAssumption
    <2> QED
      BY <2>2 DEF k, l
  <1>7. s' = At(s, x, t)
    BY DEF checkstacksizes, At
  <1> HIDE DEF size
  <1>8. /\ t \in Thread /\ t.size = size /\ t.ci = T.ci /\ t.status = T.status
        /\ t.nCcalls = T.nCcalls /\ t.baseCcalls = T.baseCcalls
        /\ t.errorJmp = T.errorJmp /\ t.errfunc = T.errfunc
    BY <1>2, <1>6 DEF Thread
  <1> HIDE DEF T, t
  <1>9. Aside(C, x, t, T)
    BY <1>2, <1>5, <1>6, <1>8 DEF Aside, Well
  <1>10. u \in [Threads -> Thread] /\ Weak(C, u, "no", host)
    BY <1>1, <1>8, <1>9, AsideWeak DEF T
  <1>11. u[Cur(s)].ci = s.th[Cur(s)].ci
    BY <1>1, <1>8 DEF T
  <1>12. s' = [s EXCEPT !.th = u]
    BY <1>7 DEF At
  <1> HIDE DEF u
  <1> DEFINE R == [s EXCEPT !.th = u]
  <1>13. R \in State /\ R.C = C /\ R.th = u /\ R.raise = "no"
    BY <1>1, <1>10 DEF State
  <1> HIDE DEF R
  <1>14. Exact(R)
    <2>1. L(R) = u[Cur(s)] /\ L(s) = s.th[Cur(s)]
      BY <1>13 DEF L, Cur, C
    <2> QED
      BY <1>1, <1>11, <1>13, <2>1 DEF Exact, C
  <1>15. Inv(R, host)
    BY <1>1, <1>10, <1>13, <1>14 DEF Inv
  <1> QED
    BY <1>12, <1>15 DEF R

\* The programs of the host are nested in fewer C calls than the limit.
LEMMA HostNat ==
    ASSUME prog \in Programs
    PROVE  prog.host \in Nat
  BY LuaCallAssumption

LEMMA InitIInv == Init => IInv
  <1> SUFFICES ASSUME Init
               PROVE  IInv
    OBVIOUS
  <1>1. prog \in Programs /\ s = luaD_pcall(Start(prog.host), Main, FALSE)
    BY DEF Init
  <1>2. prog.host \in 0 .. MAXCCALLS - 1
    BY <1>1, LuaCallAssumption
  <1>3. Inv(luaD_pcall(Start(prog.host), Main, FALSE), prog.host)
    BY <1>2, InitInv
  <1> QED
    BY <1>1, <1>3 DEF IInv

LEMMA NextIInv == IInv /\ [Next]_vars => IInv'
  <1> SUFFICES ASSUME IInv, [Next]_vars
               PROVE  IInv'
    OBVIOUS
  <1> DEFINE host == prog.host
  <1>1. host \in Nat /\ Inv(s, host) /\ prog \in Programs
    BY HostNat DEF IInv
  <1> HIDE DEF host
  <1>2. ASSUME Running
        PROVE  Working(host)
    BY <1>1, <1>2, WorkingState
  <1>3. prog' = prog
    BY DEF Next, vars, Call, CallMetamethod, CallBack, Pcall, Error, MemoryError, Create, Resume,
           Yield, Return, ReturnFromCall, ReturnFromHandler, ReturnFromBody, luaG_errormsg,
           luaD_throw, checkstacksizes, Op, InReturn
  <1>4. Inv(s', host)
    <2>1. CASE Call
      <3>1. Running
        BY <2>1 DEF Call, Op
      <3> QED
        BY <1>1, <1>2, <2>1, <3>1, CallStep
    <2>2. CASE CallMetamethod
      <3>1. Running
        BY <2>2 DEF CallMetamethod, Op
      <3> QED
        BY <1>1, <1>2, <2>2, <3>1, CallMetamethodStep
    <2>3. CASE CallBack
      <3>1. Running
        BY <2>3 DEF CallBack, Op
      <3> QED
        BY <1>1, <1>2, <2>3, <3>1, CallBackStep
    <2>4. ASSUME NEW handler \in BOOLEAN, Pcall(handler)
          PROVE  Inv(s', host)
      <3>1. Running
        BY <2>4 DEF Pcall, Op
      <3> QED
        BY <1>1, <1>2, <2>4, <3>1, PcallStep
    <2>5. CASE Error
      <3>1. Running
        BY <2>5 DEF Error, Op
      <3> QED
        BY <1>1, <1>2, <2>5, <3>1, ErrorStep
    <2>6. CASE MemoryError
      <3>1. Running
        BY <2>6 DEF MemoryError, Op
      <3> QED
        BY <1>1, <1>2, <2>6, <3>1, MemoryErrorStep
    <2>7. ASSUME NEW co \in Coroutines, Create(co)
          PROVE  Inv(s', host)
      <3>1. Running
        BY <2>7 DEF Create, Op
      <3> QED
        BY <1>1, <1>2, <2>7, <3>1, CreateStep
    <2>8. ASSUME NEW co \in Coroutines, NEW wrap \in BOOLEAN, Resume(co, wrap)
          PROVE  Inv(s', host)
      <3>1. Running
        BY <2>8 DEF Resume, Op
      <3> QED
        BY <1>1, <1>2, <2>8, <3>1, ResumeStep
    <2>9. CASE Yield
      <3>1. Running
        BY <2>9 DEF Yield, Op
      <3> QED
        BY <1>1, <1>2, <2>9, <3>1, YieldStep
    <2>10. CASE Return \/ ReturnFromCall \/ ReturnFromHandler \/ ReturnFromBody
      BY <1>1, <2>10, ReturnStep
    <2>11. CASE luaG_errormsg \/ luaD_throw
      BY <1>1, <2>11, ErrorsStep
    <2>12. ASSUME NEW x \in Threads, checkstacksizes(x)
           PROVE  Inv(s', host)
      <3>1. Running
        BY <2>12 DEF checkstacksizes
      <3> QED
        BY <1>1, <1>2, <2>12, <3>1, checkstacksizesStep
    <2>13. CASE UNCHANGED vars
      BY <1>1, <2>13 DEF vars
    <2> QED
      BY <2>1, <2>2, <2>3, <2>4, <2>5, <2>6, <2>7, <2>8, <2>9, <2>10, <2>11, <2>12, <2>13 DEF Next
  <1> QED
    BY <1>1, <1>3, <1>4 DEF IInv, host

\* The inductive invariant holds throughout.
THEOREM Invariant == Spec => []IInv
  BY InitIInv, NextIInv, PTL DEF Spec


-----------------------------------------------------------------------------
(* Theorems *)

\* The CallInfos in use fit in their array, which is never larger than twice the
\* limit of calls, and no thread counts more C calls than its limit, whatever
\* errors are caught by luaD_pcall and lua_resume and whenever the collector
\* shrinks the array (luaD_growCI, restore_stack_limit, checkstacksizes).
THEOREM TypeCorrect == Spec => []TypeOK
  <1>1. IInv => TypeOK
    <2> SUFFICES ASSUME IInv, NEW x \in Threads
                 PROVE  LET T == s.th[x]
                        IN  /\ T.status \in {"none", "ok", "YIELD", "ERRRUN", "ERRMEM", "ERRERR"}
                            /\ Len(T.ci) \in 1 .. T.size
                            /\ T.size <= 2 * MAXCALLS
                            /\ T.nCcalls <= ERRCCALLS
                            /\ s.raise # "ERRERR" => T.nCcalls < ERRCCALLS
                            /\ T.errorJmp \in 0 .. Len(s.C)
      BY DEF TypeOK
    <2> DEFINE T == s.th[x]
               C == s.C
    <2>1. s.th \in [Threads -> Thread] /\ Threading(C, s.th, s.raise)
      BY DEF IInv, Inv, State, Weak
    <2>2. /\ Innermost(C, Len(C), x, T.errorJmp) /\ Well(C, T)
          /\ T.nCcalls = ERRCCALLS => s.raise = "ERRERR"
      BY <2>1 DEF Threading
    <2>3. /\ T.status \in Statuses /\ Len(T.ci) \in Nat /\ T.size \in Nat /\ T.nCcalls \in Nat
      BY <2>1, ThreadTypes
    <2> HIDE DEF T, C
    <2>4. T.errorJmp \in 0 .. Len(C)
      BY <2>2 DEF Innermost
    <2>5. /\ Len(T.ci) \in 1 .. T.size /\ T.size <= 2 * MAXCALLS /\ T.nCcalls <= ERRCCALLS
          /\ s.raise # "ERRERR" => T.nCcalls < ERRCCALLS
      BY <2>2, <2>3, LuaCallAssumption DEF Well
    <2>6. T.status \in {"none", "ok", "YIELD", "ERRRUN", "ERRMEM", "ERRERR"}
      BY <2>3 DEF Statuses, Codes
    <2> QED
      BY <2>4, <2>5, <2>6 DEF T, C
  <1> QED
    BY <1>1, Invariant, PTL

\* Each thread counts its C calls apart, and yet the count of the thread that
\* runs, and of each that waits for a coroutine it resumed, is the depth of the
\* one C stack: luaD_call, lua_setlevel, lua_resume and the long jumps keep it so.
THEOREM OneStackCounted == Spec => []CountsOneStack
  <1>1. IInv => CountsOneStack
    <2> SUFFICES ASSUME IInv
                 PROVE  CountsOneStack
      OBVIOUS
    <2>1. Waiting(s.C, s.th, prog.host) /\ s.C \in Seq(Activations)
      BY DEF IInv, Inv, Weak
    <2>2. DOMAIN s.C = 1 .. Len(s.C)
      BY <2>1
    <2>3. ASSUME NEW i \in DOMAIN s.C, i = Len(s.C) \/ s.C[i + 1].kind = "resume"
          PROVE  s.th[s.C[i].th].nCcalls =
                     prog.host + Cardinality({j \in 1 .. i : s.C[j].kind # "pcall"})
      <3>1. IsTop(s.C, i) /\ i \in 1 .. Len(s.C)
        BY <2>2, <2>3 DEF IsTop
      <3>2. AtTop(s.C[i], s.th[s.C[i].th], prog.host + Count(s.C, i))
        BY <2>1, <3>1 DEF Waiting
      <3> QED
        BY <3>2 DEF AtTop, Count
    <2> QED
      BY <2>3 DEF CountsOneStack
  <1> QED
    BY <1>1, Invariant, PTL

\* An error jumps to the innermost luaD_pcall or lua_resume of its thread that has
\* not returned, and the handler that sees it first is the one given to that very
\* xpcall: L->errorJmp and L->errfunc are put back on every way out.
THEOREM ErrorsReachInnermost == Spec => []ErrorsToInnermost
  <1>1. IInv => ErrorsToInnermost
    <2> SUFFICES ASSUME IInv, NEW x \in Threads
                 PROVE  LET j == s.th[x].errorJmp
                            catches == {i \in DOMAIN s.C : s.C[i].th = x /\
                                                           s.C[i].kind \in {"pcall", "resume"}}
                        IN  /\ j \in catches \cup {0}
                            /\ \A i \in catches : i <= j
                            /\ s.th[x].errfunc = (j # 0 /\ s.C[j].handler)
      BY DEF ErrorsToInnermost
    <2>1. Threading(s.C, s.th, s.raise) /\ s.C \in Seq(Activations)
      BY DEF IInv, Inv, Weak
    <2>2. Innermost(s.C, Len(s.C), x, s.th[x].errorJmp) /\ Well(s.C, s.th[x])
      BY <2>1 DEF Threading
    <2>3. DOMAIN s.C = 1 .. Len(s.C) /\ Len(s.C) \in Nat
      BY <2>1
    <2>4. s.th[x].errfunc = (s.th[x].errorJmp # 0 /\ s.C[s.th[x].errorJmp].handler)
      BY <2>2 DEF Well
    <2> QED
      BY <2>2, <2>3, <2>4 DEF Innermost, Catches
  <1> QED
    BY <1>1, Invariant, PTL

\* The CallInfos of a thread are, in order, those of its activations: a
\* luaV_execute returns after the very functions that it has entered, also when
\* they were entered before a yield (nexeccalls, and resume of a coroutine).
THEOREM CallInfosShared == Spec => []SharedOut
  <1>1. IInv => SharedOut
    <2> SUFFICES ASSUME IInv
                 PROVE  SharedOut
      OBVIOUS
    <2> DEFINE C == s.C
               th == s.th
    <2>1. /\ Chained(C) /\ Divided(C) /\ Filled(C, th) /\ Waiting(C, th, prog.host)
          /\ C \in Seq(Activations) /\ th \in [Threads -> Thread]
      BY DEF IInv, Inv, Weak
    <2>2. DOMAIN C = 1 .. Len(C) /\ Len(C) \in Nat
      BY <2>1
    <2> HIDE DEF C, th
    <2>3. ASSUME NEW i \in 1 .. Len(C)
          PROVE  LET a == C[i]
                     ci == th[a.th].ci
                     first == i = 1 \/ a.kind = "resume"
                     last == i = Len(C) \/ C[i + 1].kind = "resume"
                     end == IF last THEN Len(ci) ELSE C[i + 1].ci
                 IN  /\ first => a.ci = 1
                     /\ \A k \in a.ci + 1 .. a.ci + a.n : ci[k] = "Lua"
                     /\ end = a.ci + a.n \/ (end = a.ci + a.n + 1 /\ ci[end] = "C")
      <3> DEFINE a == C[i]
                 ci == th[a.th].ci
                 top == a.ci + a.n
      <3>1. a.ci \in Nat /\ a.n \in Nat /\ a.th \in Threads
        BY <2>1, ActivationTypes
      <3>2. top \in Nat /\ Len(ci) \in Nat
        BY <2>1, <3>1, ThreadTypes
      <3>3. i = 1 \/ a.kind = "resume" => a.ci = 1
        BY <2>1 DEF Divided
      <3>4. (\A k \in a.ci + 1 .. a.ci + a.n : ci[k] = "Lua") /\ top <= Len(ci)
        BY <2>1 DEF Filled
      <3>5. CASE IsTop(C, i)
        <4>1. Len(ci) <= top + 1 /\ (Len(ci) = top + 1 => ci[top + 1] = "C")
          <5>1. AtTop(a, th[a.th], prog.host + Count(C, i))
            BY <2>1, <3>5 DEF Waiting
          <5> QED
            BY <5>1 DEF AtTop
        <4> HIDE DEF top
        <4>2. Len(ci) = top \/ (Len(ci) = top + 1 /\ ci[Len(ci)] = "C")
          BY <3>2, <3>4, <4>1 DEF top
        <4> QED
          BY <3>3, <3>4, <3>5, <4>2 DEF IsTop, top
      <3>6. CASE ~ IsTop(C, i)
        <4> DEFINE b == C[i + 1]
        <4>1. i + 1 \in 2 .. Len(C) /\ i + 1 \in 1 .. Len(C) /\ b.kind # "resume" /\ i < i + 1
              /\ i + 1 - 1 = i
          BY <2>2, <3>6 DEF IsTop
        <4>2. b.th = a.th
          BY <2>1, <4>1 DEF Chained
        <4>3. b.ci \in Nat
          BY <2>1, <4>1, ActivationTypes
        <4>4. top <= b.ci /\ b.ci <= top + 1
          BY <2>1, <4>1, <4>2 DEF Divided
        <4>5. b.ci = top + 1 => ci[b.ci] = "C"
          BY <2>1, <4>1, <4>2 DEF Filled
        <4> HIDE DEF top, b
        <4>6. b.ci = top \/ (b.ci = top + 1 /\ ci[b.ci] = "C")
          BY <3>2, <4>3, <4>4, <4>5
        <4> QED
          BY <3>3, <3>4, <3>6, <4>6 DEF IsTop, top, b
      <3> QED
        BY <3>5, <3>6
    <2> QED
      BY <2>2, <2>3 DEF SharedOut, C, th
  <1> QED
    BY <1>1, Invariant, PTL

=============================================================================
