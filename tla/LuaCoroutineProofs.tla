------------------------- MODULE LuaCoroutineProofs -------------------------
(***************************************************************************)
(* LuaCall implements LuaCoroutines: what is seen of the threads (who      *)
(* runs, who is on the C stack, above whom, and what the others wait in)   *)
(* and how every step changes it.                                          *)
(***************************************************************************)
EXTENDS LuaCallProofs

-----------------------------------------------------------------------------
(* What is seen of the C stack *)

Top(C) == C[Len(C)].th
On(C) == {C[i].th : i \in 1 .. Len(C)}
\* Who was resumed by whom.
By(C) == {<<C[i].th, C[i - 1].th>> : i \in {k \in 2 .. Len(C) : C[k].kind = "resume"}}

\* What is seen of the threads.
Mark(T) == <<T.status, T.body>>
Marks(S) == [x \in Threads |-> Mark(S.th[x])]
Rests(S) == [x \in Threads \ On(S.C) |-> S.th[x].ci]

SameStack(C, D) == C # << >> /\ D # << >> /\ Top(D) = Top(C) /\ On(D) = On(C) /\ By(D) = By(C)

\* Nothing of what is seen changes.
Quiet(S, R) == SameStack(S.C, R.C) /\ Marks(R) = Marks(S) /\ Rests(R) = Rests(S)

LEMMA QuietTwice ==
    ASSUME NEW S, NEW T, NEW R, Quiet(S, T), Quiet(T, R)
    PROVE  Quiet(S, R)
  BY DEF Quiet, SameStack

LEMMA AlikeStack ==
    ASSUME NEW C \in Seq(Activations), NEW D \in Seq(Activations), C # << >>, Len(D) = Len(C),
           \A i \in 1 .. Len(C) : D[i].th = C[i].th /\ D[i].kind = C[i].kind
    PROVE  SameStack(C, D)
  <1>1. Len(C) \in Nat /\ Len(C) \in 1 .. Len(C) /\ D # << >>
    OBVIOUS
  <1>2. On(D) = On(C)
    BY <1>1 DEF On
  <1>3. {k \in 2 .. Len(D) : D[k].kind = "resume"} = {k \in 2 .. Len(C) : C[k].kind = "resume"}
    BY <1>1
  <1>4. \A k \in 2 .. Len(C) : k \in 1 .. Len(C) /\ k - 1 \in 1 .. Len(C)
    BY <1>1
  <1>5. By(D) = By(C)
    BY <1>3, <1>4 DEF By
  <1> QED
    BY <1>1, <1>2, <1>5 DEF SameStack, Top

\* One more activation.
LEMMA HigherStack ==
    ASSUME NEW C \in Seq(Activations), C # << >>, NEW a \in Activations
    PROVE  LET D == Append(C, a)
           IN  /\ D # << >> /\ Top(D) = a.th
               /\ On(D) = On(C) \cup {a.th}
               /\ By(D) = By(C) \cup (IF a.kind = "resume" THEN {<<a.th, Top(C)>>} ELSE {})
  <1> DEFINE D == Append(C, a)
             m == Len(C)
             resumes == {k \in 2 .. m : C[k].kind = "resume"}
  <1>1. /\ D \in Seq(Activations) /\ m \in Nat /\ m >= 1 /\ Len(D) = m + 1 /\ D[m + 1] = a
        /\ \A i \in 1 .. m : D[i] = C[i]
    OBVIOUS
  <1> HIDE DEF D
  <1>2. D # << >> /\ Top(D) = a.th
    BY <1>1 DEF Top
  <1>3. 1 .. m + 1 = (1 .. m) \cup {m + 1}
    BY <1>1
  <1>4. On(D) = On(C) \cup {a.th}
    BY <1>1, <1>3 DEF On
  <1>5. \A i \in resumes : D[i] = C[i] /\ D[i - 1] = C[i - 1]
    BY <1>1
  <1>6. {<<D[i].th, D[i - 1].th>> : i \in resumes} = By(C)
    BY <1>5 DEF By
  <1>7. {k \in 2 .. m + 1 : D[k].kind = "resume"}
            = resumes \cup (IF a.kind = "resume" THEN {m + 1} ELSE {})
    <2>1. \A k \in 2 .. m : D[k] = C[k]
      BY <1>1
    <2>2. 2 .. m + 1 = (2 .. m) \cup {m + 1}
      BY <1>1
    <2> HIDE DEF m
    <2> QED
      BY <1>1, <2>1, <2>2
  <1>8. D[(m + 1) - 1] = C[m] /\ D[m + 1] = a
    BY <1>1
  <1> HIDE DEF resumes
  <1>9. By(D) = {<<D[i].th, D[i - 1].th>> : i \in resumes}
                    \cup (IF a.kind = "resume" THEN {<<a.th, Top(C)>>} ELSE {})
    BY <1>1, <1>7, <1>8 DEF By, Top
  <1> QED
    BY <1>2, <1>4, <1>6, <1>9 DEF D

LEMMA PushStack ==
    ASSUME NEW C \in Seq(Activations), C # << >>, NEW a \in Activations,
           a.th = Top(C), a.kind # "resume"
    PROVE  SameStack(C, Append(C, a))
  <1>1. Len(C) \in 1 .. Len(C)
    OBVIOUS
  <1>2. On(C) \cup {a.th} = On(C)
    BY <1>1 DEF On, Top
  <1> DEFINE D == Append(C, a)
  <1>3. D # << >> /\ Top(D) = a.th /\ On(D) = On(C) \cup {a.th} /\ By(D) = By(C)
    BY HigherStack
  <1> HIDE DEF D
  <1>4. SameStack(C, D)
    BY <1>2, <1>3 DEF SameStack
  <1> QED
    BY <1>4 DEF D

\* The C stack is cut below activation j of the running thread.
LEMMA CutStack ==
    ASSUME NEW C \in Seq(Activations), C # << >>, Chained(C), NEW j \in 1 .. Len(C),
           C[j].th = Top(C)
    PROVE  LET D == SubSeq(C, 1, j - 1)
           IN  /\ D \in Seq(Activations)
               /\ j = 1 => D = << >> /\ On(D) = {} /\ By(D) = {}
                           /\ Top(C) = Main /\ On(C) = {Main} /\ By(C) = {}
               /\ j > 1 /\ C[j].kind # "resume" => SameStack(C, D)
               /\ j > 1 /\ C[j].kind = "resume" =>
                      /\ D # << >>
                      /\ <<Top(C), Top(D)>> \in By(C)
                      /\ Top(D) # Top(C)
                      /\ On(D) = On(C) \ {Top(C)}
                      /\ By(D) = {p \in By(C) : p[1] # Top(C)}
  <1> DEFINE D == SubSeq(C, 1, j - 1)
             m == Len(C)
             x == Top(C)
  <1>1. /\ D \in Seq(Activations) /\ Len(D) = j - 1 /\ m \in Nat /\ j \in Nat /\ 1 <= j /\ j <= m
        /\ \A i \in 1 .. j - 1 : D[i] = C[i]
    OBVIOUS
  <1> HIDE DEF D
  <1>2. \A i \in j .. m : C[i].th = x
    BY <1>1, AllRunning DEF Top
  <1>3. \A i \in 2 .. m : C[i].kind = "resume" => \A k \in 1 .. i - 1 : C[k].th # C[i].th
    BY DEF Chained
  <1>4. \A i \in j + 1 .. m : C[i].kind # "resume"
    BY <1>1, <1>2, <1>3
  <1>5. \A k \in 2 .. m : C[k].kind = "resume" => k <= j
    BY <1>1, <1>4
  <1>6. ASSUME j = 1
        PROVE  D = << >> /\ On(D) = {} /\ By(D) = {} /\ x = Main /\ On(C) = {Main} /\ By(C) = {}
    <2>1. D = << >>
      BY <1>1, <1>6
    <2>2. C[1].th = Main
      BY DEF Chained
    <2>3. x = Main /\ \A i \in 1 .. m : C[i].th = Main
      BY <1>1, <1>2, <1>6, <2>2
    <2>4. {k \in 2 .. m : C[k].kind = "resume"} = {}
      BY <1>1, <1>5, <1>6
    <2>5. On(C) = {Main}
      BY <1>1, <2>3 DEF On
    <2>6. By(C) = {}
      BY <2>4 DEF By
    <2>7. On(D) = {}
      BY <2>1 DEF On
    <2>8. Len(D) = 0
      BY <2>1
    <2>9. {k \in 2 .. Len(D) : D[k].kind = "resume"} = {}
      BY <2>8
    <2>10. By(D) = {}
      BY <2>9 DEF By
    <2> QED
      BY <2>1, <2>3, <2>5, <2>6, <2>7, <2>10
  <1>7. ASSUME j > 1
        PROVE  D # << >> /\ Top(D) = C[j - 1].th
    BY <1>1, <1>7 DEF Top
  <1>8. \A i \in {k \in 2 .. j - 1 : C[k].kind = "resume"} : D[i] = C[i] /\ D[i - 1] = C[i - 1]
    BY <1>1
  <1>9. {k \in 2 .. Len(D) : D[k].kind = "resume"} = {k \in 2 .. j - 1 : C[k].kind = "resume"}
    BY <1>1
  <1>10. By(D) = {<<C[i].th, C[i - 1].th>> : i \in {k \in 2 .. j - 1 : C[k].kind = "resume"}}
    BY <1>8, <1>9 DEF By
  <1>11. ASSUME j > 1, C[j].kind # "resume"
         PROVE  SameStack(C, D)
    <2>1. C[j - 1].th = x
      BY <1>1, <1>11 DEF Chained
    <2>2. {k \in 2 .. m : C[k].kind = "resume"} = {k \in 2 .. j - 1 : C[k].kind = "resume"}
      BY <1>1, <1>5, <1>11
    <2>3. By(D) = By(C)
      BY <1>10, <2>2 DEF By
    <2>4. On(D) \subseteq On(C)
      BY <1>1 DEF On
    <2>5. On(C) \subseteq On(D)
      <3>1. x \in On(D)
        BY <1>1, <1>11, <2>1 DEF On
      <3>2. \A i \in 1 .. m : i \in 1 .. j - 1 \/ i \in j .. m
        BY <1>1
      <3>3. \A i \in 1 .. m : C[i].th \in On(D)
        BY <1>1, <1>2, <3>1, <3>2 DEF On
      <3> QED
        BY <3>3 DEF On
    <2> QED
      BY <1>7, <1>11, <2>1, <2>3, <2>4, <2>5 DEF SameStack
  <1>12. ASSUME j > 1, C[j].kind = "resume"
         PROVE  /\ <<x, C[j - 1].th>> \in By(C)
                /\ C[j - 1].th # x
                /\ On(D) = On(C) \ {x}
                /\ By(D) = {p \in By(C) : p[1] # x}
    <2>1. \A i \in 1 .. j - 1 : C[i].th # x
      BY <1>1, <1>3, <1>12
    <2>2. <<x, C[j - 1].th>> \in By(C)
      BY <1>1, <1>12 DEF By
    <2>3. C[j - 1].th # x
      BY <1>1, <1>12, <2>1
    <2>4. \A i \in 1 .. m : C[i].th # x => i \in 1 .. j - 1
      BY <1>1, <1>2
    <2>5. On(D) = On(C) \ {x}
      BY <1>1, <2>1, <2>4 DEF On
    <2>6. By(D) \subseteq {p \in By(C) : p[1] # x}
      <3> SUFFICES ASSUME NEW i \in 2 .. j - 1, C[i].kind = "resume"
                   PROVE  <<C[i].th, C[i - 1].th>> \in By(C) /\ C[i].th # x
        BY <1>10
      <3>1. i \in 2 .. m /\ i \in 1 .. j - 1
        BY <1>1
      <3> QED
        BY <2>1, <3>1 DEF By
    <2>7. {p \in By(C) : p[1] # x} \subseteq By(D)
      <3> SUFFICES ASSUME NEW i \in 2 .. m, C[i].kind = "resume", C[i].th # x
                   PROVE  <<C[i].th, C[i - 1].th>> \in By(D)
        BY DEF By
      <3>1. i \in 2 .. j - 1
        BY <1>1, <2>4
      <3> QED
        BY <1>10, <3>1
    <2> QED
      BY <2>2, <2>3, <2>5, <2>6, <2>7
  <1> HIDE DEF x
  <1> QED
    BY <1>1, <1>6, <1>7, <1>11, <1>12 DEF D, x

-----------------------------------------------------------------------------
(* Operations that change nothing that is seen *)

\* The running thread goes to t.
LEMMA QuietThread ==
    ASSUME NEW S \in State, NEW R, NEW D, NEW t, NEW r, Changes(R, S, D, t, r),
           SameStack(S.C, D), Mark(t) = Mark(L(S))
    PROVE  Quiet(S, R)
  <1> DEFINE x == S.C[Len(S.C)].th
  <1>1. R.C = D /\ R.th = [S.th EXCEPT ![x] = t]
    BY DEF Changes, Is
  <1>2. S.C # << >> /\ S.th \in [Threads -> Thread] /\ x \in Threads /\ L(S) = S.th[x]
        /\ Len(S.C) \in 1 .. Len(S.C) /\ On(D) = On(S.C)
    BY StateTypes DEF SameStack
  <1>3. x \in On(S.C)
    BY <1>2 DEF On
  <1> HIDE DEF x
  <1>4. \A y \in Threads : Mark(R.th[y]) = Mark(S.th[y]) /\ (y # x => R.th[y] = S.th[y])
    BY <1>1, <1>2
  <1>5. Marks(R) = Marks(S)
    BY <1>4 DEF Marks
  <1>6. Rests(R) = Rests(S)
    <2>1. \A y \in Threads \ On(S.C) : R.th[y].ci = S.th[y].ci
      BY <1>3, <1>4
    <2> QED
      BY <1>1, <1>2, <2>1 DEF Rests
  <1> QED
    BY <1>1, <1>5, <1>6 DEF Quiet

LEMMA QuietStack ==
    ASSUME NEW S, NEW R, SameStack(S.C, R.C), R.th = S.th
    PROVE  Quiet(S, R)
  BY DEF Quiet, SameStack, Marks, Rests

LEMMA QuietRaise ==
    ASSUME NEW S \in State, S.C # << >>, NEW r \in {"no", "message"} \cup Codes
    PROVE  Quiet(S, Raise(S, r))
  <1>1. Is(Raise(S, r), S.C, S.th, r)
    BY RaiseIs
  <1>2. SameStack(S.C, S.C)
    BY DEF SameStack
  <1> QED
    BY <1>1, <1>2, QuietStack DEF Is

LEMMA QuietInc ==
    ASSUME NEW S \in State, S.C # << >>, NEW frame \in Frames
    PROVE  Quiet(S, inc_ci(S, frame)) /\ inc_ci(S, frame) \in State /\ inc_ci(S, frame).C = S.C
  <1> DEFINE ci == Append(L(S).ci, frame)
             size == IF Len(L(S).ci) = L(S).size THEN 2 * L(S).size ELSE L(S).size
             t == Resized(L(S), ci, size)
  <1>1. ci \in Seq(Frames) /\ size \in Nat /\ Changes(inc_ci(S, frame), S, S.C, t, S.raise)
    BY incIs
  <1>2. L(S) \in Thread
    BY StateTypes
  <1> HIDE DEF ci, size
  <1>3. Mark(t) = Mark(L(S))
    BY <1>2 DEF Thread, Resized, Mark
  <1>4. SameStack(S.C, S.C)
    BY DEF SameStack
  <1> HIDE DEF t
  <1> QED
    BY <1>1, <1>3, <1>4, QuietThread DEF Changes, Is

LEMMA QuietGrow ==
    ASSUME NEW S \in State, S.C # << >>
    PROVE  Quiet(S, growCI(S))
  <1> DEFINE t == [L(S) EXCEPT !.size = 2 * L(S).size]
  <1>1. SameStack(S.C, S.C)
    BY DEF SameStack
  <1>2. L(S) \in Thread
    BY StateTypes
  <1>3. Mark(t) = Mark(L(S))
    BY <1>2 DEF Thread, Mark
  <1> HIDE DEF t
  <1>4. CASE HandlingOverflow(S)
    BY <1>1, <1>4, growIs, QuietStack DEF Is
  <1>5. CASE ~ HandlingOverflow(S)
    BY <1>1, <1>3, <1>5, growIs, QuietThread DEF t
  <1> QED
    BY <1>4, <1>5

LEMMA QuietPoscall ==
    ASSUME NEW S \in State, S.C # << >>, Len(L(S).ci) >= 1
    PROVE  Quiet(S, poscall(S))
  <1> DEFINE ci == SubSeq(L(S).ci, 1, Len(L(S).ci) - 1)
             t == [L(S) EXCEPT !.ci = ci]
  <1>1. ci \in Seq(Frames) /\ Changes(poscall(S), S, S.C, t, S.raise)
    BY poscallIs
  <1>2. L(S) \in Thread
    BY StateTypes
  <1> HIDE DEF ci
  <1>3. Mark(t) = Mark(L(S))
    BY <1>2 DEF Thread, Mark
  <1>4. SameStack(S.C, S.C)
    BY DEF SameStack
  <1> HIDE DEF t
  <1> QED
    BY <1>1, <1>3, <1>4, QuietThread

LEMMA QuietFails ==
    ASSUME NEW S, NEW host \in Nat, Ready(S, host), NEW wrap
    PROVE  Quiet(S, ResumeFails(S, wrap))
  <1>1. S \in State /\ S.C # << >> /\ Len(L(S).ci) >= 1
    <2>1. WeakState(S, host) /\ Len(L(S).ci) = S.C[Len(S.C)].ci + S.C[Len(S.C)].n + 1
      BY DEF Ready
    <2>2. S.C[Len(S.C)].ci \in Nat /\ S.C[Len(S.C)].n \in Nat
      BY <2>1, RunningThread
    <2> HIDE DEF Ready
    <2> QED
      BY <2>1, <2>2 DEF WeakState
  <1> QED
    BY <1>1, QuietRaise, QuietPoscall DEF ResumeFails

LEMMA QuietEnter ==
    ASSUME NEW S \in State, S.C # << >>
    PROVE  Quiet(S, EnterLua(S))
  <1>1. CASE Full(S)
    BY <1>1, QuietGrow DEF EnterLua
  <1>2. CASE ~ Full(S)
    <2> DEFINE T == inc_ci(S, "Lua")
               m == Len(S.C)
               R == [T EXCEPT !.C[m].n = @ + 1]
    <2>1. Quiet(S, T) /\ T \in State /\ T.C = S.C
      BY QuietInc DEF Frames
    <2>2. EnterLua(S) = R
      BY <1>2 DEF EnterLua
    <2> HIDE DEF T
    <2>3. m \in 1 .. m /\ S.C \in Seq(Activations) /\ S.C[m] \in Activations /\ S.C[m].n \in Nat
      <3>1. m \in 1 .. m /\ S.C \in Seq(Activations)
        BY StateTypes
      <3> HIDE DEF m
      <3>2. S.C[m] \in Activations
        BY <3>1 DEF m
      <3>3. S.C[m].n \in Nat
        BY <3>2 DEF Activations
      <3> QED
        BY <3>1, <3>2, <3>3
    <2> DEFINE a == [S.C[m] EXCEPT !.n = S.C[m].n + 1]
               D == [S.C EXCEPT ![m] = a]
    <2>4. R.C = D /\ R.th = T.th
      BY <2>1, <2>3 DEF State
    <2>5. a \in Activations /\ a.th = S.C[m].th /\ a.kind = S.C[m].kind
      <3> DEFINE b == S.C[m]
                 k == S.C[m].n + 1
      <3>1. b \in Activations /\ k \in Nat
        BY <2>3
      <3> HIDE DEF b, k
      <3>2. [b EXCEPT !.n = k] \in Activations /\ Alike([b EXCEPT !.n = k], b)
        BY <3>1, ActivationExcept
      <3> QED
        BY <3>2 DEF Alike, b, k
    <2> HIDE DEF R, a
    <2>6. D \in Seq(Activations) /\ Len(D) = Len(S.C)
          /\ \A i \in 1 .. Len(S.C) : D[i].th = S.C[i].th /\ D[i].kind = S.C[i].kind
      BY <2>3, <2>5
    <2> HIDE DEF D, m
    <2>7. SameStack(S.C, D)
      BY <2>3, <2>6, AlikeStack
    <2>8. Quiet(T, R)
      BY <2>1, <2>4, <2>7, QuietStack
    <2> QED
      BY <2>1, <2>2, <2>8, QuietTwice
  <1> QED
    BY <1>1, <1>2

LEMMA QuietCall ==
    ASSUME NEW S \in State, S.C # << >>, NEW kind \in {"execute", "handler"}
    PROVE  Quiet(S, luaD_call(S, Cur(S), kind))
  <1> DEFINE x == Cur(S)
             T == S.th[x]
             n == T.nCcalls + 1
             t == [T EXCEPT !.nCcalls = n]
             R == [S EXCEPT !.th = [S.th EXCEPT ![x] = t]]
             a == NewActivation(S.C, S.th, kind, FALSE)
             W == Push(R, a)
  <1>1. /\ x \in Threads /\ T \in Thread /\ S.th \in [Threads -> Thread] /\ T = L(S)
        /\ x = S.C[Len(S.C)].th /\ S.C \in Seq(Activations)
    BY StateTypes
  <1>2. n \in Nat /\ t \in Thread /\ Mark(t) = Mark(L(S))
    <2>1. n \in Nat
      BY <1>1 DEF Thread
    <2> HIDE DEF n, T
    <2> QED
      BY <1>1, <2>1 DEF Thread, Mark
  <1>3. luaD_call(S, x, kind) = CountedCall(W, n)
    <2>1. Activation(S, kind, x, FALSE, FALSE) = a
      BY <1>1 DEF Activation, NewActivation
    <2> HIDE DEF x
    <2>2. [S EXCEPT !.th[x].nCcalls = @ + 1] = R
      OBVIOUS
    <2> QED
      BY <2>1, <2>2 DEF luaD_call
  <1>4. a.th = x /\ a.kind = kind
    BY <1>1 DEF NewActivation
  <1>5. a \in Activations
    <2>1. T.ci \in Seq(Frames) /\ T.errorJmp \in Nat /\ T.nCcalls \in Nat /\ T.errfunc \in BOOLEAN
      BY <1>1 DEF Thread
    <2>2. Len(T.ci) \in Nat
      BY <2>1
    <2> HIDE DEF T
    <2> QED
      BY <1>1, <2>1, <2>2 DEF NewActivation, Activations, Kinds, T
  <1> HIDE DEF t, a, x, n
  <1>6. Changes(R, S, S.C, t, S.raise)
    <2>1. Is(R, S.C, [S.th EXCEPT ![x] = t], S.raise)
      BY <1>1, <1>2, ThreadsIs
    <2> QED
      BY <1>1, <2>1 DEF Changes
  <1> HIDE DEF R, T
  <1>7. Quiet(S, R)
    <2>1. SameStack(S.C, S.C)
      BY DEF SameStack
    <2> QED
      BY <1>2, <1>6, <2>1, QuietThread
  <1>8. R \in State /\ R.C = S.C
    BY <1>6 DEF Changes, Is
  <1>9. W \in State /\ W.C = Append(R.C, a) /\ W.th = R.th
    BY <1>5, <1>8, PushIs DEF Is
  <1>10. SameStack(R.C, W.C)
    BY <1>1, <1>4, <1>5, <1>8, <1>9, PushStack DEF Top
  <1> HIDE DEF W
  <1>11. Quiet(R, W) /\ W.C # << >>
    BY <1>9, <1>10, QuietStack DEF SameStack
  <1>12. Quiet(W, CountedCall(W, n))
    BY <1>9, <1>11, QuietRaise, QuietEnter DEF CountedCall, Codes
  <1>13. Quiet(S, W)
    BY <1>7, <1>11, QuietTwice
  <1> QED
    BY <1>3, <1>12, <1>13, QuietTwice DEF x

LEMMA QuietPcall ==
    ASSUME NEW S \in State, S.C # << >>, NEW handler \in BOOLEAN
    PROVE  Quiet(S, luaD_pcall(S, Cur(S), handler))
  <1> DEFINE x == Cur(S)
             T == S.th[x]
             m == Len(S.C) + 1
             t == [[T EXCEPT !.errorJmp = m] EXCEPT !.errfunc = handler]
             R == [S EXCEPT !.th = [S.th EXCEPT ![x] = t]]
             a == NewActivation(S.C, S.th, "pcall", handler)
             W == Push(R, a)
  <1>1. /\ x \in Threads /\ T \in Thread /\ S.th \in [Threads -> Thread] /\ T = L(S)
        /\ x = S.C[Len(S.C)].th /\ S.C \in Seq(Activations) /\ m \in Nat
    BY StateTypes
  <1>2. t \in Thread /\ Mark(t) = Mark(L(S))
    <2> HIDE DEF m, T
    <2> QED
      BY <1>1 DEF Thread, Mark
  <1>3. luaD_pcall(S, x, handler) = luaD_call(W, x, "execute")
    <2>1. Activation(S, "pcall", x, handler, FALSE) = a
      BY <1>1 DEF Activation, NewActivation
    <2> HIDE DEF a
    <2>2. [S EXCEPT !.th[x].errorJmp = m, !.th[x].errfunc = handler] = R
      <3> HIDE DEF x, m
      <3> QED
        BY <1>1 DEF State
    <2> QED
      BY <2>1, <2>2 DEF luaD_pcall
  <1>4. a.th = x /\ a.kind = "pcall"
    BY <1>1 DEF NewActivation
  <1>5. a \in Activations
    <2>1. T.ci \in Seq(Frames) /\ T.errorJmp \in Nat /\ T.nCcalls \in Nat /\ T.errfunc \in BOOLEAN
      BY <1>1 DEF Thread
    <2>2. Len(T.ci) \in Nat
      BY <2>1
    <2> HIDE DEF T
    <2> QED
      BY <1>1, <2>1, <2>2 DEF NewActivation, Activations, Kinds, T
  <1> HIDE DEF t, a, x, m
  <1>6. Changes(R, S, S.C, t, S.raise)
    <2>1. Is(R, S.C, [S.th EXCEPT ![x] = t], S.raise)
      BY <1>1, <1>2, ThreadsIs
    <2> QED
      BY <1>1, <2>1 DEF Changes
  <1> HIDE DEF R, T
  <1>7. Quiet(S, R)
    <2>1. SameStack(S.C, S.C)
      BY DEF SameStack
    <2> QED
      BY <1>2, <1>6, <2>1, QuietThread
  <1>8. R \in State /\ R.C = S.C
    BY <1>6 DEF Changes, Is
  <1>9. W \in State /\ W.C = Append(R.C, a) /\ W.th = R.th
    BY <1>5, <1>8, PushIs DEF Is
  <1>10. SameStack(R.C, W.C)
    BY <1>1, <1>4, <1>5, <1>8, <1>9, PushStack DEF Top
  <1> HIDE DEF W
  <1>11. Quiet(R, W) /\ W.C # << >>
    BY <1>9, <1>10, QuietStack DEF SameStack
  <1>12. Cur(W) = x
    <2>1. Cur(W) = Top(W.C) /\ Top(W.C) = Top(R.C)
      BY <1>9, <1>10, <1>11, StateTypes DEF SameStack, Top
    <2> QED
      BY <1>1, <1>8, <2>1 DEF Top
  <1>13. Quiet(W, luaD_call(W, x, "execute"))
    BY <1>9, <1>11, <1>12, QuietCall
  <1>14. Quiet(S, W)
    BY <1>7, <1>11, QuietTwice
  <1> QED
    BY <1>3, <1>13, <1>14, QuietTwice DEF x

-----------------------------------------------------------------------------
(* Operations that change who runs *)

\* What a thread waits in while it is not on the C stack.
Idle(S) ==
    /\ Marks(S)[Main] = <<"ok", FALSE>>
    /\ \A x \in On(S.C) : Marks(S)[x] = <<"ok", FALSE>>
    /\ \A x \in Threads : S.th[x].body => S.th[x].status = "ok"
    /\ \A x \in Coroutines \ On(S.C) : S.th[x].status = "ok" => Len(Rests(S)[x]) = 1

\* The running thread x leaves the C stack, marked m.
Departs(S, R, m) ==
    LET x == Top(S.C)
    IN  /\ R.C # << >>
        /\ x # Main
        /\ <<x, Top(R.C)>> \in By(S.C)
        /\ Top(R.C) # x
        /\ On(R.C) = On(S.C) \ {x}
        /\ By(R.C) = {p \in By(S.C) : p[1] # x}
        /\ Marks(R) = [Marks(S) EXCEPT ![x] = <<m, FALSE>>]
        /\ \A y \in Threads \ On(S.C) : Rests(R)[y] = Rests(S)[y]
        /\ m = "ok" => Len(Rests(R)[x]) = 1

\* The program ends.
Finishes(S, R) ==
    /\ R.C = << >>
    /\ On(R.C) = {}
    /\ By(R.C) = {}
    /\ S.C # << >>
    /\ Top(S.C) = Main
    /\ On(S.C) = {Main}
    /\ By(S.C) = {}
    /\ Marks(R) = Marks(S)
    /\ \A y \in Threads \ {Main} : Rests(R)[y] = Rests(S)[y]

\* Thread co, marked m when it waited, is resumed.
Enters(S, R, co, m) ==
    /\ m \in {<<"YIELD", FALSE>>, <<"ok", TRUE>>}
    /\ Marks(S)[co] = m
    /\ co \notin On(S.C)
    /\ R.C # << >>
    /\ Top(R.C) = co
    /\ On(R.C) = On(S.C) \cup {co}
    /\ By(R.C) = By(S.C) \cup {<<co, Top(S.C)>>}
    /\ Marks(R) = [Marks(S) EXCEPT ![co] = <<"ok", FALSE>>]
    /\ \A y \in Threads \ On(R.C) : Rests(R)[y] = Rests(S)[y]

\* Thread co is created, marked m before; or its body is lost.
Becomes(S, R, co, m, new) ==
    /\ SameStack(S.C, R.C)
    /\ Marks(S)[co] = m
    /\ co \notin On(S.C)
    /\ Marks(R) = [Marks(S) EXCEPT ![co] = new]
    /\ \A y \in Threads \ (On(S.C) \cup {co}) : Rests(R)[y] = Rests(S)[y]
    /\ Len(Rests(R)[co]) = 1

\* (Steps that nothing is seen of may come before or after.)
LEMMA QuietDeparts ==
    ASSUME NEW S, NEW T, NEW R, NEW m
    PROVE  /\ Quiet(S, T) /\ Departs(T, R, m) => Departs(S, R, m)
           /\ Departs(S, T, m) /\ Quiet(T, R) => Departs(S, R, m)
  BY DEF Quiet, SameStack, Departs

LEMMA QuietFinishes ==
    ASSUME NEW S, NEW T, NEW R, Quiet(S, T), Finishes(T, R)
    PROVE  Finishes(S, R)
  BY DEF Quiet, SameStack, Finishes

LEMMA QuietEnters ==
    ASSUME NEW S, NEW T, NEW R, NEW co, NEW m
    PROVE  /\ Quiet(S, T) /\ Enters(T, R, co, m) => Enters(S, R, co, m)
           /\ Enters(S, T, co, m) /\ Quiet(T, R) => Enters(S, R, co, m)
  BY DEF Quiet, SameStack, Enters

LEMMA QuietBecomes ==
    ASSUME NEW S, NEW T, NEW R, NEW co, NEW m, NEW new
    PROVE  /\ Quiet(S, T) /\ Becomes(T, R, co, m, new) => Becomes(S, R, co, m, new)
           /\ Becomes(S, T, co, m, new) /\ Quiet(T, R) => Becomes(S, R, co, m, new)
  BY DEF Quiet, SameStack, Becomes

-----------------------------------------------------------------------------
(* What the operations do *)

\* A thread is resumed by one at a time, and Main by none.
LEMMA ByOne ==
    ASSUME NEW C \in Seq(Activations), Chained(C), NEW x, NEW z, <<x, z>> \in By(C)
    PROVE  /\ x \in Coroutines /\ x \in On(C) /\ z \in On(C) /\ x # z
           /\ \A w : <<x, w>> \in By(C) => w = z
  <1>1. PICK i \in 2 .. Len(C) : C[i].kind = "resume" /\ x = C[i].th /\ z = C[i - 1].th
    BY DEF By
  <1>2. /\ Len(C) \in Nat /\ i \in 1 .. Len(C) /\ i - 1 \in 1 .. Len(C)
        /\ 1 \in 1 .. i - 1 /\ i - 1 \in 1 .. i - 1
    BY <1>1
  <1>3. \A k \in 2 .. Len(C) : C[k].kind = "resume" => \A l \in 1 .. k - 1 : C[l].th # C[k].th
    BY DEF Chained
  <1>4. C[1].th = Main
    BY <1>2 DEF Chained
  <1>5. x # Main /\ x # z
    BY <1>1, <1>2, <1>3, <1>4
  <1>6. x \in Threads
    BY <1>1, <1>2, ActivationTypes
  <1>7. ASSUME NEW w, <<x, w>> \in By(C)
        PROVE  w = z
    <2>1. PICK k \in 2 .. Len(C) : C[k].kind = "resume" /\ x = C[k].th /\ w = C[k - 1].th
      BY <1>7 DEF By
    <2>2. ~ (k < i) /\ ~ (i < k)
      <3>1. k < i => k \in 1 .. i - 1
        BY <1>2, <2>1
      <3>2. i < k => i \in 1 .. k - 1
        BY <1>2, <2>1
      <3> QED
        BY <1>1, <1>3, <2>1, <3>1, <3>2
    <2>3. k = i
      BY <1>1, <2>1, <2>2
    <2> QED
      BY <1>1, <2>1, <2>3
  <1> QED
    BY <1>1, <1>2, <1>5, <1>6, <1>7 DEF On, Threads

\* The running thread goes to t as the C stack is cut below its activation j.
LEMMA CutState ==
    ASSUME NEW S \in State, S.C # << >>, Chained(S.C), NEW j \in 1 .. Len(S.C),
           S.C[j].th = Cur(S), NEW t, NEW R, NEW r,
           Is(R, SubSeq(S.C, 1, j - 1), [S.th EXCEPT ![Cur(S)] = t], r)
    PROVE  /\ j > 1 /\ S.C[j].kind # "resume" /\ Mark(t) = Mark(L(S)) =>
                  Quiet(S, R) /\ L(R) = t
           /\ j = 1 /\ Mark(t) = Mark(L(S)) => Finishes(S, R)
           /\ \A m : j > 1 /\ S.C[j].kind = "resume" /\ Mark(t) = <<m, FALSE>>
                         /\ (m = "ok" => Len(t.ci) = 1) => Departs(S, R, m)
  <1> DEFINE C == S.C
             D == SubSeq(C, 1, j - 1)
             x == Cur(S)
  <1>1. /\ C \in Seq(Activations) /\ x = Top(C) /\ x \in Threads /\ S.th \in [Threads -> Thread]
        /\ L(S) = S.th[x] /\ Len(C) \in 1 .. Len(C)
    BY StateTypes DEF Top
  <1>2. x \in On(C)
    BY <1>1 DEF On, Top
  <1>3. R \in State /\ R.C = D /\ R.th = [S.th EXCEPT ![x] = t]
    BY DEF Is
  <1> HIDE DEF C, D, x
  <1>4. R.th[x] = t /\ \A y \in Threads : y # x => R.th[y] = S.th[y]
    BY <1>1, <1>3
  <1>5. Mark(t) = Mark(L(S)) => Marks(R) = Marks(S)
    <2>1. ASSUME Mark(t) = Mark(L(S)), NEW y \in Threads
          PROVE  Mark(R.th[y]) = Mark(S.th[y])
      BY <1>1, <1>4, <2>1
    <2> QED
      BY <2>1 DEF Marks
  <1>6. /\ j = 1 => D = << >> /\ On(D) = {} /\ By(D) = {}
                    /\ Top(C) = Main /\ On(C) = {Main} /\ By(C) = {}
        /\ j > 1 /\ C[j].kind # "resume" => SameStack(C, D)
        /\ j > 1 /\ C[j].kind = "resume" =>
               /\ D # << >>
               /\ <<Top(C), Top(D)>> \in By(C)
               /\ Top(D) # Top(C)
               /\ On(D) = On(C) \ {Top(C)}
               /\ By(D) = {p \in By(C) : p[1] # Top(C)}
    <2>1. C # << >> /\ Chained(C) /\ j \in 1 .. Len(C) /\ C[j].th = Top(C)
      BY <1>1 DEF C, x
    <2> QED
      BY <1>1, <2>1, CutStack DEF D
  <1>7. ASSUME j > 1, C[j].kind # "resume", Mark(t) = Mark(L(S))
        PROVE  Quiet(S, R) /\ L(R) = t
    <2>1. SameStack(C, D)
      BY <1>6, <1>7
    <2>2. \A y \in Threads \ On(C) : R.th[y].ci = S.th[y].ci
      BY <1>2, <1>4
    <2>3. Rests(R) = Rests(S)
      BY <1>3, <2>1, <2>2 DEF Rests, SameStack, C
    <2>4. Cur(R) = x
      <3>1. R.C # << >> /\ Top(R.C) = x
        BY <1>1, <1>3, <2>1 DEF SameStack
      <3> QED
        BY <1>3, <3>1, StateTypes DEF Top
    <2> QED
      BY <1>3, <1>4, <1>5, <1>7, <2>1, <2>3, <2>4 DEF Quiet, L, C
  <1>8. ASSUME j = 1, Mark(t) = Mark(L(S))
        PROVE  Finishes(S, R)
    <2>1. /\ D = << >> /\ On(D) = {} /\ By(D) = {} /\ Top(C) = Main /\ On(C) = {Main} /\ By(C) = {}
      BY <1>6, <1>8
    <2>2. \A y \in Threads \ {Main} : Rests(R)[y] = Rests(S)[y]
      <3>1. \A y \in Threads \ {Main} : y # x /\ y \notin On(C) /\ y \notin On(D)
        BY <1>1, <2>1
      <3> QED
        BY <1>3, <1>4, <3>1 DEF Rests, C
    <2> QED
      BY <1>3, <1>5, <1>8, <2>1, <2>2 DEF Finishes, C
  <1>9. ASSUME NEW m, j > 1, C[j].kind = "resume", Mark(t) = <<m, FALSE>>, m = "ok" => Len(t.ci) = 1
        PROVE  Departs(S, R, m)
    <2>1. /\ D # << >> /\ <<x, Top(D)>> \in By(C) /\ Top(D) # x
          /\ On(D) = On(C) \ {x} /\ By(D) = {p \in By(C) : p[1] # x}
      BY <1>1, <1>6, <1>9
    <2>2. x # Main
      <3>1. x \in Coroutines
        BY <1>1, <2>1, ByOne DEF C
      <3> QED
        BY <3>1, LuaCallAssumption
    <2>3. Marks(R) = [Marks(S) EXCEPT ![x] = <<m, FALSE>>]
      <3>1. \A y \in Threads : Mark(R.th[y]) = IF y = x THEN <<m, FALSE>> ELSE Mark(S.th[y])
        BY <1>4, <1>9
      <3> QED
        BY <3>1 DEF Marks
    <2>4. \A y \in Threads \ On(C) : Rests(R)[y] = Rests(S)[y]
      <3>1. \A y \in Threads \ On(C) : y # x /\ y \notin On(D)
        BY <1>2, <2>1
      <3> QED
        BY <1>3, <1>4, <3>1 DEF Rests, C
    <2>5. Rests(R)[x] = t.ci
      <3>1. x \in Threads \ On(D)
        BY <1>1, <2>1
      <3> QED
        BY <1>3, <1>4, <3>1 DEF Rests
    <2> QED
      BY <1>1, <1>3, <1>9, <2>1, <2>2, <2>3, <2>4, <2>5 DEF Departs, C
  <1> QED
    BY <1>7, <1>8, <1>9 DEF C

LEMMA OffOn ==
    ASSUME NEW C, NEW x
    PROVE  Off(C, x) <=> x \notin On(C)
  BY DEF Off, On

\* Every thread has at least the CallInfo at the base of its stack.
LEMMA AllBased ==
    ASSUME NEW S, NEW host \in Nat, WeakState(S, host), NEW x \in Threads
    PROVE  Len(S.th[x].ci) >= 1
  BY DEF WeakState, Weak, Threading, Well

\* What is needed of a state to see what happens to its threads.
Based(S) ==
    /\ S \in State
    /\ S.C # << >>
    /\ Chained(S.C)
    /\ \A x \in Threads : Len(S.th[x].ci) >= 1

LEMMA BasedChained ==
    ASSUME NEW S, Based(S)
    PROVE  /\ S \in State /\ S.C # << >> /\ Chained(S.C) /\ Cur(S) = Top(S.C)
           /\ Cur(S) \in On(S.C) /\ Cur(S) \in Threads /\ Len(S.C) \in 1 .. Len(S.C)
           /\ S.C \in Seq(Activations)
  <1>1. S \in State /\ S.C # << >> /\ Chained(S.C)
    BY DEF Based
  <1>2. Cur(S) = Top(S.C) /\ Cur(S) \in Threads /\ Len(S.C) \in 1 .. Len(S.C)
        /\ S.C \in Seq(Activations)
    BY <1>1, StateTypes DEF Top
  <1> QED
    BY <1>1, <1>2 DEF On, Top

LEMMA StateBased ==
    ASSUME NEW S, NEW host \in Nat, WeakState(S, host)
    PROVE  Based(S)
  BY AllBased DEF WeakState, Weak, Based

LEMMA StateChained ==
    ASSUME NEW S, NEW host \in Nat, WeakState(S, host)
    PROVE  /\ S \in State /\ S.C # << >> /\ Chained(S.C) /\ Cur(S) = Top(S.C)
           /\ Cur(S) \in On(S.C) /\ Cur(S) \in Threads /\ Len(S.C) \in 1 .. Len(S.C)
  BY StateBased, BasedChained

LEMMA MainOn ==
    ASSUME NEW C \in Seq(Activations), C # << >>, Chained(C)
    PROVE  Main \in On(C)
  <1>1. 1 \in 1 .. Len(C) /\ C[1].th = Main
    BY DEF Chained
  <1> QED
    BY <1>1 DEF On

LEMMA BornBody == Born.body = TRUE
  <1> DEFINE N == NewThread(0, <<"base">>)
  <1>1. N.body = FALSE /\ Born = [N EXCEPT !.body = TRUE]
    BY DEF Born, NewThread
  <1>2. "body" \in DOMAIN N
    BY DEF NewThread
  <1> HIDE DEF N
  <1> QED
    BY <1>1, <1>2

LEMMA PcallReturnsSeen ==
    ASSUME NEW S \in State, S.C # << >>, Chained(S.C), NEW j \in 1 .. Len(S.C),
           S.C[j].th = Cur(S), S.C[j].kind = "pcall", NEW t, Mark(t) = Mark(L(S)), Len(t.ci) >= 1,
           NEW R, NEW r, Is(R, SubSeq(S.C, 1, j - 1), [S.th EXCEPT ![Cur(S)] = t], r)
    PROVE  Quiet(S, PcallReturns(R)) \/ Finishes(S, PcallReturns(R))
  <1>1. j \in Nat /\ j >= 1 /\ R \in State
    BY StateTypes DEF Is
  <1>2. CASE j = 1
    <2>1. Finishes(S, R)
      BY <1>2, CutState
    <2>2. PcallReturns(R) = R
      BY <2>1 DEF Finishes, PcallReturns
    <2> QED
      BY <2>1, <2>2
  <1>3. CASE j > 1
    <2>1. Quiet(S, R) /\ L(R) = t
      BY <1>3, CutState
    <2>2. R.C # << >>
      BY <2>1 DEF Quiet, SameStack
    <2>3. PcallReturns(R) = poscall(R)
      BY <2>2 DEF PcallReturns
    <2>4. Quiet(R, poscall(R))
      BY <1>1, <2>1, <2>2, QuietPoscall
    <2> QED
      BY <2>1, <2>3, <2>4, QuietTwice
  <1> QED
    BY <1>1, <1>2, <1>3

LEMMA PcallEndsSeen ==
    ASSUME NEW S, NEW host \in Nat, WeakState(S, host), S.C[Len(S.C)].kind = "pcall"
    PROVE  Quiet(S, PcallEnds(S, Cur(S))) \/ Finishes(S, PcallEnds(S, Cur(S)))
  <1> DEFINE t == PcallEnded(L(S), S.C[Len(S.C)])
  <1>1. /\ S \in State /\ S.C # << >> /\ Chained(S.C) /\ Cur(S) = Top(S.C) /\ Cur(S) \in Threads
        /\ Len(S.C) \in 1 .. Len(S.C)
    BY StateChained
  <1>2. t.ci = L(S).ci /\ \E R : PcallEnds(S, Cur(S)) = PcallReturns(R) /\ Ended(R, S, t, S.raise)
    BY <1>1, PcallEndedIs
  <1>3. L(S) \in Thread /\ L(S) = S.th[Cur(S)] /\ S.C[Len(S.C)].th = Cur(S)
    BY <1>1, StateTypes
  <1>4. Mark(t) = Mark(L(S))
    BY <1>3 DEF Mark, PcallEnded, Thread
  <1>5. Len(t.ci) >= 1
    BY <1>1, <1>2, <1>3, AllBased
  <1> HIDE DEF t
  <1>6. PICK R : PcallEnds(S, Cur(S)) = PcallReturns(R) /\ Ended(R, S, t, S.raise)
    BY <1>2
  <1>7. Is(R, SubSeq(S.C, 1, Len(S.C) - 1), [S.th EXCEPT ![Cur(S)] = t], S.raise)
    BY <1>3, <1>6 DEF Ended
  <1> QED
    BY <1>1, <1>3, <1>4, <1>5, <1>6, <1>7, PcallReturnsSeen

\* The resumption of the running thread leaves the C stack, and resume returns.
LEMMA EndsSeen ==
    ASSUME NEW S \in State, S.C # << >>, Chained(S.C), S.C[Len(S.C)].kind = "resume",
           \A y \in Threads : Len(S.th[y].ci) >= 1,
           NEW R, NEW t, NEW r, Ended(R, S, t, r),
           NEW m, Mark(t) = <<m, FALSE>>, m = "ok" => Len(t.ci) = 1
    PROVE  /\ Departs(S, poscall(R), m)
           /\ poscall(R).C = SubSeq(S.C, 1, Len(S.C) - 1)
  <1> DEFINE x == Cur(S)
             j == Len(S.C)
  <1>1. /\ S.C[j].th = x /\ j \in 1 .. j /\ j \in Nat /\ x \in Threads
        /\ S.C \in Seq(Activations) /\ S.th \in [Threads -> Thread]
    BY StateTypes
  <1>2. Is(R, SubSeq(S.C, 1, j - 1), [S.th EXCEPT ![x] = t], r)
    BY <1>1 DEF Ended
  <1>3. j > 1
    <2>1. S.C[1].kind = "pcall"
      BY DEF Chained
    <2> QED
      BY <1>1, <2>1
  <1> HIDE DEF x
  <1>4. Departs(S, R, m)
    <2>1. S.C[j].th = Cur(S) /\ Is(R, SubSeq(S.C, 1, j - 1), [S.th EXCEPT ![Cur(S)] = t], r)
      BY <1>1, <1>2 DEF x
    <2> QED
      BY <1>1, <1>3, <2>1, CutState
  <1>5. R.C # << >> /\ Top(R.C) # x /\ R \in State
    BY <1>1, <1>2, <1>4, StateTypes DEF Departs, Is, Top
  <1>6. Cur(R) = Top(R.C) /\ Cur(R) \in Threads /\ L(R) = R.th[Cur(R)]
    BY <1>5, StateTypes DEF Top
  <1>7. R.th[Cur(R)] = S.th[Cur(R)]
    BY <1>1, <1>2, <1>5, <1>6 DEF Is
  <1>8. Len(L(R).ci) >= 1
    BY <1>6, <1>7
  <1>9. Quiet(R, poscall(R))
    BY <1>5, <1>8, QuietPoscall
  <1>10. poscall(R).C = SubSeq(S.C, 1, j - 1)
    BY <1>2, <1>5, <1>8, poscallIs DEF Changes, Is
  <1> QED
    BY <1>4, <1>9, <1>10, QuietDeparts

\* lua_resume returns: the coroutine yields or its body ends.
LEMMA ReturnsSeen ==
    ASSUME NEW S \in State, S.C # << >>, Chained(S.C), Idle(S), S.C[Len(S.C)].kind = "resume",
           \A y \in Threads : Len(S.th[y].ci) >= 1, L(S).nCcalls >= 1,
           NEW m \in Statuses, m = "ok" => Len(L(S).ci) = 1
    PROVE  /\ Departs(S, lua_resumeReturns(S, Cur(S), m), m)
           /\ lua_resumeReturns(S, Cur(S), m).C = SubSeq(S.C, 1, Len(S.C) - 1)
  <1> DEFINE t == ResumeEnded(L(S), S.C[Len(S.C)].previous, m)
             x == Cur(S)
             j == Len(S.C)
  <1>1. /\ L(S) \in Thread /\ L(S) = S.th[x] /\ S.C[j].th = x /\ j \in 1 .. j /\ x \in Threads
        /\ S.C \in Seq(Activations) /\ S.th \in [Threads -> Thread]
    BY StateTypes
  <1>2. PICK R : /\ lua_resumeReturns(S, x, m) = poscall(R)
                 /\ Ended(R, S, t, S.raise)
    BY lua_resumeReturnsIs
  <1>3. x \in On(S.C)
    BY <1>1 DEF On
  <1>4. L(S).body = FALSE
    BY <1>1, <1>3 DEF Idle, Marks, Mark
  <1>5. Mark(t) = <<m, FALSE>> /\ t.ci = L(S).ci
    BY <1>1, <1>4 DEF Mark, ResumeEnded, Thread
  <1> HIDE DEF t, x
  <1>6. m = "ok" => Len(t.ci) = 1
    BY <1>5
  <1> QED
    BY <1>2, <1>5, <1>6, EndsSeen DEF x

\* Coroutine co is above the running thread, and not marked yet.
Above(S, R, co) ==
    /\ R.C # << >>
    /\ Top(R.C) = co
    /\ On(R.C) = On(S.C) \cup {co}
    /\ By(R.C) = By(S.C) \cup {<<co, Top(S.C)>>}
    /\ Marks(R) = Marks(S)
    /\ \A y \in Threads \ On(R.C) : Rests(R)[y] = Rests(S)[y]

LEMMA QuietAbove ==
    ASSUME NEW S, NEW T, NEW R, NEW co, Above(S, T, co), Quiet(T, R)
    PROVE  Above(S, R, co)
  BY DEF Above, Quiet, SameStack

LEMMA AboveEnters ==
    ASSUME NEW S \in State, NEW T \in State, NEW co \in Threads, Above(S, T, co), co \notin On(S.C),
           NEW m, m \in {<<"YIELD", FALSE>>, <<"ok", TRUE>>}, Marks(S)[co] = m,
           NEW u, Mark(u) = <<"ok", FALSE>>,
           NEW R, SameStack(T.C, R.C), R.th = [T.th EXCEPT ![co] = u]
    PROVE  Enters(S, R, co, m)
  <1>1. T.th \in [Threads -> Thread]
    BY StateTypes
  <1>2. R.th[co] = u /\ \A y \in Threads : y # co => R.th[y] = T.th[y]
    BY <1>1
  <1>3. Marks(R) = [Marks(S) EXCEPT ![co] = <<"ok", FALSE>>]
    <2>1. Marks(R) = [Marks(T) EXCEPT ![co] = <<"ok", FALSE>>]
      <3>1. \A y \in Threads : Mark(R.th[y]) = IF y = co THEN <<"ok", FALSE>> ELSE Mark(T.th[y])
        BY <1>2
      <3> QED
        BY <3>1 DEF Marks
    <2> QED
      BY <2>1 DEF Above
  <1>4. \A y \in Threads \ On(R.C) : Rests(R)[y] = Rests(S)[y]
    <2>1. On(R.C) = On(T.C) /\ co \in On(T.C)
      BY DEF SameStack, Above
    <2>2. \A y \in Threads \ On(R.C) : Rests(R)[y] = Rests(T)[y]
      BY <1>2, <2>1 DEF Rests
    <2> QED
      BY <2>1, <2>2 DEF Above
  <1> QED
    BY <1>3, <1>4 DEF Enters, SameStack, Above

LEMMA ResumingAbove ==
    ASSUME NEW S, NEW host \in Nat, Ready(S, host), NEW co \in Threads, NEW wrap \in BOOLEAN,
           Suspended(S, co, S.th[co]), NEW n, n = L(S).nCcalls, NEW R,
           R = Resuming(S, co, Begun(S.th[co], n, Len(S.C)),
                        Resumption(S.C, S.th, co, 0, wrap))
    PROVE  /\ R \in State /\ Above(S, R, co) /\ Cur(R) = co /\ R.th[co].ci = S.th[co].ci
           /\ R.th[co].status = S.th[co].status /\ R.th[co].body = S.th[co].body
           /\ co \notin On(S.C)
  <1> DEFINE T == S.th[co]
             t == Begun(T, n, Len(S.C))
             zero == 0
             a == Resumption(S.C, S.th, co, zero, wrap)
  <1>1. WeakState(S, host)
    BY DEF Ready
  <1>2. /\ S \in State /\ S.C # << >> /\ n \in Nat /\ Len(S.C) \in Nat /\ S.th \in [Threads -> Thread]
        /\ S.C \in Seq(Activations) /\ L(S) = S.th[S.C[Len(S.C)].th]
    BY <1>1, RunningThread DEF WeakState
  <1>3. T \in Thread /\ co \notin On(S.C)
    BY OffOn DEF Suspended
  <1>4. t \in Thread /\ t.status = T.status /\ t.ci = T.ci
    <2> HIDE DEF T
    <2> QED
      BY <1>2, <1>3, BegunThread
  <1>5. t.body = T.body
    <2> HIDE DEF T
    <2> QED
      BY <1>3 DEF Begun, Thread
  <1>6. a \in Activations /\ a.kind = "resume" /\ a.th = co
    <2> DEFINE C == S.C
               th == S.th
    <2>1. zero \in Nat /\ th[C[Len(C)].th].nCcalls \in Nat
      BY <1>2
    <2> HIDE DEF zero, C, th
    <2>2. LET e == Resumption(C, th, co, zero, wrap)
          IN  e \in Activations /\ e.kind = "resume" /\ e.th = co
      <3> DEFINE w == th[C[Len(C)].th].nCcalls
                 kind == "resume"
                 no == FALSE
                 one == 1
      <3>1. w \in Nat /\ zero \in Nat /\ one \in Nat /\ kind \in Kinds /\ no \in BOOLEAN
        BY <2>1 DEF Kinds
      <3>2. Resumption(C, th, co, zero, wrap)
                = [kind |-> kind, th |-> co, n |-> zero, handler |-> no, wrap |-> wrap,
                   ci |-> one, previous |-> zero, nCcalls |-> w, errfunc |-> no]
        BY DEF Resumption, zero
      <3>3. kind = "resume"
        OBVIOUS
      <3> HIDE DEF w, kind, no, one
      <3> QED
        BY <3>1, <3>2, <3>3 DEF Activations
    <2> QED
      BY <2>2 DEF C, th
  <1>7. R = [At(S, co, t) EXCEPT !.C = Append(S.C, a)]
    BY DEF Resuming
  <1> HIDE DEF t, a
  <1>8. Is(R, Append(S.C, a), [S.th EXCEPT ![co] = t], S.raise)
    <2> DEFINE Q == At(S, co, t)
    <2>1. Is(Q, S.C, [S.th EXCEPT ![co] = t], S.raise)
      BY <1>2, <1>4, ThreadsIs DEF At
    <2> HIDE DEF Q
    <2>2. Q \in State /\ Q.C = S.C /\ Q.th = [S.th EXCEPT ![co] = t] /\ Q.raise = S.raise
      BY <2>1 DEF Is
    <2>3. R = [Q EXCEPT !.C = Append(S.C, a)]
      BY <1>7 DEF Q
    <2>4. R = Push(Q, a)
      BY <2>2, <2>3 DEF Push
    <2>5. Is(R, Append(Q.C, a), Q.th, Q.raise)
      BY <1>6, <2>2, <2>4, PushIs
    <2> QED
      BY <2>2, <2>5
  <1>9. R \in State /\ R.C = Append(S.C, a) /\ R.th = [S.th EXCEPT ![co] = t]
    BY <1>8 DEF Is
  <1>10. /\ R.C # << >> /\ Top(R.C) = co /\ On(R.C) = On(S.C) \cup {co}
         /\ By(R.C) = By(S.C) \cup {<<co, Top(S.C)>>}
    <2> DEFINE D == Append(S.C, a)
    <2>1. /\ D # << >> /\ Top(D) = a.th /\ On(D) = On(S.C) \cup {a.th}
          /\ By(D) = By(S.C) \cup (IF a.kind = "resume" THEN {<<a.th, Top(S.C)>>} ELSE {})
      BY <1>2, <1>6, HigherStack
    <2> HIDE DEF D
    <2>2. R.C = D
      BY <1>9 DEF D
    <2> QED
      BY <1>6, <2>1, <2>2
  <1>11. R.th[co] = t /\ \A y \in Threads : y # co => R.th[y] = S.th[y]
    BY <1>2, <1>9
  <1>12. Marks(R) = Marks(S)
    <2>1. \A y \in Threads : Mark(R.th[y]) = Mark(S.th[y])
      BY <1>4, <1>5, <1>11 DEF Mark
    <2> QED
      BY <2>1 DEF Marks
  <1>13. \A y \in Threads \ On(R.C) : Rests(R)[y] = Rests(S)[y]
    BY <1>10, <1>11 DEF Rests
  <1>14. Cur(R) = co
    BY <1>9, <1>10, StateTypes DEF Top
  <1> QED
    BY <1>3, <1>4, <1>5, <1>9, <1>10, <1>11, <1>12, <1>13, <1>14 DEF Above

LEMMA StartedSeen ==
    ASSUME NEW S \in State, NEW W \in State, NEW co \in Threads, Above(S, W, co),
           co \notin On(S.C), Marks(S)[co] = <<"ok", TRUE>>, W.th[co].status = "ok"
    PROVE  Enters(S, Started(W, co), co, <<"ok", TRUE>>)
  <1> DEFINE u == [W.th[co] EXCEPT !.body = FALSE]
             R == [W EXCEPT !.th = [W.th EXCEPT ![co] = u]]
  <1>1. W.th \in [Threads -> Thread] /\ W.th[co] \in Thread
    BY StateTypes
  <1>2. u \in Thread /\ Mark(u) = <<"ok", FALSE>>
    BY <1>1 DEF Thread, Mark
  <1>3. Started(W, co) = EnterLua(R)
    BY DEF Started
  <1> HIDE DEF u
  <1>4. Is(R, W.C, [W.th EXCEPT ![co] = u], W.raise)
    BY <1>2, ThreadsIs
  <1> HIDE DEF R
  <1>5. R \in State /\ R.C = W.C /\ R.th = [W.th EXCEPT ![co] = u] /\ R.C # << >>
    BY <1>4 DEF Is, Above
  <1>6. SameStack(W.C, R.C)
    BY <1>5 DEF SameStack
  <1>7. Enters(S, R, co, <<"ok", TRUE>>)
    BY <1>2, <1>5, <1>6, AboveEnters
  <1> QED
    BY <1>3, <1>5, <1>7, QuietEnter, QuietEnters

LEMMA ContinuedSeen ==
    ASSUME NEW S \in State, NEW W \in State, NEW co \in Threads, Above(S, W, co),
           co \notin On(S.C), Marks(S)[co] = <<"YIELD", FALSE>>, Cur(W) = co,
           Len(W.th[co].ci) \in Nat, Len(W.th[co].ci) > 2
    PROVE  Enters(S, Continued(W, co), co, <<"YIELD", FALSE>>)
  <1> DEFINE T == poscall(W)
             m == Len(W.C)
             n == Len(W.th[co].ci) - 2
             u == [T.th[co] EXCEPT !.status = "ok"]
             D == [T.C EXCEPT ![m] = [T.C[m] EXCEPT !.n = n]]
             R == Continued(W, co)
  <1>1. W.C # << >>
    BY DEF Above
  <1>2. L(W) = W.th[co] /\ Len(L(W).ci) >= 1
    BY <1>1, StateTypes
  <1>3. T \in State /\ T.C = W.C
    BY <1>1, <1>2, poscallIs DEF Changes, Is
  <1>4. Above(S, T, co)
    BY <1>1, <1>2, QuietPoscall, QuietAbove
  <1>5. R = [[T EXCEPT !.th[co].status = "ok"] EXCEPT !.C[m].n = n]
    BY DEF Continued
  <1>n. n \in Nat
    OBVIOUS
  <1> HIDE DEF T, n
  <1>6. T.th \in [Threads -> Thread] /\ T.th[co] \in Thread
    BY <1>3, StateTypes
  <1>7. R.th = [T.th EXCEPT ![co] = u] /\ R.C = D
    <2> HIDE DEF m
    <2> QED
      BY <1>3, <1>5 DEF State
  <1>8. Mark(u) = <<"ok", FALSE>>
    <2>1. Mark(T.th[co]) = <<"YIELD", FALSE>>
      BY <1>4 DEF Above, Marks
    <2> QED
      BY <1>6, <2>1 DEF Mark, Thread
  <1>9. SameStack(T.C, D)
    <2> DEFINE b == T.C[m]
               a == [b EXCEPT !.n = n]
    <2>1. T.C \in Seq(Activations) /\ m \in 1 .. m /\ Len(T.C) = m /\ T.C # << >>
      BY <1>1, <1>3, StateTypes
    <2> HIDE DEF m
    <2>2. b \in Activations
      BY <2>1
    <2> HIDE DEF b
    <2>3. a \in Activations /\ a.th = b.th /\ a.kind = b.kind
      BY <1>n, <2>2, ActivationExcept DEF Alike
    <2> HIDE DEF a
    <2> DEFINE E == [T.C EXCEPT ![m] = a]
    <2>4. /\ E \in Seq(Activations) /\ Len(E) = m
          /\ \A i \in 1 .. m : E[i] = IF i = m THEN a ELSE T.C[i]
      BY <2>1, <2>3
    <2> HIDE DEF E
    <2>5. \A i \in 1 .. m : E[i].th = T.C[i].th /\ E[i].kind = T.C[i].kind
      BY <2>3, <2>4 DEF b
    <2>6. SameStack(T.C, E)
      BY <2>1, <2>4, <2>5, AlikeStack
    <2> QED
      BY <2>6 DEF E, a, b
  <1> HIDE DEF R, u, D
  <1> QED
    BY <1>3, <1>4, <1>7, <1>8, <1>9, AboveEnters DEF R

-----------------------------------------------------------------------------
(* The steps *)

\* All that a step changes of what is seen.
Viewed(S, R) ==
    \/ Quiet(S, R)
    \/ Finishes(S, R)
    \/ \E co \in Coroutines : Becomes(S, R, co, <<"none", FALSE>>, <<"ok", TRUE>>)
    \/ \E co \in Coroutines : Becomes(S, R, co, <<"ok", TRUE>>, <<"ok", FALSE>>)
    \/ \E co \in Coroutines, m \in {<<"YIELD", FALSE>>, <<"ok", TRUE>>} : Enters(S, R, co, m)
    \/ \E m \in Codes \cup {"ok"} : Departs(S, R, m)
    \/ /\ Departs(S, R, "YIELD")
       /\ S.C[Len(S.C)].kind = "resume"
       /\ R.C = SubSeq(S.C, 1, Len(S.C) - 1)

LEMMA QuietViewed ==
    ASSUME NEW S, NEW T, NEW R, Quiet(S, T), T.C = S.C, Viewed(T, R)
    PROVE  Viewed(S, R)
  <1>1. CASE Quiet(T, R)
    BY <1>1, QuietTwice DEF Viewed
  <1>2. CASE Finishes(T, R)
    BY <1>2, QuietFinishes DEF Viewed
  <1>3. CASE \E co \in Coroutines : Becomes(T, R, co, <<"none", FALSE>>, <<"ok", TRUE>>)
    BY <1>3, QuietBecomes DEF Viewed
  <1>4. CASE \E co \in Coroutines : Becomes(T, R, co, <<"ok", TRUE>>, <<"ok", FALSE>>)
    BY <1>4, QuietBecomes DEF Viewed
  <1>5. CASE \E co \in Coroutines, m \in {<<"YIELD", FALSE>>, <<"ok", TRUE>>} : Enters(T, R, co, m)
    BY <1>5, QuietEnters DEF Viewed
  <1>6. CASE \E m \in Codes \cup {"ok"} : Departs(T, R, m)
    BY <1>6, QuietDeparts DEF Viewed
  <1>7. CASE /\ Departs(T, R, "YIELD")
             /\ T.C[Len(T.C)].kind = "resume"
             /\ R.C = SubSeq(T.C, 1, Len(T.C) - 1)
    <2>1. Departs(S, R, "YIELD")
      BY <1>7, QuietDeparts
    <2> QED
      BY <1>7, <2>1 DEF Viewed
  <1> QED
    BY <1>1, <1>2, <1>3, <1>4, <1>5, <1>6, <1>7 DEF Viewed

LEMMA MarkIs ==
    ASSUME NEW S, NEW x \in Threads, NEW u, NEW v
    PROVE  Marks(S)[x] = <<u, v>> <=> S.th[x].status = u /\ S.th[x].body = v
  BY DEF Marks, Mark

LEMMA QuietIdle ==
    ASSUME NEW S, NEW R, Quiet(S, R), Idle(S)
    PROVE  Idle(R)
  <1>1. /\ Marks(R) = Marks(S) /\ Rests(R) = Rests(S) /\ On(R.C) = On(S.C)
    BY DEF Quiet, SameStack
  <1>2. \A x \in Threads : R.th[x].status = S.th[x].status /\ R.th[x].body = S.th[x].body
    <2>1. \A x \in Threads : Mark(R.th[x]) = Mark(S.th[x])
      <3> SUFFICES ASSUME NEW x \in Threads
                   PROVE  Mark(R.th[x]) = Mark(S.th[x])
        OBVIOUS
      <3>1. Marks(R)[x] = Mark(R.th[x]) /\ Marks(S)[x] = Mark(S.th[x])
        BY DEF Marks
      <3> QED
        BY <1>1, <3>1
    <2> QED
      BY <2>1 DEF Mark
  <1>3. Coroutines \subseteq Threads
    BY DEF Threads
  <1> QED
    BY <1>1, <1>2, <1>3 DEF Idle

LEMMA WorkingQuiet ==
    ASSUME NEW host \in Nat, Working(host)
    PROVE  /\ s \in State /\ s.C # << >>
           /\ Quiet(s, growCI(s))
           /\ Quiet(s, called) /\ called.C = s.C
           /\ called \in State
  <1>1. s \in State /\ s.C # << >>
    BY DEF Working, WeakState
  <1> QED
    BY <1>1, QuietGrow, QuietInc DEF called, Frames

LEMMA LibrarySeen ==
    ASSUME NEW host \in Nat, Working(host), NEW R, Library(R), ~ Full(s) => Viewed(called, R)
    PROVE  Viewed(s, s')
  <1>1. CASE Full(s)
    BY <1>1, WorkingQuiet DEF Library, Viewed
  <1>2. CASE ~ Full(s)
    BY <1>2, WorkingQuiet, QuietViewed DEF Library
  <1> QED
    BY <1>1, <1>2

LEMMA CallsSeen ==
    ASSUME NEW host \in Nat, Working(host),
           Call \/ CallMetamethod \/ CallBack \/ (\E handler \in BOOLEAN : Pcall(handler))
           \/ Error \/ MemoryError
    PROVE  Viewed(s, s')
  <1>1. s \in State /\ s.C # << >> /\ called \in State /\ called.C = s.C /\ Cur(called) = Cur(s)
    BY WorkingQuiet DEF Cur
  <1>2. CASE Call
    BY <1>1, <1>2, QuietEnter DEF Call, Viewed
  <1>3. CASE CallMetamethod
    BY <1>1, <1>3, QuietCall DEF CallMetamethod, Viewed
  <1>4. CASE CallBack
    <2>1. Quiet(called, luaD_call(called, Cur(s), "execute"))
      BY <1>1, QuietCall
    <2> QED
      BY <1>4, <2>1, LibrarySeen DEF CallBack, Viewed
  <1>5. ASSUME NEW handler \in BOOLEAN, Pcall(handler)
        PROVE  Viewed(s, s')
    <2>1. Quiet(called, luaD_pcall(called, Cur(s), handler))
      BY <1>1, QuietPcall
    <2> QED
      BY <1>5, <2>1, LibrarySeen DEF Pcall, Viewed
  <1>6. CASE Error
    <2>1. Quiet(called, Raise(called, "message"))
      BY <1>1, QuietRaise
    <2> QED
      BY <1>6, <2>1, LibrarySeen DEF Error, Viewed
  <1>7. CASE MemoryError
    BY <1>1, <1>7, QuietRaise DEF MemoryError, Viewed, Codes
  <1> QED
    BY <1>2, <1>3, <1>4, <1>5, <1>6, <1>7

\* A suspended coroutine waits in a call of yield, or for its body.
LEMMA SuspendedMark ==
    ASSUME NEW S, NEW host \in Nat, Ready(S, host), Idle(S), NEW co \in Threads,
           costatus(S, co) = "suspended"
    PROVE  /\ Suspended(S, co, S.th[co])
           /\ co \in Coroutines /\ co \notin On(S.C)
           /\ \/ Marks(S)[co] = <<"YIELD", FALSE>> /\ S.th[co].status = "YIELD"
              \/ Marks(S)[co] = <<"ok", TRUE>> /\ S.th[co].status = "ok" /\ Len(S.th[co].ci) = 1
  <1> DEFINE T == S.th[co]
  <1>1. WeakState(S, host) /\ S.raise = "no"
    BY DEF Ready
  <1>2. Suspended(S, co, T)
    BY <1>1, SuspendedKnows
  <1>3. co \notin On(S.C) /\ T \in Thread
    BY <1>2, OffOn DEF Suspended
  <1>4. co \in Coroutines
    <2>1. S \in State /\ S.C # << >> /\ Chained(S.C)
      BY <1>1, StateChained
    <2>2. Main \in On(S.C)
      BY <2>1, StateTypes, MainOn
    <2> QED
      BY <1>3, <2>2 DEF Threads
  <1>5. T.status = "YIELD" \/ (T.status = "ok" /\ Len(T.ci) = 1 /\ T.body)
    BY DEF costatus
  <1>6. T.body \in BOOLEAN /\ (T.body => T.status = "ok")
    BY <1>3 DEF Idle, Thread
  <1>7. Marks(S)[co] = <<T.status, T.body>>
    BY DEF Marks, Mark
  <1> HIDE DEF T
  <1>8. CASE T.status = "YIELD"
    <2>1. T.body = FALSE
      BY <1>6, <1>8
    <2> QED
      BY <1>2, <1>3, <1>4, <1>7, <1>8, <2>1 DEF T
  <1>9. CASE T.status = "ok" /\ Len(T.ci) = 1 /\ T.body
    <2>1. T.body = TRUE
      BY <1>6, <1>9
    <2> QED
      BY <1>2, <1>3, <1>4, <1>7, <1>9, <2>1 DEF T
  <1> QED
    BY <1>5, <1>8, <1>9

\* Only thread co, which is not on the C stack, goes to t.
LEMMA AsideSeen ==
    ASSUME NEW S \in State, S.C # << >>, NEW co \in Threads, co \notin On(S.C),
           NEW t, NEW R, R = At(S, co, t)
    PROVE  /\ Mark(t) = Mark(S.th[co]) /\ t.ci = S.th[co].ci => Quiet(S, R)
           /\ \A m : Marks(S)[co] = m /\ Len(t.ci) = 1 => Becomes(S, R, co, m, Mark(t))
  <1>1. R.C = S.C /\ R.th = [S.th EXCEPT ![co] = t] /\ S.th \in [Threads -> Thread]
    BY StateTypes DEF At, State
  <1>2. R.th[co] = t /\ \A y \in Threads : y # co => R.th[y] = S.th[y]
    BY <1>1
  <1>3. SameStack(S.C, R.C)
    BY <1>1 DEF SameStack
  <1>4. Marks(R) = [Marks(S) EXCEPT ![co] = Mark(t)]
    <2>1. \A y \in Threads : Mark(R.th[y]) = IF y = co THEN Mark(t) ELSE Mark(S.th[y])
      BY <1>2
    <2> QED
      BY <2>1 DEF Marks
  <1>5. \A y \in Threads \ On(S.C) : y # co => Rests(R)[y] = Rests(S)[y]
    BY <1>1, <1>2 DEF Rests
  <1>6. Rests(R)[co] = t.ci
    BY <1>1, <1>2 DEF Rests
  <1>7. ASSUME Mark(t) = Mark(S.th[co]), t.ci = S.th[co].ci
        PROVE  Quiet(S, R)
    <2>1. Marks(R) = Marks(S)
      <3>1. \A y \in Threads : Mark(R.th[y]) = Mark(S.th[y])
        BY <1>2, <1>7
      <3> QED
        BY <3>1 DEF Marks
    <2>2. Rests(R) = Rests(S)
      <3>1. \A y \in Threads \ On(S.C) : R.th[y].ci = S.th[y].ci
        BY <1>2, <1>7
      <3> QED
        BY <1>1, <3>1 DEF Rests
    <2> QED
      BY <1>3, <2>1, <2>2 DEF Quiet
  <1>8. ASSUME NEW m, Marks(S)[co] = m, Len(t.ci) = 1
        PROVE  Becomes(S, R, co, m, Mark(t))
    BY <1>3, <1>4, <1>5, <1>6, <1>8 DEF Becomes
  <1> QED
    BY <1>7, <1>8

LEMMA RefusedSeen ==
    ASSUME NEW S, NEW host \in Nat, Ready(S, host), Idle(S), NEW co \in Threads, NEW wrap,
           costatus(S, co) = "suspended"
    PROVE  Viewed(S, resume_error(lua_setlevel(S, co), co, wrap))
  <1> DEFINE T == S.th[co]
             n == L(S).nCcalls
             t == Refusing(T, n)
             R == At(S, co, t)
  <1>1. S \in State /\ S.C # << >>
    BY DEF Ready, WeakState
  <1>2. /\ T \in Thread /\ co \in Coroutines /\ co \notin On(S.C)
        /\ \/ Marks(S)[co] = <<"YIELD", FALSE>>
           \/ Marks(S)[co] = <<"ok", TRUE>> /\ Len(T.ci) = 1
    <2>1. Suspended(S, co, T)
      BY SuspendedMark
    <2>2. T \in Thread
      <3> HIDE DEF T
      <3> QED
        BY <2>1 DEF Suspended
    <2> QED
      BY <2>2, SuspendedMark
  <1>3. resume_error(lua_setlevel(S, co), co, wrap) = ResumeFails(R, wrap) /\ Ready(R, host)
    BY RefusedReady
  <1>4. Mark(t) = <<T.status, FALSE>> /\ t.ci = T.ci
    <2> HIDE DEF T, n
    <2> QED
      BY <1>2 DEF Mark, Refusing, Thread
  <1>5. Marks(S)[co] = Mark(T)
    BY DEF Marks
  <1> HIDE DEF T, t, n
  <1>6. CASE Marks(S)[co] = <<"YIELD", FALSE>>
    <2>1. Mark(t) = Mark(T)
      <3>1. T.status = "YIELD"
        BY <1>6, MarkIs DEF T
      <3> QED
        BY <1>4, <1>5, <1>6, <3>1
    <2>2. Quiet(S, R)
      BY <1>1, <1>2, <1>4, <2>1, AsideSeen DEF T
    <2> HIDE DEF R
    <2>3. Quiet(R, ResumeFails(R, wrap))
      BY <1>3, QuietFails
    <2> QED
      BY <1>3, <2>2, <2>3, QuietTwice DEF Viewed
  <1>7. CASE Marks(S)[co] = <<"ok", TRUE>> /\ Len(T.ci) = 1
    <2>1. Mark(t) = <<"ok", FALSE>>
      <3>1. T.status = "ok"
        BY <1>7, MarkIs DEF T
      <3> QED
        BY <1>4, <3>1
    <2>2. Becomes(S, R, co, <<"ok", TRUE>>, <<"ok", FALSE>>)
      <3>1. Becomes(S, R, co, <<"ok", TRUE>>, Mark(t))
        BY <1>1, <1>2, <1>4, <1>7, AsideSeen DEF T
      <3> QED
        BY <2>1, <3>1
    <2> HIDE DEF R
    <2>3. Quiet(R, ResumeFails(R, wrap))
      BY <1>3, QuietFails
    <2>4. Becomes(S, ResumeFails(R, wrap), co, <<"ok", TRUE>>, <<"ok", FALSE>>)
      BY <2>2, <2>3, QuietBecomes
    <2> QED
      BY <1>2, <1>3, <2>4 DEF Viewed
  <1> QED
    BY <1>2, <1>6, <1>7

LEMMA AuxresumeSeen ==
    ASSUME NEW S, NEW host \in Nat, Ready(S, host), Idle(S), NEW co \in Threads,
           NEW wrap \in BOOLEAN
    PROVE  Viewed(S, auxresume(S, co, wrap))
  <1>1. CASE costatus(S, co) # "suspended"
    BY <1>1, QuietFails DEF auxresume, Viewed
  <1>2. CASE costatus(S, co) = "suspended" /\ L(S).nCcalls >= MAXCCALLS
    BY <1>2, RefusedSeen DEF auxresume
  <1>3. CASE costatus(S, co) = "suspended" /\ ~ (L(S).nCcalls >= MAXCCALLS)
    <2> DEFINE W == Resuming(S, co, Begun(S.th[co], L(S).nCcalls, Len(S.C)),
                             Resumption(S.C, S.th, co, 0, wrap))
    <2>1. WeakState(S, host) /\ S.raise = "no" /\ S \in State
      BY DEF Ready, WeakState
    <2>2. /\ Suspended(S, co, S.th[co])
          /\ co \in Coroutines /\ co \notin On(S.C)
          /\ \/ Marks(S)[co] = <<"YIELD", FALSE>> /\ S.th[co].status = "YIELD"
             \/ Marks(S)[co] = <<"ok", TRUE>> /\ S.th[co].status = "ok" /\ Len(S.th[co].ci) = 1
      BY <1>3, SuspendedMark
    <2>3. lua_resume(lua_setlevel(S, co), co, wrap) = resume(W, co)
      BY <2>1, <2>2, ResumingIs
    <2>4. auxresume(S, co, wrap) = resume(W, co)
      BY <1>3, <2>3 DEF auxresume
    <2>5. /\ W \in State /\ Above(S, W, co) /\ Cur(W) = co /\ W.th[co].ci = S.th[co].ci
          /\ W.th[co].status = S.th[co].status
      BY <2>2, ResumingAbove
    <2> HIDE DEF W
    <2>6. CASE Marks(S)[co] = <<"YIELD", FALSE>> /\ S.th[co].status = "YIELD"
      <3>1. Len(S.th[co].ci) \in Nat /\ Len(S.th[co].ci) > 2
        BY <2>2, <2>6 DEF Suspended
      <3>2. Enters(S, Continued(W, co), co, <<"YIELD", FALSE>>)
        BY <2>1, <2>2, <2>5, <2>6, <3>1, ContinuedSeen
      <3>3. resume(W, co) = Continued(W, co)
        BY <2>5, <2>6 DEF resume
      <3> QED
        BY <2>2, <2>4, <3>2, <3>3 DEF Viewed
    <2>7. CASE Marks(S)[co] = <<"ok", TRUE>> /\ S.th[co].status = "ok"
      <3>1. Enters(S, Started(W, co), co, <<"ok", TRUE>>)
        BY <2>1, <2>2, <2>5, <2>7, StartedSeen
      <3>2. resume(W, co) = Started(W, co)
        BY <2>5, <2>7 DEF resume
      <3> QED
        BY <2>2, <2>4, <3>1, <3>2 DEF Viewed
    <2> QED
      BY <2>2, <2>6, <2>7
  <1> QED
    BY <1>1, <1>2, <1>3

LEMMA ResumeSeen ==
    ASSUME NEW host \in Nat, Working(host), Idle(s), NEW co \in Coroutines, NEW wrap \in BOOLEAN,
           Resume(co, wrap)
    PROVE  Viewed(s, s')
  <1> DEFINE R == auxresume(called, co, wrap)
  <1>1. ASSUME ~ Full(s)
        PROVE  Viewed(called, R)
    <2>1. Ready(called, host) /\ co \in Threads
      BY <1>1, calledReady DEF Threads
    <2>2. Idle(called)
      BY WorkingQuiet, QuietIdle
    <2> QED
      BY <2>1, <2>2, AuxresumeSeen
  <1> HIDE DEF R
  <1>2. Library(R)
    BY DEF Resume, R
  <1> QED
    BY <1>1, <1>2, LibrarySeen

LEMMA lua_yieldSeen ==
    ASSUME NEW S, NEW host \in Nat, Ready(S, host), Idle(S)
    PROVE  Viewed(S, lua_yield(S, Cur(S)))
  <1> DEFINE m == Len(S.C)
             T == L(S)
  <1>1. WeakState(S, host) /\ S \in State /\ S.C # << >> /\ S.C[m].n >= 1
    BY DEF Ready, WeakState
  <1>2. L(S) = S.th[Cur(S)] /\ T.nCcalls \in Nat
    BY <1>1, RunningThread DEF L
  <1>3. CASE T.nCcalls > T.baseCcalls
    <2>1. lua_yield(S, Cur(S)) = Raise(S, "message")
      BY <1>2, <1>3 DEF lua_yield
    <2> QED
      BY <1>1, <2>1, QuietRaise DEF Viewed
  <1>4. CASE ~ (T.nCcalls > T.baseCcalls)
    <2>1. S.C[m].kind = "resume"
      BY <1>1, <1>4, YieldsResume
    <2>2. lua_yield(S, Cur(S)) = lua_resumeReturns(S, Cur(S), "YIELD")
      BY <1>2, <1>4 DEF lua_yield
    <2>3. T.nCcalls >= 1
      BY <1>1, <2>1, CallKept
    <2>4. Chained(S.C) /\ \A y \in Threads : Len(S.th[y].ci) >= 1
      BY <1>1, StateChained, AllBased
    <2>5. "YIELD" \in Statuses /\ "YIELD" # "ok"
      BY DEF Statuses
    <2>6. /\ Departs(S, lua_resumeReturns(S, Cur(S), "YIELD"), "YIELD")
          /\ lua_resumeReturns(S, Cur(S), "YIELD").C = SubSeq(S.C, 1, m - 1)
      BY <1>1, <2>1, <2>3, <2>4, <2>5, ReturnsSeen
    <2> QED
      BY <2>1, <2>2, <2>6 DEF Viewed
  <1> QED
    BY <1>3, <1>4

LEMMA YieldSeen ==
    ASSUME NEW host \in Nat, Working(host), Idle(s), Yield
    PROVE  Viewed(s, s')
  <1> DEFINE R == lua_yield(called, Cur(s))
  <1>1. ASSUME ~ Full(s)
        PROVE  Viewed(called, R)
    <2>1. Ready(called, host) /\ Cur(called) = Cur(s)
      BY <1>1, calledReady
    <2>2. Idle(called)
      BY WorkingQuiet, QuietIdle
    <2>3. Viewed(called, lua_yield(called, Cur(called)))
      BY <2>1, <2>2, lua_yieldSeen
    <2> QED
      BY <2>1, <2>3
  <1> HIDE DEF R
  <1>2. Library(R)
    BY DEF Yield, R
  <1> QED
    BY <1>1, <1>2, LibrarySeen

LEMMA CreateSeen ==
    ASSUME NEW host \in Nat, Working(host), Idle(s), NEW co \in Coroutines, Create(co)
    PROVE  Viewed(s, s')
  <1> DEFINE Q == At(called, co, Born)
             R == poscall(Q)
  <1>1. co \in Threads /\ s.th[co].status = "none" /\ called \in State /\ called.C = s.C
        /\ Quiet(s, called) /\ s \in State /\ s.C # << >>
    BY WorkingQuiet DEF Threads, Create
  <1>2. Marks(s)[co] = <<"none", FALSE>>
    <2>1. s.th[co] \in Thread
      BY <1>1, StateTypes
    <2>2. s.th[co].body = FALSE
      BY <1>1, <2>1 DEF Idle, Thread
    <2> QED
      BY <1>1, <2>2 DEF Marks, Mark
  <1>3. co \notin On(s.C)
    <2>1. ASSUME co \in On(s.C)
          PROVE  FALSE
      <3>1. Marks(s)[co] = <<"ok", FALSE>>
        BY <2>1 DEF Idle
      <3>2. s.th[co].status = "ok"
        <4> DEFINE ok == "ok"
                   no == FALSE
        <4>1. Marks(s)[co] = <<ok, no>>
          BY <3>1
        <4> HIDE DEF ok, no
        <4>2. <<s.th[co].status, s.th[co].body>> = <<ok, no>>
          BY <1>1, <4>1 DEF Marks, Mark
        <4>3. s.th[co].status = ok
          BY <4>2
        <4> QED
          BY <4>3 DEF ok
      <3> QED
        BY <1>1, <3>2
    <2> QED
      BY <2>1
  <1>4. Marks(called)[co] = <<"none", FALSE>> /\ co \notin On(called.C)
    BY <1>1, <1>2, <1>3 DEF Quiet
  <1>5. Becomes(called, Q, co, <<"none", FALSE>>, <<"ok", TRUE>>)
    <2>1. Mark(Born) = <<"ok", TRUE>> /\ Len(Born.ci) = 1
      BY BornIs, BornBody DEF Mark
    <2>2. Becomes(called, Q, co, <<"none", FALSE>>, Mark(Born))
      BY <1>1, <1>4, <2>1, AsideSeen
    <2> QED
      BY <2>1, <2>2
  <1>6. ASSUME ~ Full(s)
        PROVE  Viewed(called, R)
    <2>1. WeakState(called, host)
      BY <1>6, calledReady DEF Ready
    <2>2. Q \in State /\ Q.C = called.C /\ Q.th = [called.th EXCEPT ![co] = Born]
          /\ called.th \in [Threads -> Thread]
      BY <1>1, BornIs, StateTypes DEF At, State
    <2>3. Len(L(Q).ci) >= 1
      <3>1. \A y \in Threads : Len(called.th[y].ci) >= 1
        BY <2>1, AllBased
      <3>2. \A y \in Threads : Len(Q.th[y].ci) >= 1
        <4>1. \A y \in Threads : Q.th[y] = IF y = co THEN Born ELSE called.th[y]
          BY <2>2
        <4>2. Len(Born.ci) >= 1
          BY BornIs
        <4> HIDE DEF Q
        <4> QED
          BY <3>1, <4>1, <4>2
      <3>3. Q.C # << >>
        BY <1>1, <2>2
      <3> HIDE DEF Q
      <3> QED
        BY <2>2, <3>2, <3>3, StateTypes
    <2> HIDE DEF Q
    <2>4. Quiet(Q, poscall(Q))
      BY <1>1, <2>2, <2>3, QuietPoscall
    <2> QED
      BY <1>5, <2>4, QuietBecomes DEF Viewed
  <1>7. Library(R)
    BY DEF Create, At, Born
  <1> HIDE DEF R
  <1> QED
    BY <1>6, <1>7, LibrarySeen

LEMMA checkstacksizesSeen ==
    ASSUME NEW host \in Nat, Working(host), NEW x \in Threads, checkstacksizes(x)
    PROVE  Viewed(s, s')
  <1> DEFINE t == [s.th[x] EXCEPT !.size = @ \div 2]
             u == [s.th EXCEPT ![x] = t]
  <1>1. s \in State /\ s.C # << >> /\ s.th \in [Threads -> Thread] /\ s.th[x] \in Thread
    BY WorkingQuiet, StateTypes
  <1>2. Mark(t) = Mark(s.th[x]) /\ t.ci = s.th[x].ci
    BY <1>1 DEF Mark, Thread
  <1>3. s' = [s EXCEPT !.th = u]
    BY DEF checkstacksizes
  <1> HIDE DEF t
  <1>4. s'.C = s.C /\ s'.th = u
    BY <1>1, <1>3 DEF State
  <1>5. \A y \in Threads : Mark(s'.th[y]) = Mark(s.th[y]) /\ s'.th[y].ci = s.th[y].ci
    BY <1>1, <1>2, <1>4
  <1>6. Marks(s') = Marks(s) /\ Rests(s') = Rests(s)
    BY <1>4, <1>5 DEF Marks, Rests
  <1> QED
    BY <1>1, <1>4, <1>6 DEF Viewed, Quiet, SameStack

LEMMA ReturnedSeen ==
    ASSUME NEW host \in Nat, Working(host)
    PROVE  /\ Quiet(s, Returned)
           /\ Returned \in State /\ Returned.C # << >> /\ Returned.raise = "no"
           /\ Cur(Returned) = Cur(s) /\ L(Returned) = Shorter(s)
           /\ Returned.C[Len(Returned.C)].previous = s.C[Len(s.C)].previous
           /\ Shorter(s) \in Thread /\ Same(Shorter(s), L(s))
           /\ Mark(Shorter(s)) = Mark(L(s)) /\ Len(Shorter(s).ci) = Len(L(s).ci) - 1
  <1> DEFINE C == s.C
             m == Len(C)
             x == C[m].th
             t == Shorter(s)
             D == Fewer(s)
  <1>1. WeakState(s, host) /\ s.raise = "no" /\ C[m].n >= 1 /\ Len(L(s).ci) = C[m].ci + C[m].n
    BY DEF Working
  <1>2. /\ t \in Thread /\ t.ci = SubSeq(L(s).ci, 1, Len(L(s).ci) - 1) /\ Same(t, L(s))
        /\ D \in Seq(Activations) /\ Len(D) = m /\ (\A i \in 1 .. m : Alike(D[i], C[i]))
        /\ Changes(Returned, s, D, t, "no")
    BY <1>1, ReturnedIs
  <1>3. /\ C \in Seq(Activations) /\ m \in Nat /\ m \in 1 .. m /\ x = Cur(s) /\ L(s) \in Thread
        /\ L(s).ci \in Seq(Frames) /\ Len(L(s).ci) \in Nat
        /\ C[m].ci \in Nat /\ C[m].ci >= 1 /\ C[m].n \in Nat /\ s \in State /\ C # << >>
        /\ s.th \in [Threads -> Thread] /\ x \in Threads
    BY <1>1, RunningThread DEF WeakState
  <1>4. Mark(t) = Mark(L(s))
    BY <1>3 DEF Shorter, Mark, Thread
  <1>5. Len(t.ci) = Len(L(s).ci) - 1
    <2> DEFINE ci == L(s).ci
    <2>1. ci \in Seq(Frames) /\ Len(ci) \in Nat /\ Len(ci) >= 1
      BY <1>1, <1>3
    <2>2. t.ci = SubSeq(ci, 1, Len(ci) - 1)
      BY <1>2
    <2> HIDE DEF ci, t
    <2>3. Len(SubSeq(ci, 1, Len(ci) - 1)) = Len(ci) - 1
      <3> DEFINE k == Len(ci) - 1
      <3>1. k \in Nat /\ k <= Len(ci)
        BY <2>1
      <3> HIDE DEF k
      <3>2. Len(SubSeq(ci, 1, k)) = k
        BY <2>1, <3>1
      <3> QED
        BY <3>2 DEF k
    <2> QED
      BY <2>2, <2>3 DEF ci
  <1> HIDE DEF t, D, C, m
  <1>6. SameStack(C, D)
    <2>1. \A i \in 1 .. Len(C) : D[i].th = C[i].th /\ D[i].kind = C[i].kind
      BY <1>2 DEF Alike, m
    <2> QED
      BY <1>2, <1>3, <2>1, AlikeStack DEF m
  <1>7. Quiet(s, Returned)
    BY <1>2, <1>3, <1>4, <1>6, QuietThread DEF C
  <1>8. /\ Returned \in State /\ Returned.C = D /\ Returned.th = [s.th EXCEPT ![x] = t]
        /\ Returned.raise = "no"
    BY <1>2 DEF Changes, Is, x, C, m
  <1>9. /\ D # << >> /\ D[Len(D)].th = x /\ D[Len(D)].previous = C[m].previous
    BY <1>2, <1>3 DEF Alike
  <1>10. Cur(Returned) = x /\ L(Returned) = t
    BY <1>3, <1>8, <1>9, StateTypes
  <1> QED
    BY <1>2, <1>3, <1>4, <1>5, <1>7, <1>8, <1>9, <1>10 DEF t, C, m

LEMMA LeaveCSeen ==
    ASSUME NEW host \in Nat, Inv(s, host), Working(host), s.C[Len(s.C)].n = 1,
           s.C[Len(s.C)].kind \in {"execute", "handler"}
    PROVE  Quiet(s, LeaveC(Returned))
  <1> DEFINE R == LeaveC(Returned)
             t == Called(Shorter(s))
             m == Len(s.C)
  <1>1. /\ WeakState(s, host) /\ s.raise = "no" /\ s \in State /\ s.C # << >> /\ Chained(s.C)
        /\ m \in 1 .. m /\ L(s).nCcalls >= 1 /\ m > 1 /\ s.C[m].kind # "resume"
    <2>1. WeakState(s, host) /\ s.raise = "no"
      BY DEF Working
    <2>2. L(s).nCcalls >= 1 /\ m > 1
      BY <2>1, CallKept
    <2> QED
      BY <2>1, <2>2, StateChained
  <1>2. /\ Returned \in State /\ Returned.C # << >> /\ Returned.raise = "no"
        /\ L(Returned) = Shorter(s) /\ Shorter(s) \in Thread /\ Same(Shorter(s), L(s))
        /\ Mark(Shorter(s)) = Mark(L(s))
    BY ReturnedSeen
  <1>3. L(Returned).nCcalls >= 1
    BY <1>1, <1>2 DEF Same
  <1>4. Ended(R, Returned, t, "no")
    BY <1>2, <1>3, LeaveCIs
  <1>5. Mark(t) = Mark(L(s))
    <2>1. Mark(t) = Mark(Shorter(s))
      BY <1>2 DEF Mark, Called, Thread
    <2> QED
      BY <1>2, <2>1
  <1> HIDE DEF R, t
  <1>6. Ended(R, s, t, "no")
    BY <1>1, <1>4, ReturnedEnds
  <1>7. s.C[m].th = Cur(s)
    BY <1>1, StateTypes
  <1>8. Is(R, SubSeq(s.C, 1, m - 1), [s.th EXCEPT ![Cur(s)] = t], "no")
    BY <1>6, <1>7 DEF Ended
  <1>9. Quiet(s, R)
    BY <1>1, <1>5, <1>7, <1>8, CutState
  <1> QED
    BY <1>9 DEF R

LEMMA CallEndsSeen ==
    ASSUME NEW S, NEW host \in Nat, WeakState(S, host)
    PROVE  Quiet(S, CallEnds(S, Cur(S))) \/ Finishes(S, CallEnds(S, Cur(S)))
  <1>1. /\ S \in State /\ S.C # << >> /\ Cur(S) \in Threads /\ Last(S.C) = S.C[Len(S.C)]
        /\ L(S) = S.th[Cur(S)]
    BY StateTypes DEF WeakState
  <1>2. CASE Last(S.C).kind = "pcall"
    <2>1. CallEnds(S, Cur(S)) = PcallEnds(S, Cur(S))
      BY <1>2 DEF CallEnds
    <2> QED
      BY <1>1, <1>2, <2>1, PcallEndsSeen
  <1>3. CASE Last(S.C).kind # "pcall" /\ Last(L(S).ci) = "C"
    <2>1. CallEnds(S, Cur(S)) = poscall(S)
      BY <1>3 DEF CallEnds
    <2>2. Len(L(S).ci) >= 1
      BY <1>1, AllBased
    <2> QED
      BY <1>1, <2>1, <2>2, QuietPoscall
  <1>4. CASE Last(S.C).kind # "pcall" /\ Last(L(S).ci) # "C"
    <2>1. CallEnds(S, Cur(S)) = S
      BY <1>4 DEF CallEnds
    <2>2. SameStack(S.C, S.C)
      BY <1>1 DEF SameStack
    <2> QED
      BY <2>1, <2>2, QuietStack
  <1> QED
    BY <1>2, <1>3, <1>4

LEMMA ReturnFromBodySeen ==
    ASSUME NEW host \in Nat, Inv(s, host), Working(host), s.C[Len(s.C)].n = 1,
           s.C[Len(s.C)].kind = "resume", Idle(s)
    PROVE  Departs(s, lua_resumeReturns(Returned, Cur(s), "ok"), "ok")
  <1> DEFINE m == Len(s.C)
             p == s.C[m].previous
             T == Shorter(s)
             t == ResumeEnded(T, p, "ok")
  <1>1. /\ WeakState(s, host) /\ s.raise = "no" /\ s \in State /\ s.C # << >> /\ Chained(s.C)
        /\ m \in 1 .. m /\ L(s).nCcalls >= 1 /\ Len(L(s).ci) = s.C[m].ci + 1
    <2>1. WeakState(s, host) /\ s.raise = "no" /\ Len(L(s).ci) = s.C[m].ci + s.C[m].n
      BY DEF Working
    <2>2. L(s).nCcalls >= 1
      BY <2>1, CallKept
    <2> QED
      BY <2>1, <2>2, StateChained
  <1>2. /\ Returned \in State /\ Returned.C # << >> /\ Returned.raise = "no"
        /\ L(Returned) = T /\ T \in Thread /\ Same(T, L(s)) /\ Cur(Returned) = Cur(s)
        /\ Mark(T) = Mark(L(s)) /\ Len(T.ci) = Len(L(s).ci) - 1
        /\ Returned.C[Len(Returned.C)].previous = p
    BY ReturnedSeen
  <1>3. L(Returned).nCcalls >= 1 /\ "ok" \in Statuses
    BY <1>1, <1>2 DEF Same, Statuses
  <1>4. PICK R : /\ lua_resumeReturns(Returned, Cur(s), "ok") = poscall(R)
                 /\ Ended(R, Returned, t, "no")
    BY <1>2, <1>3, lua_resumeReturnsIs
  <1>5. s.C[m].ci = 1
    <2>1. Divided(s.C) /\ Saved(s.C, host)
      BY <1>1 DEF WeakState, Weak
    <2> QED
      BY <1>1, <2>1 DEF Divided
  <1>6. L(s).body = FALSE
    <2>1. Cur(s) \in On(s.C) /\ Cur(s) \in Threads
      BY <1>1, StateChained
    <2>2. Marks(s)[Cur(s)] = <<"ok", FALSE>>
      BY <2>1 DEF Idle
    <2>3. Marks(s)[Cur(s)] = <<L(s).status, L(s).body>>
      BY <2>1 DEF Marks, Mark, L
    <2> DEFINE ok == "ok"
               no == FALSE
    <2>4. <<L(s).status, L(s).body>> = <<ok, no>>
      BY <2>2, <2>3
    <2> HIDE DEF ok, no
    <2>5. L(s).body = no
      BY <2>4
    <2> QED
      BY <2>5 DEF no
  <1>7. Mark(t) = <<"ok", FALSE>> /\ t.ci = T.ci
    <2>1. T.body = FALSE
      BY <1>2, <1>6 DEF Mark
    <2> HIDE DEF T, p
    <2> QED
      BY <1>2, <2>1 DEF Mark, ResumeEnded, Thread
  <1>8. Len(t.ci) = 1
    <2> HIDE DEF t, T
    <2> QED
      BY <1>1, <1>2, <1>5, <1>7
  <1> HIDE DEF t, T, p
  <1>9. Ended(R, s, t, "no")
    BY <1>1, <1>4, ReturnedEnds
  <1>10. \A y \in Threads : Len(s.th[y].ci) >= 1
    BY <1>1, AllBased
  <1>11. Departs(s, poscall(R), "ok")
    BY <1>1, <1>7, <1>8, <1>9, <1>10, EndsSeen
  <1> QED
    BY <1>4, <1>11

LEMMA ReturnsStepSeen ==
    ASSUME NEW host \in Nat, Inv(s, host), Idle(s),
           Return \/ ReturnFromCall \/ ReturnFromHandler \/ ReturnFromBody
    PROVE  Viewed(s, s')
  <1>1. Working(host) /\ s.C # << >> /\ s.raise = "no"
    BY WorkingState DEF Return, ReturnFromCall, ReturnFromHandler, ReturnFromBody, InReturn, Running
  <1>2. Last(s.C) = s.C[Len(s.C)]
    BY <1>1 DEF Working
  <1>3. CASE Return
    BY <1>1, <1>3, ReturnedSeen DEF Return, Viewed
  <1>4. CASE ReturnFromCall
    <2> DEFINE R == LeaveC(Returned)
    <2>1. s' = CallEnds(R, Cur(s)) /\ s.C[Len(s.C)].n = 1 /\ s.C[Len(s.C)].kind = "execute"
      BY <1>2, <1>4 DEF ReturnFromCall, InReturn
    <2>2. Quiet(s, R)
      BY <1>1, <2>1, LeaveCSeen
    <2>3. WeakState(R, host) /\ Cur(R) = Cur(s)
      BY <1>1, <2>1, LeaveCWeak
    <2> HIDE DEF R
    <2>4. Quiet(R, s') \/ Finishes(R, s')
      <3>1. s' = CallEnds(R, Cur(R))
        BY <2>1, <2>3
      <3>2. Quiet(R, CallEnds(R, Cur(R))) \/ Finishes(R, CallEnds(R, Cur(R)))
        BY <2>3, CallEndsSeen
      <3> QED
        BY <3>1, <3>2
    <2> QED
      BY <2>2, <2>4, QuietTwice, QuietFinishes DEF Viewed
  <1>5. CASE ReturnFromHandler
    <2> DEFINE R == LeaveC(Returned)
    <2>1. s' = Raise(R, "ERRRUN") /\ s.C[Len(s.C)].n = 1 /\ s.C[Len(s.C)].kind = "handler"
      BY <1>2, <1>5 DEF ReturnFromHandler, InReturn
    <2>2. Quiet(s, R)
      BY <1>1, <2>1, LeaveCSeen
    <2>3. R \in State /\ R.C # << >>
      BY <1>1, <2>1, LeaveCWeak DEF WeakState
    <2> HIDE DEF R
    <2>4. Quiet(R, s')
      BY <2>1, <2>3, QuietRaise DEF Codes
    <2> QED
      BY <2>2, <2>4, QuietTwice DEF Viewed
  <1>6. CASE ReturnFromBody
    <2>1. s' = lua_resumeReturns(Returned, Cur(s), "ok") /\ s.C[Len(s.C)].n = 1
          /\ s.C[Len(s.C)].kind = "resume"
      BY <1>2, <1>6 DEF ReturnFromBody, InReturn
    <2>2. Departs(s, s', "ok")
      BY <1>1, <2>1, ReturnFromBodySeen
    <2> QED
      BY <2>2 DEF Viewed
  <1> QED
    BY <1>3, <1>4, <1>5, <1>6

LEMMA MessageSeen ==
    ASSUME NEW host \in Nat, Inv(s, host), luaG_errormsg
    PROVE  Viewed(s, s')
  <1> DEFINE S == Raise(s, "no")
  <1>1. s \in State /\ s.C # << >>
    BY DEF Inv, luaG_errormsg
  <1>2. S \in State /\ S.C = s.C
    BY <1>1, RaiseIs DEF Is
  <1>3. Cur(S) = Cur(s)
    BY <1>2 DEF Cur
  <1>4. Quiet(s, S)
    BY <1>1, QuietRaise
  <1>5. CASE L(s).errfunc
    <2>1. s' = luaD_call(S, Cur(S), "handler")
      BY <1>3, <1>5 DEF luaG_errormsg
    <2> HIDE DEF S
    <2>2. Quiet(S, luaD_call(S, Cur(S), "handler"))
      BY <1>1, <1>2, QuietCall
    <2> QED
      BY <1>4, <2>1, <2>2, QuietTwice DEF Viewed
  <1>6. CASE ~ L(s).errfunc
    <2>1. s' = Raise(s, "ERRRUN")
      BY <1>6 DEF luaG_errormsg
    <2> QED
      BY <1>1, <2>1, QuietRaise DEF Codes, Viewed
  <1> QED
    BY <1>5, <1>6

\* lua_resume is one of the C calls that its coroutine counts.
LEMMA DyingCounts ==
    ASSUME NEW host \in Nat, NEW S, WeakState(S, host), NEW j \in 1 .. Len(S.C),
           S.C[j].kind = "resume"
    PROVE  L(S).nCcalls >= 1
  <1> DEFINE C == S.C
             T == L(S)
  <1>1. C \in Seq(Activations) /\ T.nCcalls \in Nat /\ T.nCcalls = host + Count(C, Len(C))
    BY RunningThread
  <1>2. j - 1 \in 0 .. Len(C) /\ j - 1 < Len(C) /\ (j - 1) + 1 = j /\ j \in 0 .. Len(C)
        /\ Len(C) \in j .. Len(C)
    BY <1>1
  <1>3. C[j].kind # "pcall"
    OBVIOUS
  <1> HIDE DEF C, T
  <1>4. Count(C, j) = Count(C, j - 1) + 1 /\ Count(C, j - 1) \in Nat
    BY <1>1, <1>2, <1>3, CountProperties
  <1>5. Count(C, j) <= Count(C, Len(C)) /\ Count(C, Len(C)) \in Nat
    BY <1>1, <1>2, CountGrows
  <1>6. T.nCcalls >= 1
    BY <1>1, <1>4, <1>5
  <1> QED
    BY <1>6 DEF T

\* The mark of the running thread.
LEMMA RunningMark ==
    ASSUME NEW S, Based(S), Idle(S)
    PROVE  L(S).body = FALSE
  <1> DEFINE ok == "ok"
             no == FALSE
             x == Cur(S)
  <1>1. x \in On(S.C) /\ x \in Threads
    BY BasedChained
  <1>2. Marks(S)[x] = <<ok, no>>
    BY <1>1 DEF Idle
  <1> HIDE DEF ok, no, x
  <1>3. S.th[x].body = no
    BY <1>1, <1>2, MarkIs
  <1> QED
    BY <1>3 DEF L, no, x

LEMMA CaughtSeen ==
    ASSUME NEW S, Based(S), NEW j \in 1 .. Len(S.C),
           S.C[j].th = Cur(S), S.C[j].kind = "pcall", S.C[j].ci >= 1, S.C[j].ci <= Len(L(S).ci),
           Len(L(S).ci) <= L(S).size, L(S).size <= 2 * MAXCALLS
    PROVE  Quiet(S, Caught(S, Cur(S), j)) \/ Finishes(S, Caught(S, Cur(S), j))
  <1> DEFINE x == Cur(S)
             T == L(S)
             a == S.C[j]
             t == CaughtThread(T, a)
  <1>1. /\ S \in State /\ S.C # << >> /\ Chained(S.C) /\ x \in Threads
        /\ S.C \in Seq(Activations) /\ T = S.th[x] /\ T \in Thread /\ a \in Activations
    BY BasedChained, StateTypes
  <1>2. t \in Thread /\ Restored(a, t, T)
    <2> HIDE DEF a, T
    <2> QED
      BY <1>1, CaughtThreadIs DEF a, T
  <1>3. Mark(t) = Mark(T)
    <2> HIDE DEF a, T
    <2> QED
      BY <1>1 DEF Mark, CaughtThread, Thread
  <1>4. Len(t.ci) >= 1
    BY <1>2 DEF Restored
  <1>5. SubSeq(S.C, 1, j - 1) \in Seq(Activations)
    BY <1>1, CutStack, BasedChained
  <1> HIDE DEF t
  <1>6. CaughtThread(S.th[x], S.C[j]) = t
    BY <1>1 DEF t
  <1>7. PICK R : /\ Caught(S, x, j) = PcallReturns(R)
                 /\ Is(R, SubSeq(S.C, 1, j - 1), [S.th EXCEPT ![x] = t], S.raise)
    BY <1>1, <1>2, <1>5, <1>6, CaughtIs
  <1>8. Quiet(S, PcallReturns(R)) \/ Finishes(S, PcallReturns(R))
    BY <1>1, <1>3, <1>4, <1>7, PcallReturnsSeen
  <1> QED
    BY <1>7, <1>8

LEMMA DiesSeen ==
    ASSUME NEW S, Based(S), Idle(S), NEW j \in 1 .. Len(S.C),
           S.C[j].th = Cur(S), S.C[j].kind = "resume", L(S).nCcalls >= 1,
           NEW code \in Codes, NEW wrap
    PROVE  Departs(S, ResumeFails(Dies(S, Cur(S), j, code), wrap), code)
  <1> DEFINE x == Cur(S)
             T == L(S)
             p == S.C[j].previous
             t == ResumeEnded(T, p, code)
             R == Dies(S, x, j, code)
  <1>1. /\ S \in State /\ S.C # << >> /\ Chained(S.C) /\ x \in Threads /\ x = Top(S.C)
        /\ S.C \in Seq(Activations) /\ T = S.th[x] /\ T \in Thread /\ S.C[j] \in Activations
        /\ S.th \in [Threads -> Thread]
    BY BasedChained, StateTypes
  <1>2. code \in Statuses /\ code # "ok" /\ p \in Nat
    BY <1>1 DEF Codes, Statuses, Activations
  <1>3. t \in Thread
    <2> HIDE DEF T, p
    <2> QED
      BY <1>1, <1>2, ResumeEndedThread DEF T
  <1>4. Mark(t) = <<code, FALSE>>
    <2>1. T.body = FALSE
      BY RunningMark
    <2> HIDE DEF T, p
    <2> QED
      BY <1>1, <2>1 DEF Mark, ResumeEnded, Thread
  <1>5. SubSeq(S.C, 1, j - 1) \in Seq(Activations)
    BY <1>1, CutStack
  <1> HIDE DEF t
  <1>6. ResumeEnded(S.th[x], S.C[j].previous, code) = t
    BY <1>1 DEF t
  <1>7. Is(R, SubSeq(S.C, 1, j - 1), [S.th EXCEPT ![x] = t], S.raise)
    BY <1>1, <1>3, <1>5, <1>6, DiesIs
  <1>8. j > 1
    <2>1. S.C[1].kind = "pcall"
      BY <1>1 DEF Chained
    <2> QED
      BY <1>1, <2>1
  <1> HIDE DEF R, T, p
  <1>9. Departs(S, R, code)
    BY <1>1, <1>2, <1>4, <1>7, <1>8, CutState
  <1>10. R.C # << >> /\ Top(R.C) # x /\ R \in State
    BY <1>1, <1>7, <1>9 DEF Departs, Is
  <1>11. Cur(R) = Top(R.C) /\ Cur(R) \in Threads /\ L(R) = R.th[Cur(R)]
    BY <1>10, StateTypes DEF Top
  <1>12. Len(L(R).ci) >= 1
    <2>1. L(R) = S.th[Cur(R)]
      BY <1>1, <1>7, <1>10, <1>11 DEF Is
    <2> QED
      BY <1>11, <2>1 DEF Based
  <1>13. Quiet(R, ResumeFails(R, wrap))
    BY <1>10, <1>12, QuietRaise, QuietPoscall DEF ResumeFails
  <1>14. Departs(S, ResumeFails(R, wrap), code)
    BY <1>9, <1>13, QuietDeparts
  <1> QED
    BY <1>14 DEF R

LEMMA ThrowSeen ==
    ASSUME NEW host \in Nat, Inv(s, host), Idle(s), luaD_throw
    PROVE  Viewed(s, s')
  <1> DEFINE S == Raise(s, "no")
             C == s.C
             T == L(s)
             j == T.errorJmp
             x == Cur(s)
  <1>1. WeakState(s, host) /\ Protects(C) /\ s.raise \in Codes
    BY DEF Inv, WeakState, luaD_throw, Codes
  <1>2. /\ C \in Seq(Activations) /\ C # << >> /\ Weak(C, s.th, s.raise, host)
        /\ x \in Threads /\ x = C[Len(C)].th /\ T = s.th[x]
        /\ j \in 1 .. Len(C) /\ C[j].th = x /\ C[j].kind \in {"pcall", "resume"}
        /\ C[j].ci >= 1 /\ C[j].ci <= Len(T.ci)
        /\ Len(T.ci) <= T.size /\ T.size <= 2 * MAXCALLS
    BY <1>1, ThrowKnows
  <1>3. S \in State /\ S.C = C /\ S.th = s.th /\ S.raise = "no"
    BY <1>1, RaiseIs DEF Is, WeakState
  <1>4. Based(S)
    <2>1. Based(s)
      BY <1>1, StateBased
    <2> HIDE DEF S
    <2> QED
      BY <1>3, <2>1 DEF Based
  <1>5. Quiet(s, S)
    BY <1>1, QuietRaise DEF WeakState
  <1>6. Idle(S)
    BY <1>5, QuietIdle
  <1>7. Cur(S) = x /\ L(S) = T
    <2>1. Cur(S) = x
      BY <1>3 DEF Cur
    <2> QED
      BY <1>3, <2>1 DEF L
  <1>8. s' = IF C[j].kind = "pcall" THEN Caught(S, x, j)
             ELSE ResumeFails(Dies(S, x, j, s.raise), C[j].wrap)
    BY DEF luaD_throw
  <1> HIDE DEF S, T, j, x
  <1>9. CASE C[j].kind = "pcall"
    <2>1. Quiet(S, Caught(S, x, j)) \/ Finishes(S, Caught(S, x, j))
      <3>1. /\ j \in 1 .. Len(S.C) /\ S.C[j].th = Cur(S) /\ S.C[j].kind = "pcall"
            /\ S.C[j].ci >= 1 /\ S.C[j].ci <= Len(L(S).ci)
            /\ Len(L(S).ci) <= L(S).size /\ L(S).size <= 2 * MAXCALLS
        BY <1>2, <1>3, <1>7, <1>9
      <3> HIDE DEF C
      <3>2. Quiet(S, Caught(S, Cur(S), j)) \/ Finishes(S, Caught(S, Cur(S), j))
        BY <1>4, <3>1, CaughtSeen
      <3> QED
        BY <1>7, <3>2
    <2>2. s' = Caught(S, x, j)
      BY <1>8, <1>9
    <2> QED
      BY <1>5, <2>1, <2>2, QuietTwice, QuietFinishes DEF Viewed
  <1>10. CASE C[j].kind = "resume"
    <2>1. T.nCcalls >= 1
      BY <1>1, <1>2, <1>10, DyingCounts DEF T
    <2>2. Departs(S, ResumeFails(Dies(S, x, j, s.raise), C[j].wrap), s.raise)
      <3>1. /\ j \in 1 .. Len(S.C) /\ S.C[j].th = Cur(S) /\ S.C[j].kind = "resume"
            /\ L(S).nCcalls >= 1
        BY <1>2, <1>3, <1>7, <1>10, <2>1
      <3> HIDE DEF C
      <3>2. Departs(S, ResumeFails(Dies(S, Cur(S), j, s.raise), C[j].wrap), s.raise)
        BY <1>1, <1>4, <1>6, <3>1, DiesSeen
      <3> QED
        BY <1>7, <3>2
    <2>3. s' = ResumeFails(Dies(S, x, j, s.raise), C[j].wrap)
      BY <1>8, <1>10
    <2>4. Departs(s, s', s.raise)
      BY <1>5, <2>2, <2>3, QuietDeparts
    <2> QED
      BY <1>1, <2>4 DEF Viewed
  <1> QED
    BY <1>2, <1>9, <1>10

\* Whatever step is taken.
LEMMA NextSeen ==
    ASSUME IInv, Idle(s), Next
    PROVE  Viewed(s, s')
  <1> DEFINE host == prog.host
  <1>1. host \in Nat /\ Inv(s, host)
    BY HostNat DEF IInv
  <1> HIDE DEF host
  <1>2. ASSUME Running
        PROVE  Working(host)
    BY <1>1, <1>2, WorkingState
  <1>3. CASE \/ Call \/ CallMetamethod \/ CallBack \/ (\E handler \in BOOLEAN : Pcall(handler))
             \/ Error \/ MemoryError
    <2>1. Running
      BY <1>3 DEF Call, CallMetamethod, CallBack, Pcall, Error, MemoryError, Op
    <2> QED
      BY <1>1, <1>2, <1>3, <2>1, CallsSeen
  <1>4. ASSUME NEW co \in Coroutines, Create(co)
        PROVE  Viewed(s, s')
    <2>1. Running
      BY <1>4 DEF Create, Op
    <2> QED
      BY <1>1, <1>2, <1>4, <2>1, CreateSeen
  <1>5. ASSUME NEW co \in Coroutines, NEW wrap \in BOOLEAN, Resume(co, wrap)
        PROVE  Viewed(s, s')
    <2>1. Running
      BY <1>5 DEF Resume, Op
    <2> QED
      BY <1>1, <1>2, <1>5, <2>1, ResumeSeen
  <1>6. CASE Yield
    <2>1. Running
      BY <1>6 DEF Yield, Op
    <2> QED
      BY <1>1, <1>2, <1>6, <2>1, YieldSeen
  <1>7. CASE Return \/ ReturnFromCall \/ ReturnFromHandler \/ ReturnFromBody
    BY <1>1, <1>7, ReturnsStepSeen
  <1>8. CASE luaG_errormsg
    BY <1>1, <1>8, MessageSeen
  <1>9. CASE luaD_throw
    BY <1>1, <1>9, ThrowSeen
  <1>10. ASSUME NEW x \in Threads, checkstacksizes(x)
         PROVE  Viewed(s, s')
    <2>1. Running
      BY <1>10 DEF checkstacksizes
    <2> QED
      BY <1>1, <1>2, <1>10, <2>1, checkstacksizesSeen
  <1> QED
    BY <1>3, <1>4, <1>5, <1>6, <1>7, <1>8, <1>9, <1>10 DEF Next

-----------------------------------------------------------------------------
(* What threads wait in *)

\* What is seen of the threads that do not take part in a step.
LEMMA MarkOther ==
    ASSUME NEW S, NEW R, NEW x \in Threads, Marks(R)[x] = Marks(S)[x]
    PROVE  R.th[x].status = S.th[x].status /\ R.th[x].body = S.th[x].body
  <1>1. /\ Marks(S)[x] = <<S.th[x].status, S.th[x].body>>
        /\ Marks(R)[x] = <<R.th[x].status, R.th[x].body>>
    BY DEF Marks, Mark
  <1> QED
    BY <1>1

LEMMA MarksDomain ==
    ASSUME NEW S
    PROVE  DOMAIN Marks(S) = Threads
  BY DEF Marks

LEMMA MarkOf ==
    ASSUME NEW S, NEW x \in Threads, NEW m, NEW b, NEW p, p = <<m, b>>, Marks(S)[x] = p
    PROVE  S.th[x].status = m /\ S.th[x].body = b
  <1>1. Marks(S)[x] = <<S.th[x].status, S.th[x].body>>
    BY DEF Marks, Mark
  <1>2. <<S.th[x].status, S.th[x].body>> = <<m, b>>
    BY <1>1
  <1> QED
    BY <1>2

LEMMA MarkNot ==
    ASSUME NEW S, NEW R, Marks(R) = Marks(S)
    PROVE  \A x \in Threads : /\ Marks(R)[x] = Marks(S)[x]
                              /\ R.th[x].status = S.th[x].status
                              /\ R.th[x].body = S.th[x].body
  <1>1. \A x \in Threads : Marks(S)[x] = <<S.th[x].status, S.th[x].body>>
                           /\ Marks(R)[x] = <<R.th[x].status, R.th[x].body>>
    BY DEF Marks, Mark
  <1> QED
    BY <1>1

\* A step that is seen leaves every thread in what it may wait in.
LEMMA ViewedIdle ==
    ASSUME NEW S, NEW R, Viewed(S, R), Idle(S), S \in State, Chained(S.C)
    PROVE  Idle(R)
  <1> DEFINE run == <<"ok", FALSE>>
  <1>1. Main \in Threads /\ Coroutines \subseteq Threads /\ Main \notin Coroutines
        /\ S.C \in Seq(Activations)
    BY LuaCallAssumption, StateTypes DEF Threads
  <1>2. /\ Marks(S)[Main] = run
        /\ \A x \in On(S.C) : Marks(S)[x] = run
        /\ \A x \in Threads : S.th[x].body => S.th[x].status = "ok"
        /\ \A x \in Coroutines \ On(S.C) : S.th[x].status = "ok" => Len(Rests(S)[x]) = 1
    BY DEF Idle
  <1> HIDE DEF run
  <1>3. CASE Quiet(S, R)
    BY <1>3, QuietIdle
  <1>4. CASE Finishes(S, R)
    <2>1. /\ On(R.C) = {} /\ On(S.C) = {Main} /\ Marks(R) = Marks(S)
          /\ \A y \in Threads \ {Main} : Rests(R)[y] = Rests(S)[y]
      BY <1>4 DEF Finishes
    <2>2. \A x \in Threads : Marks(R)[x] = Marks(S)[x] /\ R.th[x].status = S.th[x].status
                             /\ R.th[x].body = S.th[x].body
      BY <2>1, MarkNot
    <2>3. \A x \in Coroutines : x \in Threads \ {Main} /\ x \in Coroutines \ On(S.C)
      BY <1>1, <2>1
    <2>4. \A x \in Coroutines \ On(R.C) : R.th[x].status = "ok" => Len(Rests(R)[x]) = 1
      BY <1>1, <1>2, <2>1, <2>2, <2>3
    <2> QED
      BY <1>1, <1>2, <2>1, <2>2, <2>4 DEF Idle, run
  <1>5. ASSUME NEW co \in Coroutines, NEW m, NEW b \in BOOLEAN, NEW new, new = <<"ok", b>>,
               Becomes(S, R, co, m, new)
        PROVE  Idle(R)
    <2>1. /\ On(R.C) = On(S.C) /\ co \notin On(S.C) /\ Marks(R) = [Marks(S) EXCEPT ![co] = new]
          /\ \A y \in Threads \ (On(S.C) \cup {co}) : Rests(R)[y] = Rests(S)[y]
          /\ Len(Rests(R)[co]) = 1
      BY <1>5 DEF Becomes, SameStack
    <2>2. /\ Marks(R)[co] = new
          /\ \A x \in Threads : x # co => /\ Marks(R)[x] = Marks(S)[x]
                                          /\ R.th[x].status = S.th[x].status
                                          /\ R.th[x].body = S.th[x].body
      <3>1. co \in Threads /\ Marks(R) = [Marks(S) EXCEPT ![co] = new]
        BY <1>1, <2>1
      <3>2. Marks(R)[co] = new /\ \A x \in Threads : x # co => Marks(R)[x] = Marks(S)[x]
        BY <3>1, MarksDomain
      <3> QED
        BY <3>2, MarkOther
    <2>3. R.th[co].status = "ok"
      <3>1. co \in Threads /\ Marks(R)[co] = new /\ new = <<"ok", b>>
        BY <1>1, <1>5, <2>2
      <3> QED
        BY <3>1, MarkOf
    <2>4. On(S.C) \subseteq Threads
      BY <1>1, ActivationTypes DEF On
    <2>5. \A x \in On(R.C) : Marks(R)[x] = run
      BY <1>2, <2>1, <2>2, <2>4
    <2>6. \A x \in Threads : R.th[x].body => R.th[x].status = "ok"
      BY <1>2, <2>2, <2>3
    <2>7. \A x \in Coroutines \ On(R.C) : R.th[x].status = "ok" => Len(Rests(R)[x]) = 1
      BY <1>1, <1>2, <2>1, <2>2
    <2>8. Marks(R)[Main] = run
      BY <1>1, <1>2, <2>2
    <2> QED
      BY <2>5, <2>6, <2>7, <2>8 DEF Idle, run
  <1>6. ASSUME NEW co \in Coroutines, NEW m, Enters(S, R, co, m)
        PROVE  Idle(R)
    <2>1. /\ On(R.C) = On(S.C) \cup {co} /\ Marks(R) = [Marks(S) EXCEPT ![co] = run]
          /\ \A y \in Threads \ On(R.C) : Rests(R)[y] = Rests(S)[y]
      BY <1>6 DEF Enters, run
    <2>2. /\ Marks(R)[co] = run
          /\ \A x \in Threads : x # co => /\ Marks(R)[x] = Marks(S)[x]
                                          /\ R.th[x].status = S.th[x].status
                                          /\ R.th[x].body = S.th[x].body
      <3>1. co \in Threads /\ Marks(R) = [Marks(S) EXCEPT ![co] = run]
        BY <1>1, <2>1
      <3>2. Marks(R)[co] = run /\ \A x \in Threads : x # co => Marks(R)[x] = Marks(S)[x]
        BY <3>1, MarksDomain
      <3> QED
        BY <3>2, MarkOther
    <2>3. R.th[co].status = "ok"
      BY <1>1, <2>2, MarkIs DEF run
    <2>4. On(S.C) \subseteq Threads
      BY <1>1, ActivationTypes DEF On
    <2>5. \A x \in On(R.C) : Marks(R)[x] = run
      BY <1>2, <2>1, <2>2, <2>4
    <2>6. \A x \in Threads : R.th[x].body => R.th[x].status = "ok"
      BY <1>2, <2>2, <2>3
    <2>7. \A x \in Coroutines \ On(R.C) : R.th[x].status = "ok" => Len(Rests(R)[x]) = 1
      BY <1>1, <1>2, <2>1, <2>2
    <2>8. Marks(R)[Main] = run
      BY <1>1, <1>2, <2>2
    <2> QED
      BY <2>5, <2>6, <2>7, <2>8 DEF Idle, run
  <1>7. ASSUME NEW m, Departs(S, R, m)
        PROVE  Idle(R)
    <2> DEFINE x == Top(S.C)
    <2>1. /\ x # Main /\ On(R.C) = On(S.C) \ {x} /\ <<x, Top(R.C)>> \in By(S.C)
          /\ Marks(R) = [Marks(S) EXCEPT ![x] = <<m, FALSE>>]
          /\ \A y \in Threads \ On(S.C) : Rests(R)[y] = Rests(S)[y]
          /\ m = "ok" => Len(Rests(R)[x]) = 1
      BY <1>7 DEF Departs
    <2> HIDE DEF x
    <2>2. x \in Coroutines /\ x \in Threads /\ x \in On(S.C)
      BY <1>1, <2>1, ByOne
    <2>3. /\ Marks(R)[x] = <<m, FALSE>>
          /\ \A y \in Threads : y # x => /\ Marks(R)[y] = Marks(S)[y]
                                         /\ R.th[y].status = S.th[y].status
                                         /\ R.th[y].body = S.th[y].body
      <3>1. x \in Threads /\ Marks(R) = [Marks(S) EXCEPT ![x] = <<m, FALSE>>]
        BY <2>1, <2>2
      <3>2. Marks(R)[x] = <<m, FALSE>> /\ \A y \in Threads : y # x => Marks(R)[y] = Marks(S)[y]
        BY <3>1, MarksDomain
      <3> QED
        BY <3>2, MarkOther
    <2>4. R.th[x].status = m /\ R.th[x].body = FALSE
      <3> DEFINE no == FALSE
                 p == <<m, no>>
      <3>1. x \in Threads /\ Marks(R)[x] = p /\ p = <<m, no>>
        BY <2>2, <2>3
      <3> HIDE DEF p, no
      <3>2. R.th[x].status = m /\ R.th[x].body = no
        BY <3>1, MarkOf
      <3> QED
        BY <3>2 DEF no
    <2>5. On(S.C) \subseteq Threads
      BY <1>1, ActivationTypes DEF On
    <2>6. \A y \in On(R.C) : Marks(R)[y] = run
      BY <1>2, <2>1, <2>3, <2>5
    <2>7. \A y \in Threads : R.th[y].body => R.th[y].status = "ok"
      BY <1>2, <2>3, <2>4
    <2>8. \A y \in Coroutines \ On(R.C) : R.th[y].status = "ok" => Len(Rests(R)[y]) = 1
      BY <1>1, <1>2, <2>1, <2>3, <2>4
    <2>9. Marks(R)[Main] = run
      BY <1>1, <1>2, <2>1, <2>3
    <2> QED
      BY <2>6, <2>7, <2>8, <2>9 DEF Idle, run
  <1> QED
    BY <1>3, <1>4, <1>5, <1>6, <1>7 DEF Viewed

-----------------------------------------------------------------------------
(* The beginning *)

\* The main thread runs and no other is there.
AtFirst(S) ==
    /\ S.C # << >>
    /\ Top(S.C) = Main
    /\ On(S.C) = {Main}
    /\ By(S.C) = {}
    /\ Marks(S) = [x \in Threads |-> <<IF x = Main THEN "ok" ELSE "none", FALSE>>]
    /\ \A x \in Coroutines : Len(Rests(S)[x]) = 1

LEMMA QuietBegins ==
    ASSUME NEW S, NEW R, AtFirst(S), Quiet(S, R)
    PROVE  AtFirst(R)
  BY DEF AtFirst, Quiet, SameStack

LEMMA InitSeen ==
    ASSUME NEW host \in 0 .. MAXCCALLS - 1
    PROVE  AtFirst(luaD_pcall(Start(host), Main, FALSE))
  <1> DEFINE S == Start(host)
             th == S.th
             T == th[Main]
             a == Activation(S, "pcall", Main, FALSE, FALSE)
             t == [T EXCEPT !.errorJmp = 1, !.errfunc = FALSE]
             u == [th EXCEPT ![Main] = t]
             R == [S EXCEPT !.th = u]
             W == Push(R, a)
             D == <<a>>
  <1>1. S \in State /\ S.C = << >> /\ S.raise = "no" /\ T = NewThread(host, <<"base">>)
    BY StartWeak
  <1>2. host \in Nat /\ Main \in Threads /\ BASIC_CI_SIZE \in Nat
    BY LuaCallAssumption DEF Threads
  <1>3. /\ T \in Thread /\ T.nCcalls = host /\ T.status = "ok" /\ T.ci = <<"base">>
        /\ T.errorJmp = 0 /\ T.errfunc = FALSE /\ T.body = FALSE
    BY <1>1, <1>2 DEF NewThread, Thread, Statuses, Frames
  <1>4. /\ a \in Activations /\ a.kind = "pcall" /\ a.th = Main
    <2>1. a = [kind |-> "pcall", th |-> Main, n |-> 0, handler |-> FALSE, wrap |-> FALSE,
               ci |-> 1, previous |-> 0, nCcalls |-> host, errfunc |-> FALSE]
      BY <1>3 DEF Activation
    <2> HIDE DEF a
    <2> QED
      BY <1>2, <2>1 DEF Activations, Kinds
  <1>5. t \in Thread /\ t.status = "ok" /\ t.body = FALSE
    <2> HIDE DEF T
    <2> QED
      BY <1>3 DEF Thread
  <1>6. luaD_pcall(S, Main, FALSE) = luaD_call(W, Main, "execute")
    <2>1. Len(S.C) = 0
      BY <1>1
    <2>2. [S EXCEPT !.th[Main].errorJmp = Len(S.C) + 1, !.th[Main].errfunc = FALSE] = R
      <3> HIDE DEF S
      <3> DEFINE f == FALSE
                 x == Main
      <3>1. x \in Threads /\ S \in State /\ T = S.th[x] /\ T \in Thread
        BY <1>1, <1>2, <1>3
      <3> HIDE DEF f, x, T
      <3>2. [S EXCEPT !.th[x].errorJmp = 1, !.th[x].errfunc = f]
                = [S EXCEPT !.th = [S.th EXCEPT ![x] = [T EXCEPT !.errorJmp = 1, !.errfunc = f]]]
        <4>1. [S EXCEPT !.th[x].errorJmp = 1]
                = [S EXCEPT !.th = [S.th EXCEPT ![x] = [T EXCEPT !.errorJmp = 1]]]
          BY <3>1
        <4> QED
          BY <3>1, <4>1 DEF State, Thread
      <3> QED
        BY <2>1, <3>2 DEF f, x
    <2> QED
      BY <2>2 DEF luaD_pcall
  <1>7. /\ th = [x \in Threads |-> IF x = Main THEN NewThread(host, <<"base">>) ELSE Unborn]
        /\ th \in [Threads -> Thread]
    BY <1>1, StateTypes DEF Start
  <1>8. \A x \in Coroutines : x \in Threads /\ x # Main /\ th[x] = Unborn
    BY <1>7, LuaCallAssumption DEF Threads
  <1>9. Unborn.status = "none" /\ Unborn.body = FALSE /\ Len(Unborn.ci) = 1
    BY DEF Unborn, NewThread
  <1> HIDE DEF S, T, a, t, th
  <1>10. u \in [Threads -> Thread] /\ u[Main] = t /\ \A x \in Coroutines : u[x] = Unborn
    BY <1>2, <1>5, <1>7, <1>8
  <1>11. Is(W, D, u, "no")
    <2>1. Is(R, << >>, u, "no")
      BY <1>1, <1>2, <1>5, ThreadsIs DEF u, th
    <2>2. D = Append(<< >>, a)
      OBVIOUS
    <2> HIDE DEF R, D
    <2> QED
      BY <1>4, <2>1, <2>2, PushIs DEF Is
  <1> HIDE DEF u, R, W
  <1>12. D \in Seq(Activations) /\ Len(D) = 1 /\ D[1] = a /\ D # << >>
    BY <1>4
  <1> HIDE DEF D
  <1>13. W \in State /\ W.C = D /\ W.th = u
    BY <1>11 DEF Is
  <1>14. Cur(W) = Main
    BY <1>4, <1>12, <1>13, StateTypes
  <1>15. Top(D) = Main /\ On(D) = {Main} /\ By(D) = {}
    <2>1. \A k \in 2 .. Len(D) : FALSE
      BY <1>12
    <2>2. By(D) = {}
      BY <2>1 DEF By
    <2>3. 1 .. Len(D) = {1}
      BY <1>12
    <2> QED
      BY <1>4, <1>12, <2>2, <2>3 DEF Top, On
  <1>16. Marks(W) = [x \in Threads |-> <<IF x = Main THEN "ok" ELSE "none", FALSE>>]
    <2>1. ASSUME NEW x \in Threads
          PROVE  Mark(W.th[x]) = <<IF x = Main THEN "ok" ELSE "none", FALSE>>
      <3>1. CASE x = Main
        BY <1>5, <1>10, <1>13, <3>1 DEF Mark
      <3>2. CASE x # Main
        BY <1>9, <1>10, <1>13, <3>2 DEF Mark, Threads
      <3> QED
        BY <3>1, <3>2
    <2> QED
      BY <2>1 DEF Marks
  <1>17. \A x \in Coroutines : Len(Rests(W)[x]) = 1
    BY <1>8, <1>9, <1>10, <1>13, <1>15 DEF Rests
  <1>18. AtFirst(W)
    BY <1>12, <1>13, <1>15, <1>16, <1>17 DEF AtFirst
  <1>19. Quiet(W, luaD_call(W, Cur(W), "execute"))
    BY <1>12, <1>13, QuietCall
  <1>20. AtFirst(luaD_call(W, Main, "execute"))
    BY <1>14, <1>18, <1>19, QuietBegins
  <1> QED
    BY <1>6, <1>20 DEF S

LEMMA InitIdle ==
    ASSUME NEW S, AtFirst(S)
    PROVE  Idle(S)
  <1>1. Main \in Threads /\ Main \notin Coroutines
    BY LuaCallAssumption DEF Threads
  <1>2. Marks(S)[Main] = <<"ok", FALSE>>
    BY <1>1 DEF AtFirst
  <1>3. \A x \in Threads : Marks(S)[x] = <<S.th[x].status, S.th[x].body>>
    BY DEF Marks, Mark
  <1>4. ASSUME NEW x \in Threads
        PROVE  S.th[x].body = FALSE
    <2>1. Marks(S)[x] = <<IF x = Main THEN "ok" ELSE "none", FALSE>>
      BY DEF AtFirst
    <2>2. <<S.th[x].status, S.th[x].body>> = <<IF x = Main THEN "ok" ELSE "none", FALSE>>
      BY <1>3, <2>1
    <2> QED
      BY <2>2
  <1> QED
    BY <1>1, <1>2, <1>4 DEF AtFirst, Idle

-----------------------------------------------------------------------------
(* What has become of a thread, and who waits for it *)

\* A thread that is not on the C stack.
Rested(T) ==
    IF T.status = "none" THEN "none"
    ELSE IF T.status = "YIELD" \/ T.body THEN "suspended" ELSE "dead"
Became(S, x) ==
    IF S.C # << >> /\ x = Top(S.C) THEN "running"
    ELSE IF x \in On(S.C) THEN "normal"
    ELSE Rested(S.th[x])

LEMMA StatusSeen ==
    ASSUME NEW S, NEW host \in Nat, Inv(S, host), Idle(S), NEW x \in Threads
    PROVE  StatusOf(S, x) = Became(S, x)
  <1> DEFINE T == S.th[x]
  <1>1. /\ S \in State /\ Waiting(S.C, S.th, host) /\ Threading(S.C, S.th, S.raise)
        /\ S.C \in Seq(Activations) /\ T \in Thread
    BY StateTypes DEF Inv, Weak, State
  <1>2. T.body \in BOOLEAN /\ T.status \in Statuses /\ Len(T.ci) \in Nat /\ Len(T.ci) >= 1
        /\ (T.body => T.status = "ok")
    <2>1. T.body \in BOOLEAN /\ T.status \in Statuses /\ Len(T.ci) \in Nat
      BY <1>1 DEF Thread
    <2>2. Len(T.ci) >= 1
      BY <1>1 DEF Threading, Well
    <2> QED
      BY <2>1, <2>2 DEF Idle
  <1>3. x = Main => T.status = "ok" /\ T.body = FALSE
    <2> SUFFICES ASSUME x = Main
                 PROVE  T.status = "ok" /\ T.body = FALSE
      OBVIOUS
    <2> DEFINE ok == "ok"
               no == FALSE
    <2>1. Marks(S)[x] = <<ok, no>>
      BY DEF Idle
    <2> HIDE DEF ok, no
    <2>2. S.th[x].status = ok /\ S.th[x].body = no
      BY <2>1, MarkIs
    <2> QED
      BY <2>2 DEF ok, no
  <1>4. CASE S.C = << >>
    <2>1. On(S.C) = {}
      BY <1>4 DEF On
    <2> HIDE DEF T
    <2>2. StatusOf(S, x) = IF T.status = "none" THEN "none"
                           ELSE IF x # Main /\ (T.status = "YIELD" \/ T.body) THEN "suspended"
                           ELSE "dead"
      BY <1>4 DEF StatusOf, T
    <2>3. Became(S, x) = Rested(T)
      BY <1>4, <2>1 DEF Became, T
    <2> QED
      BY <1>3, <2>2, <2>3 DEF Rested
  <1>5. CASE S.C # << >>
    <2>1. Cur(S) = Top(S.C) /\ Cur(S) \in Threads /\ Len(S.C) \in 1 .. Len(S.C)
      BY <1>1, <1>5, StateTypes DEF Top
    <2>2. x \in On(S.C) => T.status = "ok" /\ (x # Top(S.C) => Len(T.ci) > 1)
      <3> SUFFICES ASSUME NEW i \in 1 .. Len(S.C), x = S.C[i].th
                   PROVE  T.status = "ok" /\ (x # Top(S.C) => Len(T.ci) > 1)
        BY DEF On
      <3> QED
        BY <1>1 DEF Waiting, Top
    <2>3. Top(S.C) \in On(S.C)
      BY <2>1 DEF On, Top
    <2>4. x \notin On(S.C) /\ T.status = "ok" => Len(T.ci) = 1
      <3> SUFFICES ASSUME x \notin On(S.C), T.status = "ok"
                   PROVE  Len(T.ci) = 1
        OBVIOUS
      <3>1. Main \in On(S.C)
        BY <1>1, <1>5, MainOn DEF Inv, Weak
      <3>2. x \in Coroutines \ On(S.C) /\ x \in Threads \ On(S.C)
        BY <3>1 DEF Threads
      <3>3. Rests(S)[x] = T.ci
        BY <3>2 DEF Rests
      <3> QED
        BY <3>2, <3>3 DEF Idle
    <2>5. StatusOf(S, x) = IF T.status = "none" THEN "none"
                           ELSE IF x = Top(S.C) THEN "running"
                           ELSE IF T.status = "YIELD" THEN "suspended"
                           ELSE IF T.status = "ok" /\ Len(T.ci) > 1 THEN "normal"
                           ELSE IF T.status = "ok" /\ Len(T.ci) = 1 /\ T.body THEN "suspended"
                           ELSE "dead"
      <3>1. StatusOf(S, x) = IF T.status = "none" THEN "none" ELSE costatus(S, x)
        BY <1>5 DEF StatusOf
      <3> DEFINE l == Len(T.ci)
                 status == T.status
                 body == T.body
      <3>2. costatus(S, x) = IF x = Cur(S) THEN "running"
                             ELSE CASE status = "YIELD" -> "suspended"
                                    [] status = "ok" /\ l > 1 -> "normal"
                                    [] status = "ok" /\ l = 1 /\ body -> "suspended"
                                    [] OTHER -> "dead"
        BY DEF costatus
      <3>4. l \in Nat /\ body \in BOOLEAN
        BY <1>2
      <3> HIDE DEF T, l, status, body
      <3>3. costatus(S, x) = IF x = Top(S.C) THEN "running"
                             ELSE IF status = "YIELD" THEN "suspended"
                             ELSE IF status = "ok" /\ l > 1 THEN "normal"
                             ELSE IF status = "ok" /\ l = 1 /\ body THEN "suspended"
                             ELSE "dead"
        <4>1. CASE x = Cur(S)
          BY <2>1, <3>2, <4>1
        <4>2. CASE x # Cur(S) /\ status = "YIELD"
          BY <2>1, <3>2, <4>2
        <4>3. CASE x # Cur(S) /\ status = "ok" /\ l > 1
          BY <2>1, <3>2, <3>4, <4>3
        <4>4. CASE x # Cur(S) /\ status = "ok" /\ ~ (l > 1) /\ l = 1 /\ body
          BY <2>1, <3>2, <3>4, <4>4
        <4>5. CASE /\ x # Cur(S) /\ status # "YIELD" /\ ~ (status = "ok" /\ l > 1)
                   /\ ~ (status = "ok" /\ l = 1 /\ body)
          BY <2>1, <3>2, <3>4, <4>5
        <4> QED
          BY <4>1, <4>2, <4>3, <4>4, <4>5
      <3> QED
        BY <3>1, <3>3 DEF l, status, body
    <2>6. Became(S, x) = IF x = Top(S.C) THEN "running"
                         ELSE IF x \in On(S.C) THEN "normal"
                         ELSE Rested(T)
      BY <1>5 DEF Became
    <2>7. CASE x = Top(S.C)
      BY <2>2, <2>3, <2>5, <2>6, <2>7
    <2>8. CASE x # Top(S.C) /\ x \in On(S.C)
      <3>1. T.status = "ok" /\ Len(T.ci) > 1
        BY <2>2, <2>8
      <3> HIDE DEF T
      <3> QED
        BY <2>5, <2>6, <2>8, <3>1
    <2>9. CASE x \notin On(S.C)
      <3>1. x # Top(S.C) /\ (T.status = "ok" => Len(T.ci) = 1)
        BY <2>3, <2>4, <2>9
      <3> DEFINE l == Len(T.ci)
                 status == T.status
                 body == T.body
      <3>2. /\ body \in BOOLEAN /\ (body => status = "ok") /\ (status = "ok" => l = 1)
            /\ Rested(T) = IF status = "none" THEN "none"
                           ELSE IF status = "YIELD" \/ body THEN "suspended" ELSE "dead"
        BY <1>2, <3>1 DEF Rested
      <3>3. StatusOf(S, x) = IF status = "none" THEN "none"
                             ELSE IF status = "YIELD" THEN "suspended"
                             ELSE IF status = "ok" /\ l > 1 THEN "normal"
                             ELSE IF status = "ok" /\ l = 1 /\ body THEN "suspended"
                             ELSE "dead"
        BY <2>5, <3>1
      <3> HIDE DEF T, l, status, body
      <3>4. StatusOf(S, x) = Rested(T)
        BY <3>2, <3>3
      <3> QED
        BY <2>6, <2>9, <3>1, <3>4
    <2> QED
      BY <2>7, <2>8, <2>9
  <1> QED
    BY <1>4, <1>5

LEMMA ResumerSeen ==
    ASSUME NEW S, S.C \in Seq(Activations), Chained(S.C), NEW x
    PROVE  /\ \A z : <<x, z>> \in By(S.C) => ResumerOf(S, x) = z
           /\ (\A z : <<x, z>> \notin By(S.C)) => ResumerOf(S, x) = x
  <1> DEFINE C == S.C
             resumed == {j \in DOMAIN C : C[j].kind = "resume" /\ C[j].th = x}
             r == CHOOSE j \in resumed : TRUE
  <1>1. ResumerOf(S, x) = IF resumed = {} THEN x ELSE C[r - 1].th
    BY DEF ResumerOf
  <1>2. DOMAIN C = 1 .. Len(C) /\ Len(C) \in Nat
    OBVIOUS
  <1>3. \A j \in resumed : j \in 2 .. Len(C)
    <2> SUFFICES ASSUME NEW j \in resumed
                 PROVE  j \in 2 .. Len(C)
      OBVIOUS
    <2>1. j \in 1 .. Len(C) /\ C[j].kind = "resume"
      BY <1>2
    <2>2. C # << >>
      BY <1>2, <2>1
    <2>3. C[1].kind = "pcall"
      BY <2>2 DEF Chained
    <2>4. j # 1
      BY <2>1, <2>3
    <2> QED
      BY <1>2, <2>1, <2>4
  <1>4. \A j \in resumed : <<x, C[j - 1].th>> \in By(C)
    BY <1>3 DEF By
  <1>5. resumed # {} => r \in resumed
    OBVIOUS
  <1>6. ASSUME NEW z, <<x, z>> \in By(C)
        PROVE  resumed # {}
    <2>1. PICK k \in 2 .. Len(C) : C[k].kind = "resume" /\ x = C[k].th
      BY <1>6 DEF By
    <2> QED
      BY <1>2, <2>1
  <1> HIDE DEF resumed, r
  <1>7. ASSUME NEW z, <<x, z>> \in By(C)
        PROVE  ResumerOf(S, x) = z
    <2>1. resumed # {} /\ <<x, C[r - 1].th>> \in By(C)
      BY <1>4, <1>5, <1>6, <1>7
    <2>2. C[r - 1].th = z
      BY <1>7, <2>1, ByOne
    <2> QED
      BY <1>1, <2>1, <2>2
  <1>8. ASSUME \A z : <<x, z>> \notin By(C)
        PROVE  ResumerOf(S, x) = x
    BY <1>1, <1>4, <1>5, <1>8
  <1> QED
    BY <1>7, <1>8

LEMMA RestedSame ==
    ASSUME NEW S, NEW R, NEW x \in Threads, Marks(R)[x] = Marks(S)[x]
    PROVE  Rested(R.th[x]) = Rested(S.th[x])
  BY MarkOther DEF Rested

LEMMA RestedMark ==
    ASSUME NEW S, NEW x \in Threads, NEW m, NEW b \in BOOLEAN, Marks(S)[x] = <<m, b>>
    PROVE  Rested(S.th[x]) = IF m = "none" THEN "none"
                             ELSE IF m = "YIELD" \/ b THEN "suspended" ELSE "dead"
  <1>1. S.th[x].status = m /\ S.th[x].body = b
    BY MarkIs
  <1> QED
    BY <1>1 DEF Rested

LEMMA ResumerSame ==
    ASSUME NEW S, S.C \in Seq(Activations), Chained(S.C),
           NEW R, R.C \in Seq(Activations), Chained(R.C), NEW x,
           \A z : <<x, z>> \in By(R.C) <=> <<x, z>> \in By(S.C)
    PROVE  ResumerOf(R, x) = ResumerOf(S, x)
  <1>1. CASE \A z : <<x, z>> \notin By(S.C)
    BY <1>1, ResumerSeen
  <1>2. ASSUME NEW z, <<x, z>> \in By(S.C)
        PROVE  ResumerOf(R, x) = ResumerOf(S, x)
    BY <1>2, ResumerSeen
  <1> QED
    BY <1>1, <1>2

\* The steps of the threads, of which LuaCoroutines tells.
LEMMA QuietBecame ==
    ASSUME NEW S, NEW R, Quiet(S, R), S \in State, R \in State, Chained(S.C), Chained(R.C),
           NEW x \in Threads
    PROVE  Became(R, x) = Became(S, x) /\ ResumerOf(R, x) = ResumerOf(S, x)
  <1>1. S.C \in Seq(Activations) /\ R.C \in Seq(Activations)
    BY StateTypes
  <1>2. SameStack(S.C, R.C) /\ Marks(R)[x] = Marks(S)[x]
    BY DEF Quiet
  <1>3. Rested(R.th[x]) = Rested(S.th[x])
    BY <1>2, RestedSame
  <1>4. Became(R, x) = Became(S, x)
    BY <1>2, <1>3 DEF SameStack, Became
  <1>5. ResumerOf(R, x) = ResumerOf(S, x)
    BY <1>1, <1>2, ResumerSame DEF SameStack
  <1> QED
    BY <1>4, <1>5

LEMMA FinishesBecame ==
    ASSUME NEW S, NEW R, Finishes(S, R), S \in State, R \in State, Chained(S.C), Chained(R.C),
           Idle(R)
    PROVE  /\ Became(S, Main) = "running" /\ Became(R, Main) = "dead"
           /\ \A x \in Threads \ {Main} : Became(R, x) = Became(S, x)
           /\ \A x \in Threads : ResumerOf(S, x) = x /\ ResumerOf(R, x) = x
  <1>1. S.C \in Seq(Activations) /\ R.C \in Seq(Activations)
    BY StateTypes
  <1>2. /\ R.C = << >> /\ S.C # << >> /\ Top(S.C) = Main /\ On(S.C) = {Main} /\ On(R.C) = {}
        /\ By(S.C) = {} /\ By(R.C) = {} /\ Marks(R) = Marks(S) /\ Main \in Threads
    BY DEF Finishes, Threads
  <1>3. Rested(R.th[Main]) = "dead"
    <2> DEFINE ok == "ok"
               no == FALSE
    <2>1. Marks(R)[Main] = <<ok, no>> /\ no \in BOOLEAN
      BY DEF Idle
    <2> HIDE DEF ok, no
    <2>2. Rested(R.th[Main]) = IF ok = "none" THEN "none"
                               ELSE IF ok = "YIELD" \/ no THEN "suspended" ELSE "dead"
      BY <1>2, <2>1, RestedMark
    <2> QED
      BY <2>2 DEF ok, no
  <1>4. \A x \in Threads : Rested(R.th[x]) = Rested(S.th[x])
    BY <1>2, RestedSame
  <1>5. \A x \in Threads : ResumerOf(S, x) = x /\ ResumerOf(R, x) = x
    BY <1>1, <1>2, ResumerSeen
  <1> QED
    BY <1>2, <1>3, <1>4, <1>5 DEF Became

LEMMA BecomesBecame ==
    ASSUME NEW S, NEW R, NEW co \in Coroutines, NEW m, NEW b \in BOOLEAN, NEW n, NEW c \in BOOLEAN,
           Becomes(S, R, co, <<m, b>>, <<n, c>>),
           S \in State, R \in State, Chained(S.C), Chained(R.C)
    PROVE  /\ Became(S, co) = IF m = "none" THEN "none"
                              ELSE IF m = "YIELD" \/ b THEN "suspended" ELSE "dead"
           /\ Became(R, co) = IF n = "none" THEN "none"
                              ELSE IF n = "YIELD" \/ c THEN "suspended" ELSE "dead"
           /\ \A x \in Threads : x # co => Became(R, x) = Became(S, x)
           /\ \A x \in Threads : ResumerOf(R, x) = ResumerOf(S, x)
           /\ Top(S.C) \in Threads /\ Became(S, Top(S.C)) = "running"
  <1> DEFINE p == <<m, b>>
             q == <<n, c>>
  <1>1. S.C \in Seq(Activations) /\ R.C \in Seq(Activations) /\ co \in Threads
    BY StateTypes DEF Threads
  <1>2. /\ SameStack(S.C, R.C) /\ co \notin On(S.C) /\ Marks(S)[co] = p
        /\ Marks(R) = [Marks(S) EXCEPT ![co] = q]
    BY DEF Becomes
  <1> HIDE DEF p, q
  <1>3. Marks(R)[co] = q /\ \A x \in Threads : x # co => Marks(R)[x] = Marks(S)[x]
    BY <1>1, <1>2, MarksDomain
  <1>4. Rested(S.th[co]) = IF m = "none" THEN "none"
                           ELSE IF m = "YIELD" \/ b THEN "suspended" ELSE "dead"
    BY <1>1, <1>2, RestedMark DEF p
  <1>5. Rested(R.th[co]) = IF n = "none" THEN "none"
                           ELSE IF n = "YIELD" \/ c THEN "suspended" ELSE "dead"
    BY <1>1, <1>3, RestedMark DEF q
  <1>6. \A x \in Threads : x # co => Rested(R.th[x]) = Rested(S.th[x])
    BY <1>3, RestedSame
  <1>7. S.C # << >> /\ R.C # << >> /\ Top(R.C) = Top(S.C) /\ On(R.C) = On(S.C)
        /\ By(R.C) = By(S.C)
    BY <1>2 DEF SameStack
  <1>8. Top(S.C) \in On(S.C) /\ Top(S.C) \in Threads
    BY <1>1, <1>7, ActivationTypes DEF On, Top
  <1>9. Became(S, co) = Rested(S.th[co]) /\ Became(R, co) = Rested(R.th[co])
    BY <1>2, <1>7, <1>8 DEF Became
  <1>10. \A x \in Threads : x # co => Became(R, x) = Became(S, x)
    BY <1>6, <1>7 DEF Became
  <1>11. \A x \in Threads : ResumerOf(R, x) = ResumerOf(S, x)
    BY <1>1, <1>7, ResumerSame
  <1>12. Became(S, Top(S.C)) = "running"
    BY <1>7 DEF Became
  <1> QED
    BY <1>4, <1>5, <1>8, <1>9, <1>10, <1>11, <1>12

LEMMA EntersBecame ==
    ASSUME NEW S, NEW R, NEW co \in Coroutines, NEW m, NEW b \in BOOLEAN, m = "YIELD" \/ b,
           m # "none", Enters(S, R, co, <<m, b>>), S.C # << >>,
           S \in State, R \in State, Chained(S.C), Chained(R.C)
    PROVE  /\ Top(S.C) \in Threads /\ Top(S.C) # co /\ Became(S, Top(S.C)) = "running"
           /\ Became(S, co) = "suspended" /\ Became(R, co) = "running"
           /\ Became(R, Top(S.C)) = "normal"
           /\ \A x \in Threads : x \notin {co, Top(S.C)} => Became(R, x) = Became(S, x)
           /\ \A x \in Threads : x # co => ResumerOf(R, x) = ResumerOf(S, x)
           /\ ResumerOf(R, co) = Top(S.C)
  <1> DEFINE p == <<m, b>>
             y == Top(S.C)
             run == <<"ok", FALSE>>
  <1>1. S.C \in Seq(Activations) /\ R.C \in Seq(Activations) /\ co \in Threads
    BY StateTypes DEF Threads
  <1>2. /\ co \notin On(S.C) /\ Marks(S)[co] = p /\ Marks(R) = [Marks(S) EXCEPT ![co] = run]
        /\ R.C # << >> /\ Top(R.C) = co /\ On(R.C) = On(S.C) \cup {co}
        /\ By(R.C) = By(S.C) \cup {<<co, y>>}
    <2>1. Enters(S, R, co, p)
      OBVIOUS
    <2>2. Marks(R) = [Marks(S) EXCEPT ![co] = <<"ok", FALSE>>]
      BY DEF Enters
    <2> HIDE DEF p
    <2>3. /\ co \notin On(S.C) /\ Marks(S)[co] = p
          /\ R.C # << >> /\ Top(R.C) = co /\ On(R.C) = On(S.C) \cup {co}
          /\ By(R.C) = By(S.C) \cup {<<co, y>>}
      BY <2>1, Zenon DEF Enters
    <2> QED
      BY <2>2, <2>3, Zenon
  <1>3. y \in On(S.C) /\ y \in Threads
    BY <1>1, ActivationTypes DEF On, Top
  <1> HIDE DEF p, run
  <1>4. \A x \in Threads : x # co => Marks(R)[x] = Marks(S)[x]
    BY <1>1, <1>2, MarksDomain
  <1>5. Rested(S.th[co]) = "suspended"
    BY <1>1, <1>2, RestedMark DEF p
  <1>6. \A x \in Threads : x # co => Rested(R.th[x]) = Rested(S.th[x])
    BY <1>4, RestedSame
  <1>7. y # co /\ Became(S, y) = "running" /\ Became(S, co) = "suspended"
        /\ Became(R, co) = "running" /\ Became(R, y) = "normal"
    BY <1>2, <1>3, <1>5 DEF Became
  <1>8. \A x \in Threads : x \notin {co, y} => Became(R, x) = Became(S, x)
    BY <1>2, <1>6 DEF Became
  <1>9. ASSUME NEW x \in Threads, x # co
        PROVE  ResumerOf(R, x) = ResumerOf(S, x)
    <2>1. \A z : <<x, z>> \in By(R.C) <=> <<x, z>> \in By(S.C)
      BY <1>2, <1>9
    <2> QED
      BY <1>1, <2>1, ResumerSame
  <1>10. ResumerOf(R, co) = y
    <2>1. <<co, y>> \in By(R.C)
      BY <1>2
    <2> QED
      BY <1>1, <2>1, ResumerSeen
  <1> QED
    BY <1>3, <1>7, <1>8, <1>9, <1>10

LEMMA DepartsBecame ==
    ASSUME NEW S, NEW R, NEW m, Departs(S, R, m), m # "none",
           S \in State, R \in State, Chained(S.C), Chained(R.C)
    PROVE  LET x == Top(S.C)
               y == Top(R.C)
           IN  /\ x \in Threads /\ y \in Threads /\ x # y /\ ResumerOf(S, x) = y
               /\ Became(S, x) = "running"
               /\ Became(R, x) = (IF m = "YIELD" THEN "suspended" ELSE "dead")
               /\ Became(R, y) = "running"
               /\ \A z \in Threads : z \notin {x, y} => Became(R, z) = Became(S, z)
               /\ \A z \in Threads : z # x => ResumerOf(R, z) = ResumerOf(S, z)
               /\ ResumerOf(R, x) = x
  <1> DEFINE x == Top(S.C)
             y == Top(R.C)
             no == FALSE
             p == <<m, no>>
  <1>1. S.C \in Seq(Activations) /\ R.C \in Seq(Activations)
    BY StateTypes
  <1>2. /\ R.C # << >> /\ <<x, y>> \in By(S.C) /\ On(R.C) = On(S.C) \ {x}
        /\ By(R.C) = {q \in By(S.C) : q[1] # x} /\ Marks(R) = [Marks(S) EXCEPT ![x] = p]
    BY DEF Departs
  <1>3. x \in Threads /\ x \in On(S.C) /\ y \in On(S.C) /\ x # y
    BY <1>1, <1>2, ByOne DEF Threads
  <1>4. S.C # << >> /\ y \in Threads /\ y \in On(R.C)
    <2>1. S.C # << >>
      BY <1>3 DEF On
    <2>2. Len(R.C) \in 1 .. Len(R.C)
      BY <1>1, <1>2
    <2> QED
      BY <1>1, <2>1, <2>2, ActivationTypes DEF On, Top
  <1>5. no \in BOOLEAN
    OBVIOUS
  <1> HIDE DEF p, x, y, no
  <1>6. Marks(R)[x] = p /\ \A z \in Threads : z # x => Marks(R)[z] = Marks(S)[z]
    BY <1>2, <1>3, MarksDomain
  <1>7. Rested(R.th[x]) = (IF m = "YIELD" THEN "suspended" ELSE "dead")
    <2>1. Rested(R.th[x]) = IF m = "none" THEN "none"
                            ELSE IF m = "YIELD" \/ no THEN "suspended" ELSE "dead"
      BY <1>3, <1>5, <1>6, RestedMark DEF p
    <2> QED
      BY <2>1 DEF no
  <1>8. \A z \in Threads : z # x => Rested(R.th[z]) = Rested(S.th[z])
    BY <1>6, RestedSame
  <1>9. Became(S, x) = "running" /\ Became(R, x) = Rested(R.th[x]) /\ Became(R, y) = "running"
    BY <1>2, <1>3, <1>4 DEF Became, x, y
  <1>10. \A z \in Threads : z \notin {x, y} => Became(R, z) = Became(S, z)
    BY <1>2, <1>4, <1>8 DEF Became, x, y
  <1>11. ASSUME NEW z \in Threads, z # x
         PROVE  ResumerOf(R, z) = ResumerOf(S, z)
    <2>1. \A w : <<z, w>> \in By(R.C) <=> <<z, w>> \in By(S.C)
      BY <1>2, <1>11
    <2> QED
      BY <1>1, <2>1, ResumerSame
  <1>12. ResumerOf(R, x) = x
    <2>1. \A w : <<x, w>> \notin By(R.C)
      BY <1>2
    <2> QED
      BY <1>1, <2>1, ResumerSeen
  <1>13. ResumerOf(S, x) = y
    BY <1>1, <1>2, ResumerSeen
  <1> QED
    BY <1>3, <1>4, <1>7, <1>9, <1>10, <1>11, <1>12, <1>13 DEF x, y

-----------------------------------------------------------------------------
(* LuaCall implements LuaCoroutines *)

status == [x \in Threads |-> StatusOf(s, x)]
resumer == [x \in Threads |-> ResumerOf(s, x)]

LEMMA InitRefines == Init => P!Init
  <1> SUFFICES ASSUME Init
               PROVE  P!Init
    OBVIOUS
  <1>1. prog \in Programs /\ prog.host \in 0 .. MAXCCALLS - 1 /\ prog.host \in Nat
        /\ s = luaD_pcall(Start(prog.host), Main, FALSE)
    BY LuaCallAssumption DEF Init
  <1>2. AtFirst(s) /\ Idle(s) /\ Inv(s, prog.host)
    BY <1>1, InitSeen, InitIdle, InitInv
  <1>3. s.C \in Seq(Activations) /\ Chained(s.C)
    BY <1>2, StateTypes DEF Inv, Weak
  <1>4. ASSUME NEW x \in Threads
        PROVE  StatusOf(s, x) = IF x = Main THEN "running" ELSE "none"
    <2>1. StatusOf(s, x) = Became(s, x)
      BY <1>1, <1>2, StatusSeen
    <2>2. s.C # << >> /\ Top(s.C) = Main /\ On(s.C) = {Main}
      BY <1>2 DEF AtFirst
    <2>3. CASE x = Main
      BY <2>1, <2>2, <2>3 DEF Became
    <2>4. CASE x # Main
      <3> DEFINE none == "none"
                 no == FALSE
      <3>1. Marks(s)[x] = <<none, no>> /\ no \in BOOLEAN
        BY <1>2, <2>4 DEF AtFirst
      <3> HIDE DEF none, no
      <3>2. Rested(s.th[x]) = IF none = "none" THEN "none"
                              ELSE IF none = "YIELD" \/ no THEN "suspended" ELSE "dead"
        BY <3>1, RestedMark
      <3> QED
        BY <2>1, <2>2, <2>4, <3>2 DEF Became, none
    <2> QED
      BY <2>3, <2>4
  <1>5. ASSUME NEW x \in Threads
        PROVE  ResumerOf(s, x) = x
    <2>1. \A z : <<x, z>> \notin By(s.C)
      BY <1>2 DEF AtFirst
    <2> QED
      BY <1>3, <2>1, ResumerSeen
  <1> QED
    BY <1>4, <1>5 DEF P!Init, P!Threads, Threads

\* The actions of LuaCoroutines, of what threads have become.
LEMMA CreateRefines ==
    ASSUME NEW co \in Coroutines, status[co] = "none",
           status' = [status EXCEPT ![co] = "suspended"], resumer' = resumer
    PROVE  P!Next
  <1>1. P!Create(co)
    BY DEF P!Create, status, resumer, Threads, P!Threads
  <1> QED
    BY <1>1 DEF P!Next

LEMMA RefusedRefines ==
    ASSUME NEW x \in Threads, NEW co \in Coroutines, status[x] = "running",
           status[co] = "suspended", status' = [status EXCEPT ![co] = "dead"], resumer' = resumer
    PROVE  P!Next
  <1>1. P!Refused(x, co)
    BY DEF P!Refused, status, resumer
  <1> QED
    BY <1>1 DEF P!Next, P!Threads, Threads

LEMMA ResumeRefines ==
    ASSUME NEW x \in Threads, NEW co \in Coroutines, status[x] = "running",
           status[co] = "suspended", status' = [status EXCEPT ![co] = "running", ![x] = "normal"],
           resumer' = [resumer EXCEPT ![co] = x]
    PROVE  P!Next
  <1>1. P!Resume(x, co)
    BY DEF P!Resume, status, resumer
  <1> QED
    BY <1>1 DEF P!Next, P!Threads, Threads

LEMMA YieldRefines ==
    ASSUME NEW x \in Threads, status[x] = "running", resumer[x] # x,
           status' = [status EXCEPT ![x] = "suspended", ![resumer[x]] = "running"],
           resumer' = [resumer EXCEPT ![x] = x]
    PROVE  P!Next
  <1>1. P!Yield(x)
    BY DEF P!Yield, status, resumer
  <1> QED
    BY <1>1 DEF P!Next, P!Threads, Threads

LEMMA EndRefines ==
    ASSUME NEW x \in Threads, status[x] = "running",
           status' = [[status EXCEPT ![resumer[x]] = "running"] EXCEPT ![x] = "dead"],
           resumer' = [resumer EXCEPT ![x] = x]
    PROVE  P!Next
  <1>1. P!End(x)
    BY DEF P!End, status, resumer
  <1> QED
    BY <1>1 DEF P!Next, P!Threads, Threads

\* What is known of the threads as they become something else.
LEMMA NextKnows ==
    ASSUME IInv, IInv', Idle(s), Next
    PROVE  /\ Viewed(s, s') /\ Idle(s')
           /\ s \in State /\ s' \in State /\ Chained(s.C) /\ Chained(s'.C)
           /\ status = [x \in Threads |-> Became(s, x)]
           /\ status' = [x \in Threads |-> Became(s', x)]
           /\ resumer' = [x \in Threads |-> ResumerOf(s', x)]
  <1>1. prog.host \in Nat /\ Inv(s, prog.host) /\ prog'.host \in Nat /\ Inv(s', prog'.host)
    BY LuaCallAssumption DEF IInv
  <1>2. s \in State /\ s' \in State /\ Chained(s.C) /\ Chained(s'.C)
    BY <1>1 DEF Inv, Weak
  <1>3. Viewed(s, s')
    BY NextSeen
  <1>4. Idle(s')
    BY <1>2, <1>3, ViewedIdle
  <1>5. \A x \in Threads : StatusOf(s, x) = Became(s, x) /\ StatusOf(s', x) = Became(s', x)
    BY <1>1, <1>4, StatusSeen
  <1>6. status = [x \in Threads |-> Became(s, x)]
    BY <1>5 DEF status
  <1>7. status' = [x \in Threads |-> Became(s', x)]
    BY <1>5 DEF status
  <1>8. resumer' = [x \in Threads |-> ResumerOf(s', x)]
    BY DEF resumer
  <1> QED
    BY <1>2, <1>3, <1>4, <1>6, <1>7, <1>8

LEMMA NextRefines ==
    ASSUME IInv, IInv', Idle(s), Next
    PROVE  P!Next \/ (status' = status /\ resumer' = resumer)
  <1>1. /\ Viewed(s, s') /\ Idle(s')
        /\ s \in State /\ s' \in State /\ Chained(s.C) /\ Chained(s'.C)
        /\ status = [x \in Threads |-> Became(s, x)]
        /\ status' = [x \in Threads |-> Became(s', x)]
        /\ resumer' = [x \in Threads |-> ResumerOf(s', x)]
    BY NextKnows
  <1>2. resumer = [x \in Threads |-> ResumerOf(s, x)]
    BY DEF resumer
  <1>3. Main \in Threads /\ Coroutines \subseteq Threads
    BY DEF Threads
  <1>4. CASE Quiet(s, s')
    <2>1. \A x \in Threads : Became(s', x) = Became(s, x) /\ ResumerOf(s', x) = ResumerOf(s, x)
      BY <1>1, <1>4, QuietBecame
    <2> QED
      BY <1>1, <1>2, <2>1
  <1>5. CASE Finishes(s, s')
    <2>1. /\ Became(s, Main) = "running" /\ Became(s', Main) = "dead"
          /\ \A x \in Threads \ {Main} : Became(s', x) = Became(s, x)
          /\ \A x \in Threads : ResumerOf(s, x) = x /\ ResumerOf(s', x) = x
      BY <1>1, <1>5, FinishesBecame
    <2>2. status[Main] = "running" /\ resumer[Main] = Main
      BY <1>1, <1>2, <1>3, <2>1
    <2>3. status' = [[status EXCEPT ![resumer[Main]] = "running"] EXCEPT ![Main] = "dead"]
      BY <1>1, <1>3, <2>1, <2>2
    <2>4. resumer' = [resumer EXCEPT ![Main] = Main]
      BY <1>1, <1>2, <1>3, <2>1
    <2> QED
      BY <1>3, <2>2, <2>3, <2>4, EndRefines
  <1>6. ASSUME NEW co \in Coroutines, Becomes(s, s', co, <<"none", FALSE>>, <<"ok", TRUE>>)
        PROVE  P!Next
    <2> DEFINE none == "none"
               ok == "ok"
               no == FALSE
               yes == TRUE
    <2>1. Becomes(s, s', co, <<none, no>>, <<ok, yes>>) /\ no \in BOOLEAN /\ yes \in BOOLEAN
      BY <1>6
    <2> HIDE DEF none, ok, no, yes
    <2>2. /\ Became(s, co) = IF none = "none" THEN "none"
                             ELSE IF none = "YIELD" \/ no THEN "suspended" ELSE "dead"
          /\ Became(s', co) = IF ok = "none" THEN "none"
                              ELSE IF ok = "YIELD" \/ yes THEN "suspended" ELSE "dead"
          /\ \A x \in Threads : x # co => Became(s', x) = Became(s, x)
          /\ \A x \in Threads : ResumerOf(s', x) = ResumerOf(s, x)
      BY <1>1, <2>1, BecomesBecame
    <2>3. Became(s, co) = "none" /\ Became(s', co) = "suspended"
      BY <2>2 DEF none, ok, yes
    <2>4. status[co] = "none" /\ status' = [status EXCEPT ![co] = "suspended"]
          /\ resumer' = resumer
      BY <1>1, <1>2, <1>3, <2>2, <2>3
    <2> QED
      BY <2>4, CreateRefines
  <1>7. ASSUME NEW co \in Coroutines, Becomes(s, s', co, <<"ok", TRUE>>, <<"ok", FALSE>>)
        PROVE  P!Next
    <2> DEFINE ok == "ok"
               no == FALSE
               yes == TRUE
               x == Top(s.C)
    <2>1. Becomes(s, s', co, <<ok, yes>>, <<ok, no>>) /\ no \in BOOLEAN /\ yes \in BOOLEAN
      BY <1>7
    <2> HIDE DEF ok, no, yes
    <2>2. /\ Became(s, co) = IF ok = "none" THEN "none"
                             ELSE IF ok = "YIELD" \/ yes THEN "suspended" ELSE "dead"
          /\ Became(s', co) = IF ok = "none" THEN "none"
                              ELSE IF ok = "YIELD" \/ no THEN "suspended" ELSE "dead"
          /\ \A y \in Threads : y # co => Became(s', y) = Became(s, y)
          /\ \A y \in Threads : ResumerOf(s', y) = ResumerOf(s, y)
          /\ x \in Threads /\ Became(s, x) = "running"
      BY <1>1, <2>1, BecomesBecame
    <2>3. Became(s, co) = "suspended" /\ Became(s', co) = "dead"
      BY <2>2 DEF ok, yes, no
    <2> HIDE DEF x
    <2>4. status[co] = "suspended" /\ status[x] = "running"
          /\ status' = [status EXCEPT ![co] = "dead"] /\ resumer' = resumer
      BY <1>1, <1>2, <1>3, <2>2, <2>3
    <2> QED
      BY <2>2, <2>4, RefusedRefines
  <1>8. ASSUME NEW co \in Coroutines, NEW m \in {<<"YIELD", FALSE>>, <<"ok", TRUE>>},
               Enters(s, s', co, m)
        PROVE  P!Next
    <2> DEFINE x == Top(s.C)
    <2>1. PICK c \in {"YIELD", "ok"}, b \in BOOLEAN : m = <<c, b>> /\ (c = "YIELD" \/ b)
      OBVIOUS
    <2>2. s.C # << >>
      <3>1. <<co, x>> \in By(s'.C) /\ s'.C \in Seq(Activations)
        BY <1>1, <1>8, StateTypes DEF Enters
      <3>2. x # co /\ x \in On(s'.C) /\ On(s'.C) = On(s.C) \cup {co}
        BY <1>1, <1>8, <3>1, ByOne DEF Enters
      <3>3. x \in On(s.C)
        BY <3>2
      <3> QED
        BY <3>3 DEF On
    <2>3. Enters(s, s', co, <<c, b>>) /\ c # "none"
      BY <1>8, <2>1
    <2>4. /\ x \in Threads /\ x # co /\ Became(s, x) = "running"
          /\ Became(s, co) = "suspended" /\ Became(s', co) = "running"
          /\ Became(s', x) = "normal"
          /\ \A y \in Threads : y \notin {co, x} => Became(s', y) = Became(s, y)
          /\ \A y \in Threads : y # co => ResumerOf(s', y) = ResumerOf(s, y)
          /\ ResumerOf(s', co) = x
      BY <1>1, <2>1, <2>2, <2>3, EntersBecame
    <2> HIDE DEF x
    <2>5. status[x] = "running" /\ status[co] = "suspended"
      BY <1>1, <1>3, <2>4
    <2>6. status' = [status EXCEPT ![co] = "running", ![x] = "normal"]
      BY <1>1, <1>3, <2>4
    <2>7. resumer' = [resumer EXCEPT ![co] = x]
      BY <1>1, <1>2, <1>3, <2>4
    <2> QED
      BY <2>4, <2>5, <2>6, <2>7, ResumeRefines
  <1>9. ASSUME NEW m \in Codes \cup {"ok", "YIELD"}, Departs(s, s', m)
        PROVE  P!Next
    <2> DEFINE x == Top(s.C)
               y == Top(s'.C)
    <2>1. m # "none"
      BY DEF Codes
    <2>2. /\ x \in Threads /\ y \in Threads /\ x # y /\ ResumerOf(s, x) = y
          /\ Became(s, x) = "running"
          /\ Became(s', x) = (IF m = "YIELD" THEN "suspended" ELSE "dead")
          /\ Became(s', y) = "running"
          /\ \A z \in Threads : z \notin {x, y} => Became(s', z) = Became(s, z)
          /\ \A z \in Threads : z # x => ResumerOf(s', z) = ResumerOf(s, z)
          /\ ResumerOf(s', x) = x
      BY <1>1, <1>9, <2>1, DepartsBecame
    <2> HIDE DEF x, y
    <2>3. status[x] = "running" /\ resumer[x] = y /\ resumer[x] # x
      BY <1>1, <1>2, <2>2
    <2>4. resumer' = [resumer EXCEPT ![x] = x]
      BY <1>1, <1>2, <2>2
    <2>5. CASE m = "YIELD"
      <3>1. status' = [status EXCEPT ![x] = "suspended", ![resumer[x]] = "running"]
        BY <1>1, <2>2, <2>3, <2>5
      <3> QED
        BY <2>2, <2>3, <2>4, <3>1, YieldRefines
    <2>6. CASE m # "YIELD"
      <3>1. status' = [[status EXCEPT ![resumer[x]] = "running"] EXCEPT ![x] = "dead"]
        BY <1>1, <2>2, <2>3, <2>6
      <3> QED
        BY <2>2, <2>3, <2>4, <3>1, EndRefines
    <2> QED
      BY <2>5, <2>6
  <1> QED
    BY <1>1, <1>4, <1>5, <1>6, <1>7, <1>8, <1>9 DEF Viewed

\* What threads wait in is part of the inductive invariant of this refinement.
CInv == IInv /\ Idle(s)

\* A thread that runs, or waits for one it resumed, is neither suspended nor failed and
\* has its body called; one that has yet to call it has status 0; and a coroutine of
\* status 0 that nobody runs is back at its first CallInfo.
THEOREM ThreadsIdle == Spec => []CInv
  <1>1. Init => CInv
    <2> SUFFICES ASSUME Init
                 PROVE  Idle(s)
      BY InitIInv DEF CInv
    <2>1. prog.host \in 0 .. MAXCCALLS - 1 /\ s = luaD_pcall(Start(prog.host), Main, FALSE)
      BY LuaCallAssumption DEF Init
    <2> QED
      BY <2>1, InitSeen, InitIdle
  <1>2. CInv /\ [Next]_vars => CInv'
    <2> SUFFICES ASSUME CInv, [Next]_vars
                 PROVE  CInv'
      OBVIOUS
    <2>1. IInv'
      BY NextIInv DEF CInv
    <2>2. CASE Next
      <3>1. Idle(s')
        BY <2>1, <2>2, NextKnows DEF CInv
      <3> QED
        BY <2>1, <3>1 DEF CInv, Idle
    <2>3. CASE UNCHANGED vars
      BY <2>1, <2>3 DEF CInv, vars
    <2> QED
      BY <2>2, <2>3
  <1> QED
    BY <1>1, <1>2, PTL DEF Spec

\* coroutine.status tells of every coroutine what it has been through: for any number of
\* coroutines and any limits, the stack of C calls, the statuses and the CallInfos of
\* lua_resume, lua_yield and the errors that pass through them implement threads of which
\* one runs, those that resumed it wait in order and only a suspended one can be resumed.
THEOREM CoroutinesImplemented == Spec => Coroutine
  <1>1. CInv /\ CInv' /\ [Next]_vars => [P!Next]_(P!vars)
    <2> SUFFICES ASSUME CInv, CInv', [Next]_vars
                 PROVE  [P!Next]_(P!vars)
      OBVIOUS
    <2>1. CASE Next
      <3>1. P!Next \/ (status' = status /\ resumer' = resumer)
        BY <2>1, NextRefines DEF CInv
      <3> QED
        BY <3>1 DEF P!vars, status, resumer
    <2>2. CASE UNCHANGED vars
      BY <2>2 DEF vars, P!vars
    <2> QED
      BY <2>1, <2>2
  <1> QED
    BY <1>1, InitRefines, ThreadsIdle, PTL DEF Spec, Coroutine, P!Spec

\* Who yields, in a step that is seen.
LEMMA YieldingSeen ==
    ASSUME NEW S, NEW R, Viewed(S, R), S \in State, Chained(S.C), NEW x \in Threads,
           S.th[x].status # "YIELD", R.th[x].status = "YIELD"
    PROVE  /\ S.C # << >> /\ S.C[Len(S.C)].kind = "resume" /\ S.C[Len(S.C)].th = x
           /\ R.C = SubSeq(S.C, 1, Len(S.C) - 1)
  <1>1. Marks(R)[x] # Marks(S)[x]
    BY MarkOther
  <1>2. Coroutines \subseteq Threads /\ S.C \in Seq(Activations)
    BY StateTypes DEF Threads
  <1>3. ~ Quiet(S, R) /\ ~ Finishes(S, R)
    BY <1>1 DEF Quiet, Finishes
  <1>4. ASSUME NEW co \in Threads, NEW n, NEW b, NEW p, p = <<n, b>>, n # "YIELD",
               Marks(R)[co] = p, \A y \in Threads : y # co => Marks(R)[y] = Marks(S)[y]
        PROVE  FALSE
    <2>1. x = co
      BY <1>1, <1>4
    <2>2. R.th[co].status = n
      BY <1>4, MarkOf
    <2> QED
      BY <1>4, <2>1, <2>2
  <1> DEFINE ok == "ok"
             no == FALSE
  <1>5. ok # "YIELD"
    OBVIOUS
  <1>6. ASSUME NEW co \in Coroutines, NEW b, Marks(R) = [Marks(S) EXCEPT ![co] = <<ok, b>>]
        PROVE  FALSE
    <2> DEFINE p == <<ok, b>>
    <2> HIDE DEF ok
    <2>1. co \in Threads /\ p = <<ok, b>> /\ Marks(R) = [Marks(S) EXCEPT ![co] = p]
      BY <1>2, <1>6
    <2> HIDE DEF p
    <2>2. Marks(R)[co] = p /\ \A y \in Threads : y # co => Marks(R)[y] = Marks(S)[y]
      BY <2>1, MarksDomain
    <2> QED
      BY <1>4, <1>5, <2>1, <2>2
  <1>7. ASSUME NEW co \in Coroutines, NEW m,
               \/ Becomes(S, R, co, m, <<"ok", TRUE>>)
               \/ Becomes(S, R, co, m, <<"ok", FALSE>>)
               \/ Enters(S, R, co, m)
        PROVE  FALSE
    <2>1. \/ Marks(R) = [Marks(S) EXCEPT ![co] = <<"ok", TRUE>>]
          \/ Marks(R) = [Marks(S) EXCEPT ![co] = <<"ok", FALSE>>]
      BY <1>7 DEF Becomes, Enters
    <2>2. CASE Marks(R) = [Marks(S) EXCEPT ![co] = <<"ok", TRUE>>]
      <3> DEFINE yes == TRUE
      <3>1. Marks(R) = [Marks(S) EXCEPT ![co] = <<ok, yes>>]
        BY <2>2
      <3> HIDE DEF ok, yes
      <3> QED
        BY <1>6, <3>1, Zenon
    <2>3. CASE Marks(R) = [Marks(S) EXCEPT ![co] = <<"ok", FALSE>>]
      <3>1. Marks(R) = [Marks(S) EXCEPT ![co] = <<ok, no>>]
        BY <2>3
      <3> HIDE DEF ok, no
      <3> QED
        BY <1>6, <3>1, Zenon
    <2> QED
      BY <2>1, <2>2, <2>3
  <1>8. ASSUME NEW m, Departs(S, R, m)
        PROVE  m = "YIELD" /\ x = Top(S.C) /\ S.C # << >>
    <2>1. <<Top(S.C), Top(R.C)>> \in By(S.C) /\ Marks(R) = [Marks(S) EXCEPT ![Top(S.C)] = <<m, no>>]
      BY <1>8 DEF Departs
    <2>2. Top(S.C) \in Coroutines /\ Top(S.C) \in On(S.C)
      BY <1>2, <2>1, ByOne
    <2>3. S.C # << >>
      BY <2>2 DEF On
    <2> DEFINE p == <<m, no>>
    <2> HIDE DEF no
    <2>4. /\ Top(S.C) \in Threads /\ Marks(R) = [Marks(S) EXCEPT ![Top(S.C)] = p]
          /\ p = <<m, no>>
      BY <1>2, <2>1, <2>2
    <2> HIDE DEF p
    <2>5. /\ Marks(R)[Top(S.C)] = p
          /\ \A y \in Threads : y # Top(S.C) => Marks(R)[y] = Marks(S)[y]
      BY <2>4, MarksDomain
    <2>6. m = "YIELD"
      BY <1>4, <2>4, <2>5
    <2> QED
      BY <1>1, <2>3, <2>5, <2>6
  <1>9. \A m \in Codes \cup {"ok"} : ~ Departs(S, R, m)
    BY <1>8 DEF Codes
  <1>10. /\ Departs(S, R, "YIELD")
         /\ S.C[Len(S.C)].kind = "resume"
         /\ R.C = SubSeq(S.C, 1, Len(S.C) - 1)
    BY <1>3, <1>7, <1>9 DEF Viewed
  <1> QED
    BY <1>8, <1>10 DEF Top

\* A coroutine yields only from the C call of lua_resume, which alone returns: for any
\* number of coroutines and any limits, what lua_yield's comparison of nCcalls with
\* baseCcalls lets through loses no call of a metamethod, of a C function or of pcall.
THEOREM YieldsLoseNoCall == Spec => YieldsNoCall
  <1> DEFINE Step == \A x \in Threads : (s.th[x].status # "YIELD" /\ s'.th[x].status = "YIELD")
                         => Last(s.C).kind = "resume" /\ Last(s.C).th = x /\ s'.C = Front(s.C)
  <1>1. CInv /\ CInv' /\ [Next]_vars => [Step]_vars
    <2> SUFFICES ASSUME CInv, CInv', Next, NEW x \in Threads,
                        s.th[x].status # "YIELD", s'.th[x].status = "YIELD"
                 PROVE  Last(s.C).kind = "resume" /\ Last(s.C).th = x /\ s'.C = Front(s.C)
      OBVIOUS
    <2>1. Viewed(s, s') /\ s \in State /\ Chained(s.C)
      BY NextKnows DEF CInv
    <2>2. /\ s.C # << >> /\ s.C[Len(s.C)].kind = "resume" /\ s.C[Len(s.C)].th = x
          /\ s'.C = SubSeq(s.C, 1, Len(s.C) - 1)
      BY <2>1, YieldingSeen
    <2> QED
      BY <2>2 DEF Last, Front
  <1> QED
    BY <1>1, ThreadsIdle, PTL DEF Spec, YieldsNoCall
=============================================================================
