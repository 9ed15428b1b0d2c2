-------------------------- MODULE AppSwitcher_proofs --------------------------
(***************************************************************************)
(* Proofs about the Alt+Tab overlay: its parts agree on whether it is up,  *)
(* the keyboard is given back whenever it is not, once shown it gets to    *)
(* the screen with one of its groups selected, and the groups are in the   *)
(* order in which they were focused.                                       *)
(***************************************************************************)
EXTENDS AppSwitcher, SequenceTheorems, WellFoundedInduction, TLAPS

Flags ==
    /\ visible \in BOOLEAN /\ active \in BOOLEAN /\ shown \in BOOLEAN /\ goDormant \in BOOLEAN

\* On the screen but not shown: the unmapping is on its way.
Leaving == surf = "mapped" /\ ~visible => goDormant \/ pc = "sync"

IInv == Flags /\ OneOpinion /\ Leaving /\ GrabReleased

\* What the change callback keeps, at any point of the loop but where it waits.
LEMMA NotifiedKeeps ==
    ASSUME NEW now \in BOOLEAN, IInv, pc # "start", Notified(now), active' = now,
           UNCHANGED <<surf, pc>>, pc # "poll"
    PROVE  IInv'
  BY DEF IInv, Flags, OneOpinion, Leaving, GrabReleased, Notified

\* The compositor, the user and other invocations touch none of it.
LEMMA WorldKeeps == ASSUME IInv, World PROVE IInv'
<1>1. UNCHANGED <<Client, surf>>
  BY DEF World, FocusChanges, Focus, Activate, TurnAlt, Bind, Open, Close, Press, PointAside
<1>2. QED
  BY <1>1 DEF Client, loop, manager, input, IInv, Flags, OneOpinion, Leaving, GrabReleased

\* Whatever the compositor sends, the handlers keep it.
LEMMA EventKeeps ==
    ASSUME IInv, HandleHead, pc \in {"dispatch", "sync"}
    PROVE  IInv'
<1> DEFINE e == Head(wire)
<1>0. IInv /\ pc # "start" /\ pc # "poll"
  OBVIOUS
<1>1. CASE OnConfigure(e)
  <2>1. UNCHANGED <<manager, input, pc>>
    BY <1>1 DEF OnConfigure
  <2>2. surf' = surf \/ (visible /\ surf' = "mapped")
    BY <1>1 DEF OnConfigure, Painted
  <2>3. QED
    BY <1>0, <2>1, <2>2 DEF manager, input, IInv, Flags, OneOpinion, Leaving, GrabReleased
<1>2. CASE OnWindow(e)
  <2>1. UNCHANGED <<input, pc, surf>>
    BY <1>2 DEF OnWindow
  <2>2. Notified(visible) \/ UNCHANGED manager
    BY <1>2 DEF OnWindow, WindowsChanged, Told
  <2>3. CASE Notified(visible)
    <3>1. visible \in BOOLEAN /\ active' = visible
      BY <1>0, <2>1 DEF IInv, Flags, OneOpinion, input
    <3>2. QED
      BY <1>0, <2>1, <2>3, <3>1, NotifiedKeeps
  <2>4. CASE UNCHANGED manager
    BY <1>0, <2>1, <2>4 DEF manager, input, IInv, Flags, OneOpinion, Leaving, GrabReleased
  <2>5. QED
    BY <2>2, <2>3, <2>4
<1>3. CASE OnModifiers(e)
  <2>1. UNCHANGED <<pc, surf>>
    BY <1>3 DEF OnModifiers
  <2>2. (Notified(FALSE) /\ active' = FALSE) \/ UNCHANGED <<active, manager>>
    BY <1>3 DEF OnModifiers, Confirm, Hide, HoldingAfter
  <2>3. CASE Notified(FALSE) /\ active' = FALSE
    BY <1>0, <2>1, <2>3, NotifiedKeeps
  <2>4. CASE UNCHANGED <<active, manager>>
    BY <1>0, <2>1, <2>4 DEF manager, IInv, Flags, OneOpinion, Leaving, GrabReleased
  <2>5. QED
    BY <2>2, <2>3, <2>4
<1>4. CASE OnKey(e)
  <2>1. UNCHANGED <<pc, surf>>
    BY <1>4 DEF OnKey
  <2>2. \/ Notified(FALSE) /\ active' = FALSE
        \/ Notified(visible) /\ UNCHANGED input
        \/ UNCHANGED <<manager, input>>
    BY <1>4 DEF OnKey, Confirm, Hide, HoldingAfter, Select
  <2>3. CASE Notified(FALSE) /\ active' = FALSE
    BY <1>0, <2>1, <2>3, NotifiedKeeps
  <2>4. CASE Notified(visible) /\ UNCHANGED input
    <3>1. visible \in BOOLEAN /\ active' = visible
      BY <1>0, <2>4 DEF IInv, Flags, OneOpinion, input
    <3>2. QED
      BY <1>0, <2>1, <2>4, <3>1, NotifiedKeeps
  <2>5. CASE UNCHANGED <<manager, input>>
    BY <1>0, <2>1, <2>5 DEF manager, input, IInv, Flags, OneOpinion, Leaving, GrabReleased
  <2>6. QED
    BY <2>2, <2>3, <2>4, <2>5
<1>5. CASE OnKeyAfterwards(e)
  <2>1. CASE Trigger(FALSE) /\ UNCHANGED <<pc, surf>>
    <3>1. Notified(TRUE) /\ active' = TRUE
      BY <2>1 DEF Trigger, HoldingAfter
    <3>2. QED
      BY <1>0, <2>1, <3>1, NotifiedKeeps
  <2>2. CASE pc' = "gone" /\ surf' = "reset" /\ UNCHANGED <<manager, input>>
    BY <1>0, <2>2 DEF manager, input, IInv, Flags, OneOpinion, Leaving, GrabReleased
  <2>3. CASE UNCHANGED <<manager, input, pc, surf>>
    BY <1>0, <2>3 DEF manager, input, IInv, Flags, OneOpinion, Leaving, GrabReleased
  <2>4. QED
    BY <1>5, <2>1, <2>2, <2>3 DEF OnKeyAfterwards
<1>6. CASE OnClick(e)
  BY <1>0, <1>6 DEF OnClick, manager, input, IInv, Flags, OneOpinion, Leaving, GrabReleased
<1>7. QED
  BY <1>1, <1>2, <1>3, <1>4, <1>5, <1>6 DEF HandleHead

\* Showing never takes the surface from the screen.
LEMMA ShowFacts ==
    ASSUME NEW far \in BOOLEAN, Show(far)
    PROVE  Notified(TRUE) /\ active' = TRUE
  BY DEF Show, Trigger, HoldingAfter

\* A press that is answered keeps it.
LEMMA AnswerKeeps ==
    ASSUME NEW far \in BOOLEAN, IInv, Answer(far), pc \in {"dispatch", "reverse"},
           pc' \in {"reverse", "render"}
    PROVE  IInv'
<1>1. CASE ~visible /\ Show(far)
  <2>1. Notified(TRUE) /\ active' = TRUE
    BY <1>1, ShowFacts
  <2>2. QED
    BY <2>1 DEF Notified, IInv, Flags, OneOpinion, Leaving, GrabReleased
<1>2. CASE visible /\ ~(~visible /\ Show(far))
  <2>1. (Notified(visible) \/ UNCHANGED manager) /\ UNCHANGED <<input, surf>>
    BY <1>2 DEF Answer, Select
  <2>2. QED
    BY <1>2, <2>1 DEF Notified, manager, input, IInv, Flags, OneOpinion, Leaving, GrabReleased
<1>3. QED
  BY <1>1, <1>2 DEF Answer

\* Every step of the loop keeps it.
LEMMA LoopKeeps == ASSUME IInv, Loop PROVE IInv'
<1>1. CASE Start
  <2>1. PICK far \in BOOLEAN : Show(far)
    BY <1>1 DEF Start
  <2>2. Notified(TRUE) /\ active' = TRUE /\ pc' = "render"
    BY <1>1, <2>1, ShowFacts DEF Start
  <2>3. QED
    BY <2>2 DEF Notified, IInv, Flags, OneOpinion, Leaving, GrabReleased
<1>2. CASE Poll
  BY <1>2 DEF Poll, manager, input, IInv, Flags, OneOpinion, Leaving, GrabReleased
<1>3. CASE Dispatch
  BY <1>3, EventKeeps DEF Dispatch
<1>4. CASE Forward
  <2>1. pc = "dispatch" /\ pc' = "reverse"
    BY <1>4 DEF Forward
  <2>2. CASE Answer(FALSE)
    BY <2>1, <2>2, AnswerKeeps
  <2>3. CASE UNCHANGED <<surf, manager, input>>
    BY <2>1, <2>3 DEF manager, input, IInv, Flags, OneOpinion, Leaving, GrabReleased
  <2>4. QED
    BY <1>4, <2>2, <2>3 DEF Forward
<1>5. CASE Reversed
  <2>1. pc = "reverse" /\ pc' = "render"
    BY <1>5 DEF Reversed
  <2>2. CASE Answer(TRUE)
    BY <2>1, <2>2, AnswerKeeps
  <2>3. CASE UNCHANGED <<surf, manager, input>>
    BY <2>1, <2>3 DEF manager, input, IInv, Flags, OneOpinion, Leaving, GrabReleased
  <2>4. QED
    BY <1>5, <2>2, <2>3 DEF Reversed
<1>6. CASE Render
  <2>1. surf' = surf \/ visible
    BY <1>6 DEF Render, Painted
  <2>2. QED
    BY <1>6, <2>1 DEF Render, input, IInv, Flags, OneOpinion, Leaving, GrabReleased
<1>7. CASE Unmap
  BY <1>7 DEF Unmap, manager, input, IInv, Flags, OneOpinion, Leaving, GrabReleased
<1>8. QED
  BY <1>1, <1>2, <1>3, <1>4, <1>5, <1>6, <1>7 DEF Loop

\* So it always holds.
LEMMA Inductive == Spec => []IInv
<1>1. Init => IInv
  BY DEF Init, IInv, Flags, OneOpinion, Leaving, GrabReleased
<1>2. IInv /\ [Next]_vars => IInv'
  <2> SUFFICES ASSUME IInv, [Next]_vars PROVE IInv'
    OBVIOUS
  <2>1. CASE World
    BY <2>1, WorldKeeps
  <2>2. CASE Loop
    BY <2>2, LoopKeeps
  <2>3. CASE SyncDispatch
    BY <2>3, EventKeeps DEF SyncDispatch
  <2>4. CASE UNCHANGED vars
    BY <2>4 DEF vars, loop, manager, input, IInv, Flags, OneOpinion, Leaving, GrabReleased
  <2>5. QED
    BY <2>1, <2>2, <2>3, <2>4 DEF Next
<1>3. QED
  BY <1>1, <1>2, PTL DEF Spec

\* The input controller, the manager and the change callback agree on whether the overlay is up,
\* for any windows and any number of presses.
THEOREM Agreement == Spec => []OneOpinion
  BY Inductive, PTL DEF IInv

\* And when the loop waits with the overlay hidden, it does not hold the keyboard.
THEOREM KeyboardReturned == Spec => []GrabReleased
  BY Inductive, PTL DEF IInv

-----------------------------------------------------------------------------
(***************************************************************************)
(* Recursive functions: the library's induction, for sets.                 *)
(***************************************************************************)

\* A set of numbers that is not empty has a least one.
LEMMA Least == ASSUME NEW T, T \subseteq Nat, T # {} PROVE \E x \in T : \A y \in T : x <= y
<1> DEFINE R == OpToRel(<, Nat)
<1>1. IsWellFoundedOn(R, Nat)
  BY NatLessThanWellFounded
<1>2. PICK x \in T : \A y \in T : ~(<<y, x>> \in R)
  <2> HIDE DEF R
  <2> QED
    BY <1>1, WFMin
<1>3. \A y \in T : ~(y < x)
  BY <1>2 DEF OpToRel
<1>4. QED
  BY <1>3

\* Induction, for a set.
LEMMA Induction == ASSUME NEW A, 0 \in A, \A n \in Nat : n \in A => n + 1 \in A PROVE Nat \subseteq A
<1> SUFFICES ASSUME Nat \ A # {} PROVE FALSE
  OBVIOUS
<1>1. PICK x \in Nat \ A : \A y \in Nat \ A : x <= y
  BY Least
<1>2. x # 0 /\ x - 1 \in Nat /\ x = (x - 1) + 1 /\ ~(x <= x - 1)
  OBVIOUS
<1>3. x - 1 \in A
  BY <1>1, <1>2
<1>4. QED
  BY <1>1, <1>2, <1>3

\* f begins with b and goes from each value to the next as g says.
Follows(f, N, T, b, g) ==
    f \in [0..N -> T] /\ f[0] = b /\ \A i \in 1..N : f[i] = g[<<i, f[i - 1]>>]

\* Such a function exists: what a recursive function is defined by has a meaning.
LEMMA Recursion ==
    ASSUME NEW N \in Nat, NEW T, NEW b \in T, NEW g \in [(1..N) \X T -> T]
    PROVE  \E f : Follows(f, N, T, b, g)
<1> DEFINE Upto(f, n) == f[0] = b /\ \A i \in 1..n : f[i] = g[<<i, f[i - 1]>>]
           Good == {n \in Nat : n <= N => \E f \in [0..n -> T] : Upto(f, n)}
<1>1. 0 \in Good
  <2>1. [i \in 0..0 |-> b] \in [0..0 -> T] /\ Upto([i \in 0..0 |-> b], 0)
    OBVIOUS
  <2>2. QED
    BY <2>1
<1>2. ASSUME NEW n \in Nat, n \in Good PROVE n + 1 \in Good
  <2> SUFFICES ASSUME n + 1 <= N PROVE \E f \in [0..(n + 1) -> T] : Upto(f, n + 1)
    OBVIOUS
  <2>1. PICK h \in [0..n -> T] : Upto(h, n)
    BY <1>2
  <2> DEFINE f == [i \in 0..(n + 1) |-> IF i = n + 1 THEN g[<<n + 1, h[n]>>] ELSE h[i]]
  <2>2. g[<<n + 1, h[n]>>] \in T
    OBVIOUS
  <2>3. f \in [0..(n + 1) -> T]
    BY <2>2
  <2>4. ASSUME NEW i \in 1..(n + 1) PROVE f[i] = g[<<i, f[i - 1]>>]
    <3>1. f[i - 1] = h[i - 1] /\ i - 1 \in 0..n
      OBVIOUS
    <3>2. CASE i = n + 1
      <4>1. f[n + 1] = g[<<n + 1, h[n]>>] /\ i - 1 = n
        BY <3>2
      <4>2. QED
        BY <3>1, <3>2, <4>1
    <3>3. CASE i # n + 1
      <4>1. i \in 1..n /\ f[i] = h[i]
        BY <3>3
      <4>2. h[i] = g[<<i, h[i - 1]>>]
        BY <2>1, <4>1
      <4>3. QED
        BY <3>1, <4>1, <4>2
    <3>4. QED
      BY <3>2, <3>3
  <2>5. f[0] = b
    BY <2>1
  <2>6. Upto(f, n + 1)
    BY <2>4, <2>5
  <2>7. QED
    BY <2>3, <2>6
<1>3. N \in Good
  <2> HIDE DEF Good
  <2>1. QED
    BY <1>1, <1>2, Induction
<1>4. QED
  BY <1>3 DEF Follows

\* Induction over sequences, for a set of them.
LEMMA SeqInduction ==
    ASSUME NEW S, NEW G, <<>> \in G, \A s \in Seq(S), x \in S : s \in G => Append(s, x) \in G
    PROVE  Seq(S) \subseteq G
<1> DEFINE A == {n \in Nat : \A s \in Seq(S) : Len(s) = n => s \in G}
<1>1. 0 \in A
  BY EmptySeq
<1>2. ASSUME NEW n \in Nat, n \in A PROVE n + 1 \in A
  <2> SUFFICES ASSUME NEW s \in Seq(S), Len(s) = n + 1 PROVE s \in G
    OBVIOUS
  <2>1. PICK t \in Seq(S), x \in S : s = Append(t, x)
    BY SequenceEmptyOrAppend
  <2>2. Len(t) = n
    BY <2>1
  <2>3. QED
    BY <1>2, <2>1, <2>2
<1>3. Nat \subseteq A
  <2> HIDE DEF A
  <2>1. QED
    BY <1>1, <1>2, Induction
<1>4. QED
  BY <1>3

\* How Within goes through a sequence.
Through(F, s, A, S) ==
    /\ F \in [0..Len(s) -> Seq(S)] /\ F[0] = <<>> /\ Within(s, A) = F[Len(s)]
    /\ \A i \in 1..Len(s) : F[i] = IF s[i] \in A THEN Append(F[i - 1], s[i]) ELSE F[i - 1]

LEMMA WithinSteps == ASSUME NEW S, NEW s \in Seq(S), NEW A PROVE \E F : Through(F, s, A, S)
<1> DEFINE N == Len(s)
           Step(i, q) == IF s[i] \in A THEN Append(q, s[i]) ELSE q
           Is(f) == [i \in 0..N |-> IF i = 0 THEN <<>>
                                    ELSE IF s[i] \in A THEN Append(f[i - 1], s[i]) ELSE f[i - 1]]
           F == CHOOSE f : f = Is(f)
<1>1. N \in Nat /\ <<>> \in Seq(S) /\ \A i \in 1..N : s[i] \in S
  OBVIOUS
<1>2. \A i \in 1..N, q \in Seq(S) : Step(i, q) \in Seq(S)
  BY <1>1
<1>3. \E f : f = Is(f) /\ f \in [0..N -> Seq(S)]
  <2> DEFINE T == Seq(S)
             e == <<>>
             g == [p \in (1..N) \X T |-> Step(p[1], p[2])]
  <2>1. N \in Nat /\ e \in T /\ \A i \in 1..N, q \in T : Step(i, q) \in T
    BY <1>1, <1>2
  <2> HIDE DEF N, T, Step, e
  <2>2. g \in [(1..N) \X T -> T] /\ \A i \in 1..N, q \in T : g[<<i, q>>] = Step(i, q)
    BY <2>1
  <2> HIDE DEF g
  <2>3. PICK f : Follows(f, N, T, e, g)
    BY <2>1, <2>2, Recursion
  <2>4. f \in [0..N -> T] /\ f[0] = e
    BY <2>3 DEF Follows
  <2>5. ASSUME NEW i \in 1..N PROVE f[i] = Step(i, f[i - 1])
    <3>1. i - 1 \in 0..N
      BY <2>1
    <3>2. QED
      BY <2>2, <2>3, <2>4, <3>1 DEF Follows
  <2>6. ASSUME NEW i \in 0..N PROVE f[i] = Is(f)[i]
    <3>1. CASE i = 0
      BY <2>4, <3>1 DEF e
    <3>2. CASE i # 0
      <4>1. i \in 1..N
        BY <2>1, <3>2
      <4>2. f[i] = Step(i, f[i - 1])
        BY <2>5, <4>1
      <4>3. QED
        BY <3>2, <4>2 DEF Step
    <3>3. QED
      BY <3>1, <3>2
  <2>7. DOMAIN f = 0..N /\ f = [i \in 0..N |-> f[i]]
    BY <2>4
  <2>8. f = Is(f)
    BY <2>6, <2>7
  <2>9. QED
    BY <2>4, <2>8 DEF T
<1>4. F = Is(F)
  BY <1>3
<1>5. Within(s, A) = F[N]
  BY DEF Within
<1> HIDE DEF F
<1>6. DOMAIN F = 0..N /\ F[0] = <<>>
  BY <1>1, <1>4
<1>7. ASSUME NEW i \in 1..N PROVE F[i] = Step(i, F[i - 1])
  <2>1. i \in 0..N /\ i # 0
    BY <1>1
  <2>2. QED
    BY <1>4, <2>1
<1>8. \A i \in 0..N : F[i] \in Seq(S)
  <2> DEFINE G == {n \in Nat : n <= N => F[n] \in Seq(S)}
  <2>1. 0 \in G
    BY <1>1, <1>6
  <2>2. ASSUME NEW n \in Nat, n \in G PROVE n + 1 \in G
    <3> SUFFICES ASSUME n + 1 <= N PROVE F[n + 1] \in Seq(S)
      OBVIOUS
    <3>1. n + 1 \in 1..N /\ (n + 1) - 1 = n /\ F[n] \in Seq(S)
      BY <1>1, <2>2
    <3>2. F[n + 1] = Step(n + 1, F[n])
      BY <1>7, <3>1
    <3> HIDE DEF Step, N
    <3>3. QED
      BY <1>2, <3>1, <3>2
  <2>3. Nat \subseteq G
    <3> HIDE DEF G
    <3>1. QED
      BY <2>1, <2>2, Induction
  <2>4. QED
    BY <1>1, <2>3
<1>9. F = [i \in 0..N |-> F[i]]
  BY <1>4
<1>10. F \in [0..N -> Seq(S)]
  BY <1>8, <1>9
<1>11. QED
  BY <1>5, <1>6, <1>7, <1>10 DEF Through

\* The entries of a sequence that are in a set make a sequence of the same kind.
LEMMA WithinType ==
    ASSUME NEW S, NEW s \in Seq(S), NEW A
    PROVE  Within(s, A) \in Seq(S)
<1>1. PICK F : Through(F, s, A, S)
  BY WithinSteps
<1>2. Len(s) \in 0..Len(s)
  OBVIOUS
<1>3. QED
  BY <1>1, <1>2 DEF Through

-----------------------------------------------------------------------------
(***************************************************************************)
(* The window list and the groups, and that one is selected.               *)
(***************************************************************************)

Entries == [win : Wins, named : BOOLEAN, active : BOOLEAN]

LEMMA KeyType == \A e \in Entries : KeyOf(e) \in Keys
  BY DEF Entries, KeyOf, Keys, Apps

\* How KeysIn goes through a window list.
KeysThrough(F, c) ==
    /\ F \in [0..Len(c) -> Seq(Keys)] /\ F[0] = <<>> /\ KeysIn(c) = F[Len(c)]
    /\ \A i \in 1..Len(c) : F[i] = IF \E j \in 1..(i - 1) : KeyOf(c[j]) = KeyOf(c[i]) THEN F[i - 1]
                                   ELSE Append(F[i - 1], KeyOf(c[i]))

LEMMA KeysSteps == ASSUME NEW c \in Seq(Entries) PROVE \E F : KeysThrough(F, c)
<1> DEFINE N == Len(c)
           Old(i) == \E j \in 1..(i - 1) : KeyOf(c[j]) = KeyOf(c[i])
           Step(i, q) == IF Old(i) THEN q ELSE Append(q, KeyOf(c[i]))
           Is(f) == [i \in 0..N |-> IF i = 0 THEN <<>>
                                    ELSE IF Old(i) THEN f[i - 1] ELSE Append(f[i - 1], KeyOf(c[i]))]
           F == CHOOSE f : f = Is(f)
<1>1. N \in Nat /\ <<>> \in Seq(Keys) /\ \A i \in 1..N : KeyOf(c[i]) \in Keys
  BY KeyType
<1>2. \A i \in 1..N, q \in Seq(Keys) : Step(i, q) \in Seq(Keys)
  <2> HIDE DEF Old
  <2>1. QED
    BY <1>1
<1>3. \E f : f = Is(f)
  <2> DEFINE T == Seq(Keys)
             e == <<>>
             g == [p \in (1..N) \X T |-> Step(p[1], p[2])]
  <2>1. N \in Nat /\ e \in T /\ \A i \in 1..N, q \in T : Step(i, q) \in T
    BY <1>1, <1>2
  <2> HIDE DEF N, T, Step, e, Old
  <2>2. g \in [(1..N) \X T -> T] /\ \A i \in 1..N, q \in T : g[<<i, q>>] = Step(i, q)
    BY <2>1
  <2> HIDE DEF g
  <2>3. PICK f : Follows(f, N, T, e, g)
    BY <2>1, <2>2, Recursion
  <2>4. f \in [0..N -> T] /\ f[0] = e
    BY <2>3 DEF Follows
  <2>5. ASSUME NEW i \in 1..N PROVE f[i] = Step(i, f[i - 1])
    <3>1. i - 1 \in 0..N
      BY <2>1
    <3>2. QED
      BY <2>2, <2>3, <2>4, <3>1 DEF Follows
  <2>6. ASSUME NEW i \in 0..N PROVE f[i] = Is(f)[i]
    <3>1. CASE i = 0
      BY <2>4, <3>1 DEF e
    <3>2. CASE i # 0
      <4>1. i \in 1..N
        BY <2>1, <3>2
      <4>2. f[i] = Step(i, f[i - 1])
        BY <2>5, <4>1
      <4>3. QED
        BY <3>2, <4>2 DEF Step
    <3>3. QED
      BY <3>1, <3>2
  <2>7. DOMAIN f = 0..N /\ f = [i \in 0..N |-> f[i]]
    BY <2>4
  <2>8. f = Is(f)
    BY <2>6, <2>7
  <2>9. QED
    BY <2>8
<1>4. F = Is(F)
  BY <1>3
<1>5. KeysIn(c) = F[N]
  BY DEF KeysIn
<1> HIDE DEF F, Old
<1>6. DOMAIN F = 0..N /\ F[0] = <<>>
  BY <1>1, <1>4
<1>7. ASSUME NEW i \in 1..N PROVE F[i] = Step(i, F[i - 1])
  <2>1. i \in 0..N /\ i # 0
    BY <1>1
  <2>2. QED
    BY <1>4, <2>1
<1>8. \A i \in 0..N : F[i] \in Seq(Keys)
  <2> DEFINE G == {n \in Nat : n <= N => F[n] \in Seq(Keys)}
  <2>1. 0 \in G
    BY <1>1, <1>6
  <2>2. ASSUME NEW n \in Nat, n \in G PROVE n + 1 \in G
    <3> SUFFICES ASSUME n + 1 <= N PROVE F[n + 1] \in Seq(Keys)
      OBVIOUS
    <3>1. n + 1 \in 1..N /\ (n + 1) - 1 = n /\ F[n] \in Seq(Keys)
      BY <1>1, <2>2
    <3>2. F[n + 1] = Step(n + 1, F[n])
      BY <1>7, <3>1
    <3> HIDE DEF Step, N
    <3>3. QED
      BY <1>2, <3>1, <3>2
  <2>3. Nat \subseteq G
    <3> HIDE DEF G
    <3>1. QED
      BY <2>1, <2>2, Induction
  <2>4. QED
    BY <1>1, <2>3
<1>9. F = [i \in 0..N |-> F[i]]
  BY <1>4
<1>10. F \in [0..N -> Seq(Keys)]
  BY <1>8, <1>9
<1>11. QED
  BY <1>5, <1>6, <1>7, <1>10 DEF KeysThrough, Old

\* The keys of a window list make a sequence of keys.
LEMMA KeysType ==
    ASSUME NEW c \in Seq(Entries)
    PROVE  KeysIn(c) \in Seq(Keys)
<1>1. PICK F : KeysThrough(F, c)
  BY KeysSteps
<1>2. Len(c) \in 0..Len(c)
  OBVIOUS
<1>3. QED
  BY <1>1, <1>2 DEF KeysThrough

\* Putting a key first keeps the kind of the sequence, whatever the key is.
LEMMA HeadType ==
    ASSUME NEW S, NEW ks \in Seq(S), NEW k
    PROVE  ToHead(ks, k) \in Seq(S)
<1>1. CASE Contains(ks, k)
  <2>1. k \in S
    BY <1>1 DEF Contains
  <2>2. Within(ks, ToSet(ks) \ {k}) \in Seq(S)
    BY WithinType
  <2>3. QED
    BY <1>1, <2>1, <2>2 DEF ToHead
<1>2. CASE ~Contains(ks, k)
  BY <1>2 DEF ToHead
<1>3. QED
  BY <1>1, <1>2

\* rebuild_groups makes groups of what it is given.
LEMMA RebuiltType ==
    ASSUME NEW keys \in Seq(Keys), NEW lit, groups \in Seq(Keys)
    PROVE  Rebuilt(keys, lit) \in Seq(Keys)
<1> DEFINE fresh == Within(keys, ToSet(keys) \ ToSet(groups))
           sorted == Reverse(fresh) \o Within(groups, ToSet(keys))
<1>1. fresh \in Seq(Keys) /\ Within(groups, ToSet(keys)) \in Seq(Keys)
  BY WithinType
<1>2. \A s \in Seq(Keys) : Reverse(s) \in Seq(Keys)
  BY DEF Reverse
<1>3. sorted \in Seq(Keys)
  BY <1>1, <1>2
<1> HIDE DEF sorted
<1>4. \A k : ToHead(sorted, k) \in Seq(Keys)
  BY <1>3, HeadType
<1>5. QED
  BY <1>3, <1>4 DEF Rebuilt, sorted

\* One of the groups is selected, if there are any.
Listing ==
    /\ cache \in Seq(Entries) /\ groups \in Seq(Keys) /\ selected \in Nat
    /\ groups # <<>> => selected < Len(groups)

LEMMA ChangedKeeps ==
    ASSUME Listing, NEW c \in Seq(Entries), NEW e, WindowsChanged(c, e)
    PROVE  Listing'
<1>1. cache' = c /\ selected' = Clamped(Len(groups'))
  BY DEF WindowsChanged
<1>2. groups' \in Seq(Keys)
  <2>1. PICK keys \in {KeysIn(cache')}, lit \in {LitIn(cache')} :
           \E g \in {Rebuilt(keys, lit)} :
              groups' = IF e.active /\ e.named THEN ToHead(g, AppOf[e.win]) ELSE g
    BY DEF WindowsChanged
  <2>2. Rebuilt(keys, lit) \in Seq(Keys)
    BY <1>1, <2>1, KeysType, RebuiltType DEF Listing
  <2>3. QED
    BY <2>1, <2>2, HeadType
<1>3. Len(groups') \in Nat /\ (groups' # <<>> => Len(groups') > 0)
  BY <1>2
<1>4. QED
  BY <1>1, <1>2, <1>3 DEF Listing, Clamped

LEMMA TriggerKeeps ==
    ASSUME Listing, NEW far \in BOOLEAN, Trigger(far), UNCHANGED cache
    PROVE  Listing'
<1>1. groups' \in Seq(Keys)
  <2>1. PICK keys \in {KeysIn(cache)}, lit \in {LitIn(cache)} : groups' = Rebuilt(keys, lit)
    BY DEF Trigger
  <2>2. QED
    BY <2>1, KeysType, RebuiltType DEF Listing
<1>2. Len(groups') \in Nat /\ (groups' # <<>> => Len(groups') > 0)
  BY <1>1
<1>3. selected' = IF Len(groups') > 1 THEN (IF far THEN Len(groups') - 1 ELSE 1) ELSE 0
  BY DEF Trigger
<1>4. QED
  BY <1>1, <1>2, <1>3 DEF Listing

LEMMA SelectKeeps ==
    ASSUME Listing, groups # <<>>, NEW i \in {Next_, Previous}, Select(i), UNCHANGED cache
    PROVE  Listing'
<1>1. Len(groups) \in Nat /\ Len(groups) > 0 /\ selected \in Nat
  BY DEF Listing
<1>2. i \in Nat /\ i < Len(groups)
  BY <1>1 DEF Next_, Previous
<1>3. groups' = groups /\ selected' = i
  BY DEF Select
<1>4. QED
  BY <1>2, <1>3 DEF Listing

\* What a window event names.
LEMMA EventTypes ==
    ASSUME NEW e \in Events
    PROVE  /\ e.event \in {"toplevel", "app_id", "state", "closed"} => e.win \in Wins
           /\ e.event = "state" => e.on \in BOOLEAN
<1> DEFINE OfWindow(w) == {Toplevel(w), AppId(w), State(w, TRUE), State(w, FALSE), Closed(w)}
           A == UNION {OfWindow(w) : w \in Wins}
           B == {Mods(TRUE), Mods(FALSE), Configure, Click}
           C == {Key(k) : k \in KeyPresses}
<1>1. Events = A \cup B \cup C
  BY Zenon DEF Events
<1>2. CASE e \in A
  <2>1. PICK w \in Wins : e \in OfWindow(w)
    BY <1>2
  <2>2. CASE e = Toplevel(w) \/ e = AppId(w) \/ e = Closed(w)
    BY <2>2 DEF Toplevel, AppId, Closed
  <2>3. CASE e = State(w, TRUE) \/ e = State(w, FALSE)
    <3>1. e.event = "state" /\ e.win = w
      BY <2>3 DEF State
    <3>2. State(w, TRUE).on = TRUE /\ State(w, FALSE).on = FALSE
      BY DEF State
    <3>3. e.on = TRUE \/ e.on = FALSE
      BY <2>3, <3>2, Zenon
    <3>4. QED
      BY <3>1, <3>3, Zenon
  <2>4. QED
    BY <2>1, <2>2, <2>3
<1>3. CASE e \in B \cup C
  BY <1>3 DEF Mods, Key, Configure, Click
<1> HIDE DEF A, B, C
<1>4. QED
  BY <1>1, <1>2, <1>3

\* Window events keep a selection.
LEMMA WindowKeeps ==
    ASSUME Listing, NEW e \in Events, OnWindow(e)
    PROVE  Listing'
<1>1. ASSUME NEW w \in Wins, NEW named \in BOOLEAN, NEW on \in BOOLEAN, Told(w, named, on)
      PROVE  Listing'
  <2> DEFINE c == [i \in DOMAIN cache |-> IF cache[i].win = w
                 THEN [win |-> w, named |-> named \/ cache[i].named, active |-> on] ELSE cache[i]]
  <2>1. cache \in Seq(Entries)
    BY DEF Listing
  <2>2. ASSUME NEW i \in DOMAIN cache PROVE c[i] \in Entries
    <3>1. cache[i] \in Entries
      BY <2>1
    <3>2. (named \/ cache[i].named) \in BOOLEAN
      OBVIOUS
    <3>3. [win |-> w, named |-> named \/ cache[i].named, active |-> on] \in Entries
      BY <3>2 DEF Entries
    <3>4. QED
      BY <3>1, <3>3
  <2>3. c \in Seq(Entries)
    BY <2>1, <2>2
  <2>4. \E f : WindowsChanged(c, f)
    BY <1>1 DEF Told
  <2> HIDE DEF c
  <2>5. QED
    BY <2>3, <2>4, ChangedKeeps
<1>2. CASE e.event = "toplevel"
  <2> DEFINE new == [win |-> e.win, named |-> FALSE, active |-> FALSE]
  <2>1. new \in Entries /\ cache \in Seq(Entries)
    BY <1>2, EventTypes DEF Entries, Listing
  <2>2. Append(cache, new) \in Seq(Entries)
    BY <2>1
  <2>3. WindowsChanged(Append(cache, new), new)
    BY <1>2 DEF OnWindow
  <2> HIDE DEF new
  <2>4. QED
    BY <2>2, <2>3, ChangedKeeps
<1>3. CASE e.event = "app_id"
  <2>1. Told(e.win, TRUE, IsActive(e.win)) /\ e.win \in Wins
    BY <1>3, EventTypes DEF OnWindow
  <2>2. IsActive(e.win) \in BOOLEAN
    BY DEF IsActive
  <2>3. QED
    BY <1>1, <2>1, <2>2
<1>4. CASE e.event = "state"
  <2>1. e.win \in Wins /\ e.on \in BOOLEAN
    BY <1>4, EventTypes
  <2>2. Told(e.win, FALSE, e.on) \/ UNCHANGED <<cache, manager>>
    BY <1>4 DEF OnWindow
  <2>3. CASE UNCHANGED <<cache, manager>>
    BY <2>3 DEF Listing, manager
  <2>4. QED
    BY <1>1, <2>1, <2>2, <2>3
<1>5. CASE e.event = "closed"
  <2> DEFINE c == Within(cache, {f \in ToSet(cache) : f.win # e.win})
  <2>1. c \in Seq(Entries)
    BY WithinType DEF Listing
  <2>2. \E f : WindowsChanged(c, f)
    BY <1>5 DEF OnWindow
  <2> HIDE DEF c
  <2>3. QED
    BY <2>1, <2>2, ChangedKeeps
<1>6. QED
  BY <1>2, <1>3, <1>4, <1>5 DEF OnWindow

\* Every step keeps it.
LEMMA HandledKeeps == ASSUME Listing, HandleHead, wire \in Seq(Events) PROVE Listing'
<1> DEFINE e == Head(wire)
<1>1. e \in Events
  BY DEF HandleHead
<1> HIDE DEF e
<1>2. CASE OnConfigure(e)
  BY <1>2 DEF OnConfigure, manager, Listing
<1>3. CASE OnWindow(e)
  BY <1>1, <1>3, WindowKeeps
<1>4. CASE OnModifiers(e)
  <2>1. UNCHANGED <<cache, groups, selected>>
    BY <1>4 DEF OnModifiers, Confirm, Hide, manager
  <2>2. QED
    BY <2>1 DEF Listing
<1>5. CASE OnKey(e)
  <2>1. UNCHANGED cache
    BY <1>5 DEF OnKey
  <2>2. \/ groups # <<>> /\ (Select(Next_) \/ Select(Previous))
        \/ UNCHANGED <<groups, selected>>
    BY <1>5 DEF OnKey, Confirm, Hide, manager
  <2>3. CASE UNCHANGED <<groups, selected>>
    BY <2>1, <2>3 DEF Listing
  <2>4. QED
    BY <2>1, <2>2, <2>3, SelectKeeps
<1>6. CASE OnKeyAfterwards(e)
  <2>1. UNCHANGED cache /\ (Trigger(FALSE) \/ UNCHANGED manager)
    BY <1>6 DEF OnKeyAfterwards
  <2>2. CASE UNCHANGED manager
    BY <2>1, <2>2 DEF Listing, manager
  <2>3. QED
    BY <2>1, <2>2, TriggerKeeps
<1>7. CASE OnClick(e)
  BY <1>7 DEF OnClick, manager, Listing
<1>8. QED
  BY <1>2, <1>3, <1>4, <1>5, <1>6, <1>7 DEF HandleHead, e

LEMMA AnsweredKeeps ==
    ASSUME Listing, NEW far \in BOOLEAN, Answer(far), UNCHANGED cache
    PROVE  Listing'
<1>1. CASE visible /\ groups # <<>>
  <2>1. Select(Next_) \/ Select(Previous)
    BY <1>1 DEF Answer
  <2>2. QED
    BY <1>1, <2>1, SelectKeeps
<1>2. CASE visible /\ groups = <<>>
  BY <1>2 DEF Answer, manager, Listing
<1>3. CASE ~visible
  BY <1>3, TriggerKeeps DEF Answer, Show
<1>4. QED
  BY <1>1, <1>2, <1>3

LEMMA ListingKeeps == ASSUME Listing, [Next]_vars, wire \in Seq(Events) PROVE Listing'
<1>1. CASE World
  <2>1. UNCHANGED Client
    BY <1>1 DEF World, FocusChanges, Focus, Activate, TurnAlt, Bind, Open, Close, Press, PointAside
  <2>2. QED
    BY <2>1 DEF Client, manager, Listing
<1>2. CASE Start
  <2>1. UNCHANGED cache /\ \E far \in BOOLEAN : Trigger(far)
    BY <1>2 DEF Start, Show
  <2>2. QED
    BY <2>1, TriggerKeeps
<1>3. CASE Dispatch \/ SyncDispatch
  BY <1>3, HandledKeeps DEF Dispatch, SyncDispatch
<1>4. CASE Forward
  <2>1. UNCHANGED cache /\ (Answer(FALSE) \/ UNCHANGED manager)
    BY <1>4 DEF Forward
  <2>2. CASE UNCHANGED manager
    BY <2>1, <2>2 DEF manager, Listing
  <2>3. QED
    BY <2>1, <2>2, AnsweredKeeps
<1>5. CASE Reversed
  <2>1. UNCHANGED cache /\ (Answer(TRUE) \/ UNCHANGED manager)
    BY <1>5 DEF Reversed
  <2>2. CASE UNCHANGED manager
    BY <2>1, <2>2 DEF manager, Listing
  <2>3. QED
    BY <2>1, <2>2, AnsweredKeeps
<1>6. CASE Poll \/ Render \/ Unmap
  BY <1>6 DEF Poll, Render, Unmap, manager, Listing
<1>7. CASE UNCHANGED vars
  BY <1>7 DEF vars, manager, Listing
<1>8. QED
  BY <1>1, <1>2, <1>3, <1>4, <1>5, <1>6, <1>7 DEF Next, Loop

LEMMA ListingStarts == Init => Listing
<1> SUFFICES ASSUME Init PROVE Listing
  OBVIOUS
<1>1. Initially \in Seq(Wins) /\ Initially # <<>>
  BY AppSwitcherAssumption
<1>2. cache = [i \in 1..Len(Initially) |-> [win |-> Initially[i], named |-> TRUE, active |-> i = 1]]
      /\ groups = ToHead(Reverse(KeysIn(cache)), GroupOf(focus)) /\ selected = 0
  BY DEF Init
<1>3. \A i \in 1..Len(Initially) : Initially[i] \in Wins /\ (i = 1) \in BOOLEAN
  BY <1>1
<1>4. \A i \in 1..Len(Initially) :
         [win |-> Initially[i], named |-> TRUE, active |-> i = 1] \in Entries
  BY <1>3 DEF Entries
<1>5. cache \in Seq(Entries)
  BY <1>1, <1>2, <1>4
<1>6. \A s \in Seq(Keys) : Reverse(s) \in Seq(Keys)
  BY DEF Reverse
<1>7. groups \in Seq(Keys)
  BY <1>2, <1>5, <1>6, KeysType, HeadType
<1>8. QED
  BY <1>2, <1>5, <1>7 DEF Listing

-----------------------------------------------------------------------------
(***************************************************************************)
(* Shown, the overlay gets to the screen.                                  *)
(***************************************************************************)

Wired == /\ open \subseteq Wins /\ focus \in Wins \cup {Noone} /\ alt \in BOOLEAN
         /\ wire \in Seq(Events) /\ batch \in Nat /\ surf \in {"reset", "initialized", "mapped"}

IsInput(e) == e.event \in {"key", "modifiers"}
Quiet == \A i \in DOMAIN wire : ~IsInput(wire[i])
Behind == \A i \in DOMAIN wire : IsInput(wire[i]) => i <= batch
Coming == \E i \in DOMAIN wire : wire[i] = Configure

\* No key is sent to a surface that is not mapped, and those sent before are dispatched before it
\* is shown.  Unless it was shown again too early: a surface that waits for a configure gets one,
\* and nothing hides the overlay before it is on the screen, if it was not shown too late.
Unheard ==
    surf # "mapped" => /\ pc \in {"start", "reverse", "render"} => Quiet
                       /\ pc = "dispatch" => Behind
Ways ==
    LET up == visible /\ ~late
    IN  /\ up /\ ~configured => surf = "initialized"
        /\ surf = "initialized" /\ ~configured => Coming
        /\ surf = "initialized" => pc = "start" \/ up
        /\ visible => ~goDormant /\ pc # "sync"
        /\ pc = "sync" => ~goDormant
        /\ up /\ configured /\ surf # "mapped" => pc \in {"reverse", "render"}
        /\ up /\ surf # "mapped" => Quiet
Mapping == (~configured => surf # "mapped") /\ Unheard /\ (~raced /\ pc # "gone" => Ways)

LEMMA MakesEvents ==
    /\ \A w \in Wins : Toplevel(w) \in Events /\ AppId(w) \in Events /\ Closed(w) \in Events
    /\ \A w \in Wins : State(w, TRUE) \in Events /\ State(w, FALSE) \in Events
    /\ Mods(TRUE) \in Events /\ Mods(FALSE) \in Events /\ Configure \in Events /\ Click \in Events
    /\ \A k \in KeyPresses : Key(k) \in Events
<1> DEFINE OfWindow(w) == {Toplevel(w), AppId(w), State(w, TRUE), State(w, FALSE), Closed(w)}
           A == UNION {OfWindow(w) : w \in Wins}
           B == {Mods(TRUE), Mods(FALSE), Configure, Click}
           C == {Key(k) : k \in KeyPresses}
<1>1. Events = A \cup B \cup C
  BY Zenon DEF Events
<1>2. \A w \in Wins : OfWindow(w) \subseteq A
  OBVIOUS
<1>3. B \cup C \subseteq Events
  BY <1>1
<1>4. \A w \in Wins : OfWindow(w) \subseteq Events
  <2> HIDE DEF OfWindow, A, B, C
  <2>1. QED
    BY <1>1, <1>2
<1>5. QED
  BY <1>3, <1>4

LEMMA Inputs ==
    /\ ~IsInput(Configure)
    /\ \A w : ~IsInput(Toplevel(w)) /\ ~IsInput(AppId(w)) /\ ~IsInput(Closed(w))
    /\ \A w : ~IsInput(State(w, TRUE)) /\ ~IsInput(State(w, FALSE))
  BY DEF IsInput, Configure, Toplevel, AppId, State, Closed

\* What is sent behind the wire's events.
LEMMA SentKeeps ==
    ASSUME Wired, NEW q \in Seq(Events), wire' = wire \o q
    PROVE  /\ wire' \in Seq(Events)
           /\ Coming => Coming'
           /\ (\A i \in DOMAIN q : ~IsInput(q[i])) =>
                 (Quiet => Quiet') /\ (Behind /\ UNCHANGED batch => Behind')
<1>1. wire \in Seq(Events)
  BY DEF Wired
<1>2. Len(wire) \in Nat /\ Len(q) \in Nat /\ wire' \in Seq(Events) /\ Len(wire') = Len(wire) + Len(q)
      /\ DOMAIN wire = 1..Len(wire) /\ DOMAIN wire' = 1..Len(wire') /\ DOMAIN q = 1..Len(q)
  BY <1>1
<1>3. \A i \in 1..Len(wire) : i \in DOMAIN wire' /\ wire'[i] = wire[i]
  BY <1>1, <1>2
<1>4. \A i \in DOMAIN wire' : i \notin DOMAIN wire => i - Len(wire) \in DOMAIN q /\ wire'[i] = q[i - Len(wire)]
  BY <1>1, <1>2
<1>5. Coming => Coming'
  BY <1>2, <1>3 DEF Coming
<1>6. ASSUME \A i \in DOMAIN q : ~IsInput(q[i])
      PROVE  (Quiet => Quiet') /\ (Behind /\ UNCHANGED batch => Behind')
  <2>1. \A i \in DOMAIN wire' : IsInput(wire'[i]) => i \in DOMAIN wire /\ wire'[i] = wire[i]
    BY <1>2, <1>3, <1>4, <1>6
  <2>2. QED
    BY <2>1 DEF Quiet, Behind
<1>7. QED
  BY <1>2, <1>5, <1>6

\* What one event is sent.
LEMMA AppendedKeeps ==
    ASSUME Wired, NEW e \in Events, wire' = Append(wire, e)
    PROVE  /\ wire' \in Seq(Events)
           /\ Coming => Coming'
           /\ e = Configure => Coming'
           /\ ~IsInput(e) => (Quiet => Quiet') /\ (Behind /\ UNCHANGED batch => Behind')
<1>1. <<e>> \in Seq(Events) /\ wire' = wire \o <<e>> /\ <<e>>[1] = e /\ DOMAIN <<e>> = {1}
  BY DEF Wired
<1>2. e = Configure => Coming'
  BY DEF Wired, Coming
<1>3. QED
  BY <1>1, <1>2, SentKeeps

\* What is left once the first event has been taken.
LEMMA TakenKeeps ==
    ASSUME Wired, wire # <<>>, wire' = Tail(wire)
    PROVE  /\ wire' \in Seq(Events)
           /\ Coming /\ Head(wire) # Configure => Coming'
           /\ Quiet => Quiet'
           /\ Behind /\ batch' = batch - 1 => Behind'
<1>1. wire \in Seq(Events) /\ batch \in Nat
  BY DEF Wired
<1>2. wire' \in Seq(Events) /\ Len(wire) \in Nat /\ Len(wire) > 0
      /\ DOMAIN wire = 1..Len(wire) /\ DOMAIN wire' = 1..(Len(wire) - 1)
  BY <1>1
<1>3. \A i \in DOMAIN wire' : i + 1 \in DOMAIN wire /\ wire'[i] = wire[i + 1]
  BY <1>1, <1>2
<1>4. \A i \in DOMAIN wire : i # 1 => i - 1 \in DOMAIN wire' /\ wire'[i - 1] = wire[i]
  BY <1>1, <1>2
<1>5. Coming /\ Head(wire) # Configure => Coming'
  BY <1>1, <1>2, <1>4, SMTT(30) DEF Coming
<1>6. Quiet => Quiet'
  BY <1>3 DEF Quiet
<1>7. Behind /\ batch' = batch - 1 => Behind'
  BY <1>1, <1>2, <1>3 DEF Behind
<1>8. QED
  BY <1>2, <1>5, <1>6, <1>7

\* What the world sends: keys and modifiers only to a mapped surface.
LEMMA WorldSends ==
    ASSUME Wired, World
    PROVE  /\ open' \subseteq Wins /\ focus' \in Wins \cup {Noone} /\ alt' \in BOOLEAN
           /\ \E q \in Seq(Events) :
                 wire' = wire \o q /\ (surf = "mapped" \/ \A i \in DOMAIN q : ~IsInput(q[i]))
<1> DEFINE Sends(q) == wire' = wire \o q /\ (surf = "mapped" \/ \A i \in DOMAIN q : ~IsInput(q[i]))
           Typed == open' \subseteq Wins /\ focus' \in Wins \cup {Noone} /\ alt' \in BOOLEAN
<1>1. wire \in Seq(Events) /\ <<>> \in Seq(Events) /\ (UNCHANGED wire => Sends(<<>>))
  BY DEF Wired
<1>2. ASSUME NEW w, w \in open, Focus(w)
      PROVE  \E q \in Seq(Events) : Sends(q)
  <2>1. State(w, TRUE) \in Events /\ ~IsInput(State(w, TRUE))
    BY <1>2, MakesEvents, Inputs DEF Wired
  <2>2. focus # Noone => State(focus, FALSE) \in Events /\ ~IsInput(State(focus, FALSE))
    BY MakesEvents, Inputs DEF Wired
  <2> DEFINE on == <<State(w, TRUE)>>
             off == Deactivated
  <2>3. on \in Seq(Events) /\ \A i \in DOMAIN on : ~IsInput(on[i])
    <3> DEFINE e == State(w, TRUE)
    <3>1. on = <<e>> /\ e \in Events /\ ~IsInput(e)
      BY <2>1
    <3> HIDE DEF e, on
    <3>2. QED
      BY <3>1
  <2>4. off \in Seq(Events) /\ \A i \in DOMAIN off : ~IsInput(off[i])
    <3>1. CASE focus = Noone
      BY <3>1 DEF Deactivated
    <3>2. CASE focus # Noone
      <4> DEFINE e == State(focus, FALSE)
      <4>1. off = <<e>> /\ e \in Events /\ ~IsInput(e)
        BY <2>2, <3>2 DEF Deactivated
      <4> HIDE DEF e, off
      <4>2. QED
        BY <4>1
    <3>3. QED
      BY <3>1, <3>2
  <2>5. wire' = wire \o (off \o on) \/ wire' = wire \o (on \o off)
    BY <1>2 DEF Focus, Sent
  <2> HIDE DEF on, off
  <2>6. off \o on \in Seq(Events) /\ on \o off \in Seq(Events)
        /\ (\A i \in DOMAIN (off \o on) : ~IsInput((off \o on)[i]))
        /\ (\A i \in DOMAIN (on \o off) : ~IsInput((on \o off)[i]))
    BY <2>3, <2>4
  <2>7. QED
    BY <2>5, <2>6
<1>3. CASE FocusChanges
  <2>1. PICK w \in open : Focus(w)
    BY <1>3 DEF FocusChanges
  <2>2. Typed
    BY <1>3, <2>1 DEF FocusChanges, Focus, Wired
  <2>3. QED
    BY <1>2, <2>1, <2>2
<1>4. CASE Activate
  <2>1. Typed
    BY <1>4 DEF Activate, Focus, Wired
  <2>2. (asked \in open /\ Focus(asked)) \/ UNCHANGED wire
    BY <1>4 DEF Activate
  <2>3. QED
    BY <1>1, <1>2, <2>1, <2>2
<1>5. CASE TurnAlt
  <2>1. Typed
    BY <1>5 DEF TurnAlt, Wired
  <2> DEFINE m == Mods(~alt)
  <2>2. m \in Events
    BY MakesEvents, (~alt) = TRUE \/ (~alt) = FALSE, Zenon
  <2>3. (surf = "mapped" /\ wire' = wire \o <<m>>) \/ wire' = wire \o <<>>
    BY <1>5 DEF TurnAlt, Sent
  <2> HIDE DEF m
  <2>4. <<m>> \in Seq(Events) /\ \A i \in DOMAIN <<>> : ~IsInput(<<>>[i])
    BY <2>2
  <2>5. QED
    BY <1>1, <2>1, <2>3, <2>4
<1>6. CASE Bind
  <2>1. Typed
    BY <1>6 DEF Bind, Wired
  <2>2. UNCHANGED wire
    BY <1>6 DEF Bind
  <2>3. QED
    BY <1>1, <2>1, <2>2
<1>7. ASSUME NEW w \in Wins, Open(w) \/ Close(w)
      PROVE  Typed /\ \E q \in Seq(Events) : Sends(q)
  <2>1. Typed
    BY <1>7 DEF Open, Close, Wired
  <2> DEFINE t == Toplevel(w)
             a == AppId(w)
             c == Closed(w)
  <2>2. t \in Events /\ a \in Events /\ c \in Events /\ ~IsInput(t) /\ ~IsInput(a) /\ ~IsInput(c)
    BY MakesEvents, Inputs
  <2>3. wire' = wire \o <<t, a>> \/ wire' = wire \o <<c>>
    BY <1>7 DEF Open, Close, Sent
  <2> HIDE DEF t, a, c
  <2>4. <<t, a>> \in Seq(Events) /\ <<c>> \in Seq(Events)
        /\ (\A i \in DOMAIN <<t, a>> : ~IsInput(<<t, a>>[i])) /\ (\A i \in DOMAIN <<c>> : ~IsInput(<<c>>[i]))
    BY <2>2
  <2>5. QED
    BY <2>1, <2>3, <2>4
<1>8. ASSUME NEW k \in KeyPresses, Press(k)
      PROVE  Typed /\ \E q \in Seq(Events) : Sends(q)
  <2>1. Typed
    BY <1>8 DEF Press, Wired
  <2> DEFINE e == Key(k)
  <2>2. e \in Events /\ surf = "mapped" /\ wire' = wire \o <<e>>
    BY <1>8, MakesEvents DEF Press, Sent
  <2> HIDE DEF e
  <2>3. <<e>> \in Seq(Events)
    BY <2>2
  <2>4. QED
    BY <2>1, <2>2, <2>3
<1>9. CASE PointAside
  <2>1. Typed
    BY <1>9 DEF PointAside, Wired
  <2> DEFINE e == Click
  <2>2. e \in Events /\ surf = "mapped" /\ wire' = wire \o <<e>>
    BY <1>9, MakesEvents DEF PointAside, Sent
  <2> HIDE DEF e
  <2>3. <<e>> \in Seq(Events)
    BY <2>2
  <2>4. QED
    BY <2>1, <2>2, <2>3
<1>10. QED
  BY <1>3, <1>4, <1>5, <1>6, <1>7, <1>8, <1>9 DEF World

Reach == IInv /\ Wired /\ Mapping

LEMMA WorldMaps == ASSUME Reach, World PROVE Wired' /\ Mapping'
<1>1. UNCHANGED <<Client, surf>>
  BY DEF World, FocusChanges, Focus, Activate, TurnAlt, Bind, Open, Close, Press, PointAside
<1>2. PICK q \in Seq(Events) :
         wire' = wire \o q /\ (surf = "mapped" \/ \A i \in DOMAIN q : ~IsInput(q[i]))
  BY WorldSends DEF Reach
<1>3. UNCHANGED <<pc, batch, visible, goDormant, configured, raced, late, surf>>
  BY <1>1 DEF Client, loop, manager, past
<1>4. wire' \in Seq(Events) /\ (Coming => Coming')
      /\ (surf # "mapped" => (Quiet => Quiet') /\ (Behind => Behind'))
  BY <1>2, <1>3, SentKeeps DEF Reach
<1>5. Wired'
  BY <1>3, <1>4, WorldSends DEF Reach, Wired
<1>6. Unheard' /\ (Ways => Ways')
  BY <1>3, <1>4 DEF Reach, Mapping, Unheard, Ways
<1>7. Mapping'
  BY <1>3, <1>6 DEF Reach, Mapping
<1>8. QED
  BY <1>5, <1>7

\* A window event keeps whether the overlay is up; so does whatever only tells the callback.
LEMMA ToldAgain ==
    ASSUME IInv, pc # "start", Notified(visible)
    PROVE  visible' = visible /\ goDormant' = goDormant
  BY DEF IInv, Flags, OneOpinion, Notified

\* The first event is dispatched: what is behind stays behind.
LEMMA TurnsUnheard ==
    ASSUME Reach, pc \in {"dispatch", "sync"}, pc' = pc,
           IF pc = "dispatch" THEN batch > 0 /\ batch' = batch - 1 ELSE UNCHANGED batch,
           wire # <<>>, wire' = Tail(wire), surf' = surf
    PROVE  Unheard'
  BY TakenKeeps DEF Reach, Mapping, Unheard

\* Nothing that Ways speaks of changes but the events on their way.
LEMMA StaysOnWay ==
    ASSUME Reach, UNCHANGED <<visible, goDormant, configured, raced, late, pc, surf>>,
           Coming => Coming', Quiet => Quiet', Unheard'
    PROVE  Mapping'
<1>1. Ways => Ways'
  BY DEF Ways
<1>2. QED
  BY <1>1 DEF Reach, Mapping

\* Input hides the overlay: it was on the screen, or it was shown too late.
LEMMA HidesOnWay ==
    ASSUME Reach, pc \in {"dispatch", "sync"}, visible, ~Quiet, visible' = FALSE,
           UNCHANGED <<configured, raced, late, pc, surf>>, Unheard'
    PROVE  Mapping'
<1>1. ASSUME Ways PROVE Ways'
  <2>1. late \/ surf = "mapped"
    BY <1>1 DEF Ways
  <2>2. surf # "initialized" /\ pc = "dispatch"
    BY <1>1, <2>1 DEF Ways
  <2>3. QED
    BY <2>2 DEF Ways
<1>2. QED
  BY <1>1 DEF Reach, Mapping

\* A Tab shows the overlay.
LEMMA TabOnWay ==
    ASSUME Reach, pc \in {"dispatch", "sync"}, ~visible, visible' = TRUE,
           IF goDormant \/ pc = "sync" THEN raced' = TRUE ELSE late' = TRUE /\ UNCHANGED raced,
           UNCHANGED <<goDormant, configured, pc, surf>>, Unheard'
    PROVE  Mapping'
<1>1. CASE goDormant \/ pc = "sync"
  BY <1>1 DEF Reach, Mapping
<1>2. CASE ~goDormant /\ pc = "dispatch"
  <2>1. late' = TRUE /\ UNCHANGED raced
    BY <1>2
  <2>2. ASSUME Ways PROVE Ways'
    <3>1. surf # "initialized"
      BY <1>2, <2>2 DEF Ways
    <3>2. QED
      BY <1>2, <2>1, <3>1 DEF Ways
  <2>3. QED
    BY <1>2, <2>1, <2>2 DEF Reach, Mapping
<1>3. QED
  BY <1>1, <1>2 DEF Reach, IInv, Flags

LEMMA HandledMaps ==
    ASSUME Reach, HandleHead, pc \in {"dispatch", "sync"},
           IF pc = "dispatch" THEN batch > 0 /\ batch' = batch - 1 ELSE UNCHANGED batch
    PROVE  Wired' /\ Mapping'
<1> DEFINE e == Head(wire)
<1>1. wire \in Seq(Events) /\ wire # <<>> /\ e \in Events /\ batch \in Nat /\ batch' \in Nat
      /\ UNCHANGED <<open, focus, alt>> /\ pc # "start" /\ pc # "gone"
  BY DEF HandleHead, Reach, Wired
<1>2. IsInput(e) => ~Quiet
  BY <1>1 DEF Quiet
<1> HIDE DEF e
<1>3. CASE OnConfigure(e)
  <2>1. configured' = TRUE /\ UNCHANGED <<visible, goDormant, raced, late, pc>> /\ Painted(TRUE, Tail(wire))
    BY <1>3 DEF OnConfigure, manager, past
  <2>2. CASE visible /\ surf # "mapped"
    <3>1. surf' = "mapped" /\ \E now \in {alt, FALSE} : wire' = Append(Tail(wire), Mods(now))
      BY <2>1, <2>2 DEF Painted
    <3>2. \A now \in {alt, FALSE} : Mods(now) \in Events
      BY MakesEvents, Zenon DEF Reach, Wired
    <3>3. wire' \in Seq(Events)
      <4>1. PICK now \in {alt, FALSE} : wire' = Append(Tail(wire), Mods(now))
        BY <3>1
      <4> DEFINE m == Mods(now)
      <4>2. m \in Events /\ wire' = Append(Tail(wire), m)
        BY <3>2, <4>1
      <4> HIDE DEF m
      <4>3. QED
        BY <1>1, <4>2
    <3>4. Wired'
      BY <1>1, <3>1, <3>3 DEF Reach, Wired
    <3>5. Unheard' /\ (Ways => Ways')
      BY <1>1, <2>1, <3>1 DEF Unheard, Ways
    <3>6. Mapping'
      BY <1>1, <2>1, <3>5 DEF Reach, Mapping
    <3>7. QED
      BY <3>4, <3>6
  <2>3. CASE ~(visible /\ surf # "mapped")
    <3>1. surf' = surf /\ wire' = Tail(wire)
      BY <2>1, <2>3 DEF Painted
    <3>2. wire' \in Seq(Events) /\ (Quiet => Quiet')
      BY <1>1, <3>1, TakenKeeps DEF Reach
    <3>3. Wired'
      BY <1>1, <3>1, <3>2 DEF Reach, Wired
    <3>4. Unheard'
      BY <1>1, <2>1, <3>1, TurnsUnheard
    <3>5. Ways => Ways'
      BY <1>1, <2>1, <2>3, <3>1, <3>2 DEF Ways
    <3>6. Mapping'
      BY <1>1, <2>1, <3>4, <3>5 DEF Reach, Mapping
    <3>7. QED
      BY <3>3, <3>6
  <2>4. QED
    BY <2>2, <2>3
<1>4. CASE (OnKeyAfterwards(e) \/ OnClick(e)) /\ pc' = "gone" /\ surf' = "reset" /\ wire' = Tail(wire)
  <2>1. wire' \in Seq(Events)
    BY <1>1, <1>4
  <2>2. Wired'
    BY <1>1, <1>4, <2>1 DEF Reach, Wired
  <2>3. Mapping'
    BY <1>4 DEF Mapping, Unheard
  <2>4. QED
    BY <2>2, <2>3
<1>5. CASE /\ wire' = Tail(wire) /\ e # Configure /\ surf' = surf
           /\ OnWindow(e) \/ OnModifiers(e) \/ OnKey(e) \/ (OnKeyAfterwards(e) /\ pc' = pc)
  <2>1. wire' \in Seq(Events) /\ (Coming => Coming') /\ (Quiet => Quiet')
    BY <1>1, <1>5, TakenKeeps DEF Reach, e
  <2>2. Wired'
    BY <1>1, <1>5, <2>1 DEF Reach, Wired
  <2>3. pc' = pc /\ UNCHANGED configured
    BY <1>5 DEF OnWindow, OnModifiers, OnKey, OnKeyAfterwards
  <2>4. Unheard'
    BY <1>1, <1>5, <2>3, TurnsUnheard
  <2>5. CASE UNCHANGED <<visible, goDormant, raced, late>>
    BY <1>5, <2>1, <2>2, <2>3, <2>4, <2>5, StaysOnWay
  <2>6. CASE visible /\ ~Quiet /\ visible' = FALSE /\ UNCHANGED <<raced, late>>
    BY <1>5, <2>2, <2>3, <2>4, <2>6, HidesOnWay
  <2>7. CASE OnWindow(e)
    <3>1. Notified(visible) \/ UNCHANGED manager
      BY <2>7 DEF OnWindow, WindowsChanged, Told
    <3>2. UNCHANGED <<raced, late>>
      BY <2>7 DEF OnWindow, past
    <3>3. UNCHANGED <<visible, goDormant>>
      BY <1>1, <3>1, ToldAgain DEF Reach, manager
    <3>4. QED
      BY <2>5, <3>2, <3>3
  <2>8. CASE OnModifiers(e)
    <3>1. UNCHANGED <<raced, late>> /\ IsInput(e)
      BY <2>8 DEF OnModifiers, IsInput, past
    <3>2. (active /\ Notified(FALSE)) \/ UNCHANGED manager
      BY <2>8 DEF OnModifiers, Confirm, Hide
    <3>3. CASE UNCHANGED manager
      BY <2>5, <3>1, <3>3 DEF manager
    <3>4. CASE active /\ Notified(FALSE)
      BY <1>2, <2>6, <3>1, <3>4 DEF Reach, IInv, OneOpinion, Notified
    <3>5. QED
      BY <3>2, <3>3, <3>4
  <2>9. CASE OnKey(e)
    <3>1. UNCHANGED <<raced, late>> /\ IsInput(e) /\ active
      BY <2>9 DEF OnKey, IsInput, past
    <3>2. Notified(FALSE) \/ Notified(visible) \/ UNCHANGED manager
      BY <2>9 DEF OnKey, Confirm, Hide, Select
    <3>3. CASE Notified(visible) \/ UNCHANGED manager
      <4>1. UNCHANGED <<visible, goDormant>>
        BY <1>1, <3>3, ToldAgain DEF Reach, manager
      <4>2. QED
        BY <2>5, <3>1, <4>1
    <3>4. CASE Notified(FALSE)
      BY <1>2, <2>6, <3>1, <3>4 DEF Reach, IInv, OneOpinion, Notified
    <3>5. QED
      BY <3>2, <3>3, <3>4
  <2>10. CASE OnKeyAfterwards(e) /\ pc' = pc
    <3>1. CASE UNCHANGED <<manager, past>>
      BY <2>5, <3>1 DEF manager, past
    <3>2. CASE /\ Trigger(FALSE) /\ ~active
               /\ IF goDormant \/ pc = "sync" THEN raced' = TRUE /\ UNCHANGED late
                  ELSE late' = TRUE /\ UNCHANGED raced
      <4>1. ~visible /\ visible' = TRUE /\ UNCHANGED goDormant
        BY <1>1, <3>2 DEF Trigger, Notified, Reach, IInv, Flags, OneOpinion
      <4>2. Mapping'
        BY <1>5, <2>3, <2>4, <3>2, <4>1, TabOnWay
      <4>3. QED
        BY <2>2, <4>2
    <3>3. QED
      BY <1>1, <1>5, <2>10, <3>1, <3>2 DEF OnKeyAfterwards
  <2>11. QED
    BY <1>5, <2>7, <2>8, <2>9, <2>10
<1>6. CASE /\ wire' = Tail(wire)
           /\ OnWindow(e) \/ OnModifiers(e) \/ OnKey(e) \/ OnKeyAfterwards(e) \/ OnClick(e)
  <2>1. e # Configure
    <3>1. OnWindow(e) => e.event \in {"toplevel", "app_id", "state", "closed"}
      BY DEF OnWindow
    <3>2. OnModifiers(e) \/ OnKey(e) \/ OnKeyAfterwards(e) \/ OnClick(e)
             => e.event \in {"modifiers", "key", "click"}
      BY DEF OnModifiers, OnKey, OnKeyAfterwards, OnClick
    <3>3. Configure.event = "configure"
      BY DEF Configure
    <3>4. QED
      BY <1>6, <3>1, <3>2, <3>3
  <2>2. \/ surf' = surf /\ (OnKeyAfterwards(e) => pc' = pc) /\ ~OnClick(e)
        \/ (OnKeyAfterwards(e) \/ OnClick(e)) /\ pc' = "gone" /\ surf' = "reset"
    BY <1>6 DEF OnWindow, OnModifiers, OnKey, OnKeyAfterwards, OnClick
  <2>3. QED
    BY <1>4, <1>5, <1>6, <2>1, <2>2
<1>7. QED
  BY <1>3, <1>6 DEF HandleHead, e

\* Showing: a surface that needs a configure has one coming, and no key is on its way to it.  Even
\* one that was shown too early gets there, if it is shown once more when it has been unmapped.
LEMMA ShownMaps ==
    ASSUME Reach, NEW far \in BOOLEAN, Show(far), Quiet \/ surf = "mapped",
           pc \notin {"gone", "sync"}, pc' \in {"reverse", "render"},
           UNCHANGED <<configured, batch, open, focus, alt>>
    PROVE  Wired' /\ Mapping'
<1>1. visible' = TRUE /\ raced' = (goDormant \/ (raced /\ surf # "reset")) /\ late' = FALSE
      /\ goDormant \in BOOLEAN /\ goDormant' = goDormant
  BY DEF Show, Trigger, Notified, Reach, IInv, Flags
<1>2. CASE configured
  <2>1. UNCHANGED <<surf, wire>>
    BY <1>2 DEF Show
  <2>2. Wired' /\ (Quiet => Quiet')
    BY <2>1 DEF Reach, Wired, Quiet
  <2>3. Unheard' /\ (~goDormant => Ways')
    BY <1>1, <1>2, <2>1, <2>2 DEF Unheard, Ways
  <2>4. Mapping'
    BY <1>1, <1>2, <2>3 DEF Mapping
  <2>5. QED
    BY <2>2, <2>4
<1>3. CASE ~configured
  <2>1. surf' = "initialized" /\ surf # "mapped" /\ surf \in {"reset", "initialized"}
        /\ wire' = IF surf = "reset" THEN Append(wire, Configure) ELSE wire
    BY <1>3 DEF Show, Remap, Reach, Mapping, Wired
  <2>2. CASE surf = "reset"
    <3>1. wire' = Append(wire, Configure) /\ Configure \in Events /\ ~IsInput(Configure)
      BY <2>1, <2>2, MakesEvents, Inputs
    <3>2. wire' \in Seq(Events) /\ Coming' /\ (Quiet => Quiet')
      <4> DEFINE e == Configure
      <4>1. e \in Events /\ wire' = Append(wire, e) /\ ~IsInput(e) /\ e = Configure
        BY <3>1
      <4> HIDE DEF e
      <4>2. QED
        BY <4>1, AppendedKeeps DEF Reach
    <3>3. Wired'
      BY <2>1, <3>2 DEF Reach, Wired
    <3>4. Unheard' /\ (~goDormant => Ways')
      BY <1>1, <1>3, <2>1, <3>2 DEF Unheard, Ways
    <3>5. Mapping'
      BY <1>1, <1>3, <2>1, <3>4 DEF Mapping
    <3>6. QED
      BY <3>3, <3>5
  <2>3. CASE surf # "reset"
    <3>1. UNCHANGED <<surf, wire>> /\ surf = "initialized"
      BY <2>1, <2>3
    <3>2. Wired' /\ (Quiet => Quiet') /\ (Coming => Coming')
      BY <3>1 DEF Reach, Wired, Quiet, Coming
    <3>3. Unheard' /\ (Ways /\ ~goDormant => Ways')
      BY <1>1, <1>3, <2>1, <3>1, <3>2 DEF Unheard, Ways
    <3>4. Mapping'
      BY <1>1, <1>3, <2>1, <3>1, <3>3 DEF Reach, Mapping
    <3>5. QED
      BY <3>2, <3>4
  <2>4. QED
    BY <2>2, <2>3
<1>4. QED
  BY <1>2, <1>3

\* Answering a press, or having none to answer.
LEMMA AnsweredMaps ==
    ASSUME Reach, pc \in {"dispatch", "reverse"}, pc' \in {"reverse", "render"}, Quiet \/ surf = "mapped",
           UNCHANGED <<configured, batch, open, focus, alt>>,
           \/ \E far \in BOOLEAN : Answer(far)
           \/ UNCHANGED <<surf, wire, manager, input, past>>
    PROVE  Wired' /\ Mapping'
<1>1. CASE \E far \in BOOLEAN : ~visible /\ Show(far)
  BY <1>1, ShownMaps
<1>2. CASE UNCHANGED <<surf, wire, past>> /\ (Notified(visible) \/ UNCHANGED manager)
  <2>1. UNCHANGED <<visible, goDormant>>
    BY <1>2, ToldAgain DEF Reach, manager
  <2>2. Wired' /\ (Quiet => Quiet') /\ (Coming => Coming')
    BY <1>2 DEF Reach, Wired, Quiet, Coming
  <2>3. Unheard' /\ (Ways => Ways')
    BY <1>2, <2>1, <2>2 DEF past, Unheard, Ways
  <2>4. Mapping'
    BY <1>2, <2>3 DEF past, Reach, Mapping
  <2>5. QED
    BY <2>2, <2>4
<1>3. QED
  BY <1>1, <1>2 DEF Answer, Select

LEMMA LoopMaps == ASSUME Reach, Loop PROVE Wired' /\ Mapping'
<1>1. CASE Start
  <2>1. PICK far \in BOOLEAN : Show(far)
    BY <1>1 DEF Start
  <2>2. pc = "start" /\ pc' = "render" /\ UNCHANGED <<configured, batch, open, focus, alt>>
    BY <1>1 DEF Start, world
  <2>3. Quiet \/ surf = "mapped"
    BY <2>2 DEF Reach, Mapping, Unheard
  <2>4. QED
    BY <2>1, <2>2, <2>3, ShownMaps
<1>2. CASE Poll
  <2>1. pc = "poll" /\ pc' = "dispatch" /\ batch' = Len(wire)
        /\ UNCHANGED <<wire, surf, visible, goDormant, configured, raced, late, open, focus, alt>>
    BY <1>2 DEF Poll, world, manager, past
  <2>2. wire \in Seq(Events) /\ batch' \in Nat
    BY <2>1 DEF Reach, Wired
  <2>3. Behind' /\ (Quiet => Quiet') /\ (Coming => Coming')
    BY <2>1, <2>2 DEF Behind, Quiet, Coming
  <2>4. Wired'
    BY <2>1, <2>2 DEF Reach, Wired
  <2>5. Unheard' /\ (Ways => Ways')
    BY <2>1, <2>3 DEF Unheard, Ways
  <2>6. Mapping'
    BY <2>1, <2>5 DEF Reach, Mapping
  <2>7. QED
    BY <2>4, <2>6
<1>3. CASE Dispatch
  BY <1>3, HandledMaps DEF Dispatch
<1>4. CASE Forward
  <2>1. pc = "dispatch" /\ batch = 0 /\ pc' = "reverse" /\ UNCHANGED <<configured, batch, open, focus, alt>>
    BY <1>4 DEF Forward, world
  <2>2. Behind => Quiet
    BY <2>1 DEF Behind, Quiet, Reach, Wired
  <2>3. Quiet \/ surf = "mapped"
    BY <2>1, <2>2 DEF Reach, Mapping, Unheard
  <2>4. Answer(FALSE) \/ UNCHANGED <<surf, wire, manager, input, past>>
    BY <1>4 DEF Forward
  <2>5. QED
    BY <2>1, <2>3, <2>4, AnsweredMaps
<1>5. CASE Reversed
  <2>1. pc = "reverse" /\ pc' = "render" /\ UNCHANGED <<configured, batch, open, focus, alt>>
    BY <1>5 DEF Reversed, world
  <2>2. Quiet \/ surf = "mapped"
    BY <2>1 DEF Reach, Mapping, Unheard
  <2>3. Answer(TRUE) \/ UNCHANGED <<surf, wire, manager, input, past>>
    BY <1>5 DEF Reversed
  <2>4. QED
    BY <2>1, <2>2, <2>3, AnsweredMaps
<1>6. CASE Render
  <2>1. pc = "render" /\ pc' = (IF goDormant THEN "sync" ELSE "poll") /\ goDormant' = FALSE
        /\ UNCHANGED <<visible, configured, raced, late, batch, open, focus, alt>> /\ Painted(configured, wire)
    BY <1>6 DEF Render, world, past
  <2>2. CASE visible /\ configured /\ surf # "mapped"
    <3>1. surf' = "mapped" /\ \E now \in {alt, FALSE} : wire' = Append(wire, Mods(now))
      BY <2>1, <2>2 DEF Painted
    <3>2. PICK now \in {alt, FALSE} : wire' = Append(wire, Mods(now))
      BY <3>1
    <3> DEFINE m == Mods(now)
    <3>3. m \in Events /\ wire' = Append(wire, m)
      BY <3>2, MakesEvents, Zenon DEF Reach, Wired
    <3> HIDE DEF m
    <3>4. wire' \in Seq(Events)
      BY <3>3, AppendedKeeps DEF Reach
    <3>5. Wired'
      BY <2>1, <3>1, <3>4 DEF Reach, Wired
    <3>6. Unheard' /\ (Ways => Ways')
      BY <2>1, <2>2, <3>1 DEF Unheard, Ways
    <3>7. Mapping'
      BY <2>1, <2>2, <3>1, <3>6 DEF Reach, Mapping
    <3>8. QED
      BY <3>5, <3>7
  <2>3. CASE ~(visible /\ configured /\ surf # "mapped")
    <3>1. UNCHANGED <<surf, wire>>
      BY <2>1, <2>3 DEF Painted
    <3>2. Wired' /\ (Quiet => Quiet') /\ (Coming => Coming')
      BY <2>1, <3>1 DEF Reach, Wired, Quiet, Coming
    <3>3. Unheard' /\ (Ways => Ways')
      BY <2>1, <2>3, <3>1, <3>2 DEF Unheard, Ways
    <3>4. Mapping'
      BY <2>1, <3>1, <3>3 DEF Reach, Mapping
    <3>5. QED
      BY <3>2, <3>4
  <2>4. QED
    BY <2>2, <2>3
<1>7. CASE Unmap
  <2>1. pc = "sync" /\ pc' = "poll" /\ surf' = (IF surf = "mapped" THEN "reset" ELSE surf)
        /\ configured' = FALSE
        /\ UNCHANGED <<visible, goDormant, wire, raced, late, batch, open, focus, alt>>
    BY <1>7 DEF Unmap, world, manager, past
  <2>2. Wired'
    BY <2>1 DEF Reach, Wired
  <2>3. Unheard' /\ (Ways => Ways')
    BY <2>1 DEF Reach, Wired, Unheard, Ways
  <2>4. Mapping'
    BY <2>1, <2>3 DEF Reach, Mapping
  <2>5. QED
    BY <2>2, <2>4
<1>8. QED
  BY <1>1, <1>2, <1>3, <1>4, <1>5, <1>6, <1>7 DEF Loop

LEMMA MappingStarts == Init => Wired /\ Mapping
<1> SUFFICES ASSUME Init PROVE Wired /\ Mapping
  OBVIOUS
<1>1. Initially \in Seq(Wins) /\ Initially # <<>>
  BY AppSwitcherAssumption
<1>2. open \subseteq Wins /\ focus \in Wins
  BY <1>1 DEF Init, ToSet
<1>3. wire \in Seq(Events) /\ (~configured => Coming) /\ Quiet
  <2> DEFINE e == Configure
  <2>1. e \in Events /\ ~IsInput(e) /\ e = Configure /\ wire = IF configured THEN <<>> ELSE <<e>>
    BY MakesEvents, Inputs DEF Init
  <2> HIDE DEF e
  <2>2. QED
    BY <2>1 DEF Coming, Quiet
<1>4. Wired
  BY <1>2, <1>3 DEF Init, Wired
<1>5. Mapping
  BY <1>3 DEF Init, Mapping, Unheard, Ways
<1>6. QED
  BY <1>4, <1>5

LEMMA Reaches == Spec => [](Reach /\ Listing)
<1>1. Init => Wired /\ Mapping /\ Listing
  BY MappingStarts, ListingStarts
<1>2. IInv /\ Wired /\ Mapping /\ Listing /\ [Next]_vars => Wired' /\ Mapping' /\ Listing'
  <2> SUFFICES ASSUME IInv, Wired, Mapping, Listing, [Next]_vars PROVE Wired' /\ Mapping' /\ Listing'
    OBVIOUS
  <2>1. Listing'
    BY ListingKeeps DEF Wired
  <2>2. Reach
    BY DEF Reach
  <2>3. CASE World
    BY <2>1, <2>2, <2>3, WorldMaps
  <2>4. CASE Loop
    BY <2>1, <2>2, <2>4, LoopMaps
  <2>5. CASE SyncDispatch
    BY <2>1, <2>2, <2>5, HandledMaps DEF SyncDispatch
  <2>6. CASE UNCHANGED vars
    <3>1. UNCHANGED <<wire, surf, pc, batch, visible, goDormant, configured, raced, late, open, focus, alt>>
      BY <2>6 DEF vars, world, loop, manager, past
    <3>2. Wired' /\ Mapping'
      BY <3>1 DEF Wired, Mapping, Unheard, Ways, Quiet, Behind, Coming
    <3>3. QED
      BY <2>1, <3>2
  <2>7. QED
    BY <2>3, <2>4, <2>5, <2>6 DEF Next
<1>3. QED
  BY <1>1, <1>2, Inductive, PTL DEF Spec, Reach

\* Shown, the overlay is on the screen or a configure that puts it there is on its way, but for the
\* two cases in which it was shown too early (raced) or too late (late), and one of the groups is
\* selected: for any windows and any number of presses.
THEOREM ShownGetsThere == Spec => []ShownIsMapped
<1>1. Reach /\ Listing => ShownIsMapped
  BY DEF Reach, Listing, Mapping, Ways, Coming, ShownIsMapped, OnScreen
<1>2. QED
  BY <1>1, Reaches, PTL

-----------------------------------------------------------------------------
(***************************************************************************)
(* Sequences: what is in them, and the entries of a sequence in a set.     *)
(***************************************************************************)

\* Two ways through a sequence that go by the same steps are the same.
LEMMA SameSteps ==
    ASSUME NEW N \in Nat, NEW F, NEW G, F[0] = G[0], \A i \in 1..N : F[i - 1] = G[i - 1] => F[i] = G[i]
    PROVE  F[N] = G[N]
<1> DEFINE A == {n \in Nat : n <= N => F[n] = G[n]}
<1>1. 0 \in A
  OBVIOUS
<1>2. ASSUME NEW n \in Nat, n \in A PROVE n + 1 \in A
  <2> SUFFICES ASSUME n + 1 <= N PROVE F[n + 1] = G[n + 1]
    OBVIOUS
  <2>1. n + 1 \in 1..N /\ (n + 1) - 1 = n /\ F[n] = G[n]
    BY <1>2
  <2>2. QED
    BY <2>1
<1>3. N \in A
  <2> HIDE DEF A
  <2>1. QED
    BY <1>1, <1>2, Induction
<1>4. QED
  BY <1>3

LEMMA WithinAppend ==
    ASSUME NEW S, NEW s \in Seq(S), NEW x \in S, NEW A
    PROVE  Within(Append(s, x), A) = IF x \in A THEN Append(Within(s, A), x) ELSE Within(s, A)
<1> DEFINE t == Append(s, x)
           N == Len(s)
<1>1. t \in Seq(S) /\ N \in Nat /\ Len(t) = N + 1 /\ t[N + 1] = x /\ \A i \in 1..N : t[i] = s[i]
  OBVIOUS
<1>2. PICK F : Through(F, s, A, S)
  BY WithinSteps
<1> HIDE DEF t
<1>3. PICK G : Through(G, t, A, S)
  BY <1>1, WithinSteps
<1>4. F[N] = G[N]
  <2>1. ASSUME NEW i \in 1..N, F[i - 1] = G[i - 1] PROVE F[i] = G[i]
    <3>1. i \in 1..Len(t)
      BY <1>1
    <3>2. QED
      BY <1>1, <1>2, <1>3, <2>1, <3>1 DEF Through
  <2>2. F[0] = G[0] /\ N \in Nat
    BY <1>1, <1>2, <1>3 DEF Through
  <2> HIDE DEF N
  <2>3. QED
    BY <2>1, <2>2, SameSteps
<1>5. N + 1 \in 1..Len(t) /\ (N + 1) - 1 = N
  BY <1>1
<1>6. G[N + 1] = IF x \in A THEN Append(G[N], x) ELSE G[N]
  BY <1>1, <1>3, <1>5 DEF Through
<1>7. QED
  BY <1>1, <1>2, <1>3, <1>4, <1>6 DEF t, Through

LEMMA WithinEmpty == \A A : Within(<<>>, A) = <<>>
<1> TAKE A
<1> DEFINE s == <<>>
<1>1. s \in Seq({}) /\ Len(s) = 0
  OBVIOUS
<1> HIDE DEF s
<1>2. PICK F : Through(F, s, A, {})
  BY <1>1, WithinSteps
<1>3. QED
  BY <1>1, <1>2 DEF s, Through

LEMMA SetAppended ==
    ASSUME NEW S, NEW s \in Seq(S), NEW x
    PROVE  ToSet(Append(s, x)) = ToSet(s) \cup {x}
<1> DEFINE t == Append(s, x)
<1>1. Len(s) \in Nat /\ Len(t) = Len(s) + 1 /\ t[Len(s) + 1] = x /\ (\A i \in 1..Len(s) : t[i] = s[i])
      /\ DOMAIN s = 1..Len(s) /\ DOMAIN t = 1..(Len(s) + 1)
  OBVIOUS
<1> HIDE DEF t
<1>2. ToSet(t) \subseteq ToSet(s) \cup {x}
  BY <1>1 DEF ToSet
<1>3. ToSet(s) \subseteq ToSet(t)
  BY <1>1 DEF ToSet
<1>4. x \in ToSet(t)
  BY <1>1 DEF ToSet
<1>5. QED
  BY <1>2, <1>3, <1>4 DEF t

LEMMA SetJoined ==
    ASSUME NEW S, NEW r \in Seq(S), NEW s \in Seq(S)
    PROVE  ToSet(r \o s) = ToSet(r) \cup ToSet(s)
<1> DEFINE t == r \o s
<1>1. Len(r) \in Nat /\ Len(s) \in Nat /\ Len(t) = Len(r) + Len(s)
      /\ (\A i \in 1..Len(r) : t[i] = r[i]) /\ (\A i \in 1..Len(s) : t[Len(r) + i] = s[i])
      /\ (\A i \in 1..Len(t) : i \notin 1..Len(r) => i - Len(r) \in 1..Len(s) /\ t[i] = s[i - Len(r)])
      /\ DOMAIN s = 1..Len(s) /\ DOMAIN r = 1..Len(r) /\ DOMAIN t = 1..Len(t)
  OBVIOUS
<1> HIDE DEF t
<1>2. ToSet(t) \subseteq ToSet(r) \cup ToSet(s)
  BY <1>1 DEF ToSet
<1>3. ToSet(r) \subseteq ToSet(t)
  BY <1>1 DEF ToSet
<1>4. ToSet(s) \subseteq ToSet(t)
  <2>1. \A i \in 1..Len(s) : Len(r) + i \in DOMAIN t
    BY <1>1
  <2>2. QED
    BY <1>1, <2>1 DEF ToSet
<1>5. QED
  BY <1>2, <1>3, <1>4 DEF t

LEMMA SetReversed ==
    ASSUME NEW S, NEW s \in Seq(S)
    PROVE  Reverse(s) \in Seq(S) /\ ToSet(Reverse(s)) = ToSet(s)
<1> DEFINE t == Reverse(s)
<1>1. t \in Seq(S) /\ Len(t) = Len(s) /\ Len(s) \in Nat /\ DOMAIN s = 1..Len(s) /\ DOMAIN t = 1..Len(s)
      /\ \A i \in 1..Len(s) : t[i] = s[Len(s) - i + 1]
  BY DEF Reverse
<1> HIDE DEF t
<1>2. \A i \in 1..Len(s) : Len(s) - i + 1 \in 1..Len(s) /\ Len(s) - (Len(s) - i + 1) + 1 = i
  BY <1>1
<1>3. ToSet(t) \subseteq ToSet(s)
  BY <1>1, <1>2 DEF ToSet
<1>4. ToSet(s) \subseteq ToSet(t)
  <2>1. \A i \in 1..Len(s) : s[i] = t[Len(s) - i + 1]
    BY <1>1, <1>2
  <2>2. QED
    BY <1>1, <1>2, <2>1 DEF ToSet
<1>5. QED
  BY <1>1, <1>3, <1>4 DEF t

LEMMA WithinSet ==
    ASSUME NEW S, NEW s \in Seq(S), NEW A
    PROVE  ToSet(Within(s, A)) = ToSet(s) \cap A
<1> DEFINE G == {t \in Seq(S) : ToSet(Within(t, A)) = ToSet(t) \cap A}
<1>1. <<>> \in G
  BY WithinEmpty DEF ToSet
<1>2. ASSUME NEW t \in Seq(S), NEW x \in S, t \in G PROVE Append(t, x) \in G
  <2>1. Within(t, A) \in Seq(S) /\ ToSet(Within(t, A)) = ToSet(t) \cap A
    BY <1>2, WithinType
  <2>2. \A q \in Seq(S) : ToSet(Append(q, x)) = ToSet(q) \cup {x}
    BY SetAppended
  <2>3. ToSet(Within(Append(t, x), A)) = ToSet(Append(t, x)) \cap A
    <3>1. CASE x \in A
      <4>1. Within(Append(t, x), A) = Append(Within(t, A), x)
        BY <3>1, WithinAppend
      <4>2. ToSet(Append(Within(t, A), x)) = ToSet(Within(t, A)) \cup {x}
        BY <2>1, <2>2
      <4>3. ToSet(Append(t, x)) = ToSet(t) \cup {x}
        BY <2>2
      <4>4. QED
        BY <2>1, <3>1, <4>1, <4>2, <4>3
    <3>2. CASE x \notin A
      BY <2>1, <2>2, <3>2, WithinAppend
    <3>3. QED
      BY <3>1, <3>2
  <2>4. QED
    BY <2>3
<1>3. Seq(S) \subseteq G
  <2> HIDE DEF G
  <2>1. QED
    BY <1>1, <1>2, SeqInduction
<1>4. QED
  BY <1>3

LEMMA WithinAgain ==
    ASSUME NEW S, NEW s \in Seq(S), NEW A, NEW B
    PROVE  Within(Within(s, A), B) = Within(s, A \cap B)
<1> DEFINE G == {t \in Seq(S) : Within(Within(t, A), B) = Within(t, A \cap B)}
<1>1. <<>> \in G
  BY WithinEmpty
<1>2. ASSUME NEW t \in Seq(S), NEW x \in S, t \in G PROVE Append(t, x) \in G
  <2>1. Within(t, A) \in Seq(S) /\ Within(Within(t, A), B) = Within(t, A \cap B)
    BY <1>2, WithinType
  <2>2. Within(Within(Append(t, x), A), B) = Within(Append(t, x), A \cap B)
    <3>1. CASE x \in A
      <4>1. Within(Append(t, x), A) = Append(Within(t, A), x)
        BY <3>1, WithinAppend
      <4>2. Within(Append(Within(t, A), x), B)
               = IF x \in B THEN Append(Within(Within(t, A), B), x) ELSE Within(Within(t, A), B)
        BY <2>1, WithinAppend
      <4>3. Within(Append(t, x), A \cap B)
               = IF x \in A \cap B THEN Append(Within(t, A \cap B), x) ELSE Within(t, A \cap B)
        BY WithinAppend
      <4>4. QED
        BY <2>1, <3>1, <4>1, <4>2, <4>3
    <3>2. CASE x \notin A
      BY <2>1, <3>2, WithinAppend
    <3>3. QED
      BY <3>1, <3>2
  <2>3. QED
    BY <2>2
<1>3. Seq(S) \subseteq G
  <2> HIDE DEF G
  <2>1. QED
    BY <1>1, <1>2, SeqInduction
<1>4. QED
  BY <1>3

LEMMA WithinJoined ==
    ASSUME NEW S, NEW r \in Seq(S), NEW s \in Seq(S), NEW A
    PROVE  Within(r \o s, A) = Within(r, A) \o Within(s, A)
<1> DEFINE G == {t \in Seq(S) : Within(r \o t, A) = Within(r, A) \o Within(t, A)}
<1>0. Within(r, A) \in Seq(S)
  BY WithinType
<1>1. <<>> \in G
  BY <1>0, WithinEmpty
<1>2. ASSUME NEW t \in Seq(S), NEW x \in S, t \in G PROVE Append(t, x) \in G
  <2>1. Within(t, A) \in Seq(S) /\ Within(r \o t, A) = Within(r, A) \o Within(t, A)
    BY <1>2, WithinType
  <2>2. r \o Append(t, x) = Append(r \o t, x) /\ r \o t \in Seq(S)
    BY ConcatSimplifications
  <2>3. Within(r, A) \o Append(Within(t, A), x) = Append(Within(r, A) \o Within(t, A), x)
    BY <1>0, <2>1
  <2>4. Within(r \o Append(t, x), A) = Within(r, A) \o Within(Append(t, x), A)
    <3>1. Within(Append(r \o t, x), A)
             = IF x \in A THEN Append(Within(r \o t, A), x) ELSE Within(r \o t, A)
      BY <2>2, WithinAppend
    <3>2. Within(Append(t, x), A) = IF x \in A THEN Append(Within(t, A), x) ELSE Within(t, A)
      BY WithinAppend
    <3>3. QED
      BY <2>1, <2>2, <2>3, <3>1, <3>2
  <2>5. QED
    BY <2>4
<1>3. Seq(S) \subseteq G
  <2> HIDE DEF G
  <2>1. QED
    BY <1>1, <1>2, SeqInduction
<1>4. QED
  BY <1>3

LEMMA WithinAll ==
    ASSUME NEW S, NEW s \in Seq(S), NEW A
    PROVE  /\ ToSet(s) \subseteq A => Within(s, A) = s
           /\ ToSet(s) \cap A = {} => Within(s, A) = <<>>
<1> DEFINE P(t) == /\ ToSet(t) \subseteq A => Within(t, A) = t
                   /\ ToSet(t) \cap A = {} => Within(t, A) = <<>>
           G == {t \in Seq(S) : P(t)}
<1>1. <<>> \in G
  BY WithinEmpty
<1>2. ASSUME NEW t \in Seq(S), NEW x \in S, t \in G PROVE Append(t, x) \in G
  <2>1. P(t)
    BY <1>2
  <2>2. ToSet(Append(t, x)) = ToSet(t) \cup {x}
    BY SetAppended
  <2>3. P(Append(t, x))
    <3>1. CASE x \in A
      BY <2>1, <2>2, <3>1, WithinAppend
    <3>2. CASE x \notin A
      BY <2>1, <2>2, <3>2, WithinAppend
    <3>3. QED
      BY <3>1, <3>2
  <2>4. QED
    BY <2>3
<1>3. Seq(S) \subseteq G
  <2> HIDE DEF G
  <2>1. QED
    BY <1>1, <1>2, SeqInduction
<1>4. QED
  BY <1>3

\* Only what is in the sequence counts.
LEMMA WithinSame ==
    ASSUME NEW S, NEW s \in Seq(S), NEW A, NEW B, ToSet(s) \cap A = ToSet(s) \cap B
    PROVE  Within(s, A) = Within(s, B)
<1>1. Within(s, ToSet(s)) = s
  BY WithinAll
<1>2. Within(s, A) = Within(s, ToSet(s) \cap A) /\ Within(s, B) = Within(s, ToSet(s) \cap B)
  BY <1>1, WithinAgain
<1>3. QED
  BY <1>2

\* The keys of a window list are those of its entries.
LEMMA KeysSet ==
    ASSUME NEW c \in Seq(Entries)
    PROVE  /\ KeysIn(c) \in Seq(Keys)
           /\ ToSet(KeysIn(c)) = {KeyOf(e) : e \in ToSet(c)}
<1> DEFINE N == Len(c)
           K(n) == {KeyOf(c[j]) : j \in 1..n}
<1>1. PICK F : KeysThrough(F, c)
  BY KeysSteps
<1>2. N \in Nat /\ (\A i \in 0..N : F[i] \in Seq(Keys)) /\ F[0] = <<>> /\ KeysIn(c) = F[N]
  <2>1. N \in Nat
    OBVIOUS
  <2> HIDE DEF N
  <2>2. F \in [0..N -> Seq(Keys)] /\ F[0] = <<>> /\ KeysIn(c) = F[N]
    BY <1>1 DEF KeysThrough, N
  <2>3. QED
    BY <2>1, <2>2
<1>3. ASSUME NEW i \in 1..N
      PROVE  F[i] = IF \E j \in 1..(i - 1) : KeyOf(c[j]) = KeyOf(c[i]) THEN F[i - 1]
                    ELSE Append(F[i - 1], KeyOf(c[i]))
  BY <1>1 DEF KeysThrough
<1>4. ASSUME NEW n \in Nat, n <= N, n # 0, ToSet(F[n - 1]) = K(n - 1) PROVE ToSet(F[n]) = K(n)
  <2>1. n \in 1..N /\ n - 1 \in 0..N /\ 1..n = (1..(n - 1)) \cup {n}
    BY <1>2, <1>4
  <2>2. K(n) = K(n - 1) \cup {KeyOf(c[n])}
    BY <2>1
  <2>3. CASE \E j \in 1..(n - 1) : KeyOf(c[j]) = KeyOf(c[n])
    BY <1>3, <1>4, <2>1, <2>2, <2>3
  <2>4. CASE ~\E j \in 1..(n - 1) : KeyOf(c[j]) = KeyOf(c[n])
    <3>1. F[n] = Append(F[n - 1], KeyOf(c[n])) /\ F[n - 1] \in Seq(Keys)
      BY <1>2, <1>3, <2>1, <2>4
    <3>2. ToSet(Append(F[n - 1], KeyOf(c[n]))) = ToSet(F[n - 1]) \cup {KeyOf(c[n])}
      BY <3>1, SetAppended
    <3>3. QED
      BY <1>4, <2>2, <3>1, <3>2
  <2>5. QED
    BY <2>3, <2>4
<1>5. ToSet(F[N]) = K(N)
  <2> DEFINE A == {n \in Nat : n <= N => ToSet(F[n]) = K(n)}
  <2>1. 0 \in A
    <3>1. K(0) = {} /\ ToSet(<<>>) = {}
      BY DEF ToSet
    <3>2. QED
      BY <1>2, <3>1
  <2>2. ASSUME NEW n \in Nat, n \in A PROVE n + 1 \in A
    <3> SUFFICES ASSUME n + 1 <= N PROVE ToSet(F[n + 1]) = K(n + 1)
      OBVIOUS
    <3>1. n + 1 \in Nat /\ n + 1 # 0 /\ (n + 1) - 1 = n /\ n <= N
      BY <1>2
    <3>2. ToSet(F[n]) = K(n)
      BY <2>2, <3>1
    <3> HIDE DEF K, N
    <3>3. QED
      BY <1>4, <3>1, <3>2
  <2>3. N \in A
    <3> HIDE DEF A
    <3>1. QED
      BY <1>2, <2>1, <2>2, Induction
  <2>4. QED
    BY <2>3
<1>6. K(N) = {KeyOf(e) : e \in ToSet(c)}
  <2>1. DOMAIN c = 1..N
    OBVIOUS
  <2>2. QED
    BY <2>1 DEF ToSet
<1>7. KeysIn(c) = F[N] /\ F[N] \in Seq(Keys)
  <2> HIDE DEF N
  <2>1. QED
    BY <1>2
<1>8. QED
  BY <1>5, <1>6, <1>7

\* What putting a key first makes of the order of some.
LEMMA HeadWithin ==
    ASSUME NEW ks \in Seq(Keys), NEW k \in ToSet(ks), NEW A
    PROVE  /\ ToHead(ks, k) \in Seq(Keys) /\ ToSet(ToHead(ks, k)) = ToSet(ks)
           /\ k \in A => Within(ToHead(ks, k), A) = <<k>> \o Within(ks, A \ {k})
           /\ k \notin A => Within(ToHead(ks, k), A) = Within(ks, A)
<1> DEFINE rest == Within(ks, ToSet(ks) \ {k})
           one == <<k>>
<1>1. Contains(ks, k) /\ k \in Keys
  BY DEF Contains, ToSet
<1>2. ToHead(ks, k) = one \o rest
  BY <1>1 DEF ToHead
<1>3. rest \in Seq(Keys) /\ ToSet(rest) = ToSet(ks) \ {k}
  <2>1. rest \in Seq(Keys)
    BY WithinType
  <2>2. ToSet(rest) = ToSet(ks) \cap (ToSet(ks) \ {k})
    BY WithinSet
  <2>3. QED
    BY <2>1, <2>2
<1>4. Within(rest, A) = Within(ks, A \ {k})
  <2>1. Within(rest, A) = Within(ks, (ToSet(ks) \ {k}) \cap A)
    BY WithinAgain
  <2>2. ToSet(ks) \cap ((ToSet(ks) \ {k}) \cap A) = ToSet(ks) \cap (A \ {k})
    OBVIOUS
  <2>3. QED
    BY <2>1, <2>2, WithinSame
<1>5. one \in Seq(Keys) /\ ToSet(one) = {k}
  BY <1>1 DEF ToSet
<1> HIDE DEF rest, one
<1>6. Within(one \o rest, A) = Within(one, A) \o Within(rest, A)
  BY <1>3, <1>5, WithinJoined
<1>7. (k \in A => Within(one, A) = one) /\ (k \notin A => Within(one, A) = <<>>)
  BY <1>5, WithinAll
<1>8. Within(rest, A) \in Seq(Keys)
  BY <1>3, WithinType
<1>9. k \notin A => A \ {k} = A
  OBVIOUS
<1>10. ToSet(one \o rest) = {k} \cup ToSet(rest)
  BY <1>3, <1>5, SetJoined
<1>11. one \o rest \in Seq(Keys)
  BY <1>3, <1>5
<1>12. k \notin A => <<>> \o Within(rest, A) = Within(rest, A)
  BY <1>8
<1>13. QED
  BY <1>2, <1>3, <1>4, <1>6, <1>7, <1>9, <1>10, <1>11, <1>12 DEF one

-----------------------------------------------------------------------------
(***************************************************************************)
(* The order of the groups.  What the client knows is what was so at some  *)
(* moment before; the wire tells of the moments from then to now.          *)
(***************************************************************************)

\* k comes first in q, and only there.
First(q, k) == q = <<k>> \o Within(q, ToSet(q) \ {k})
Fronted(q, k) == <<k>> \o Within(q, ToSet(q) \ {k})

\* Nothing comes twice in q.
Once(q) == \A A \in SUBSET Keys : Within(q, A) # <<>> => First(Within(q, A), Head(Within(q, A)))

\* The windows there are, those that told their application, those that are active, and
\* the groups as they were focused.
Moments == [wins : SUBSET Wins, named : SUBSET Wins, lit : SUBSET Wins, recent : Seq(Keys)]
Older(s) == Within(s.recent, ToSet(s.recent) \ {Head(s.recent)})
Settled(s) == \A v, w \in s.lit : v = w

\* An active window is of the group focused last; while a change of the focus has been half
\* told, the other is of the one before.
Sane(grp, s) ==
    /\ s \in Moments /\ s.lit \subseteq s.named /\ s.named \subseteq s.wins
    /\ Once(s.recent) /\ ToSet(s.recent) \subseteq {grp[w] : w \in s.named}
    /\ \A w \in s.lit :
        s.recent # <<>> /\ (grp[w] = Head(s.recent) \/ (~Settled(s) /\ First(Older(s), grp[w])))

\* The groups g are in the order of that moment, but for where the one focused last is when
\* its window has not been told alone.
Partly(g, s) == s.recent # <<>> => Within(g, ToSet(s.recent) \ {Head(s.recent)}) = Older(s)
Ordered(g, s) == Partly(g, s) /\ (Settled(s) => Within(g, ToSet(s.recent)) = s.recent)

GroupFn == [w \in Wins |-> GroupOf(w)]

\* The window list c is that of the moment s.
Shows(c, s) ==
    /\ {e.win : e \in ToSet(c)} = s.wins
    /\ \A e \in ToSet(c) : (e.named <=> e.win \in s.named) /\ (e.active <=> e.win \in s.lit)
KeySet(c) == {KeyOf(e) : e \in ToSet(c)}

LEMMA HeadOrders ==
    ASSUME NEW t, t \in Moments, t.recent # <<>>, First(t.recent, Head(t.recent)),
           NEW g \in Seq(Keys), Head(t.recent) \in ToSet(g), Partly(g, t)
    PROVE  Ordered(ToHead(g, Head(t.recent)), t)
<1> DEFINE a == Head(t.recent)
           R == ToSet(t.recent)
<1>1. t.recent \in Seq(Keys) /\ a \in R
  BY DEF Moments, ToSet
<1>2. a \notin R \ {a}
  OBVIOUS
<1>3. Within(ToHead(g, a), R \ {a}) = Within(g, R \ {a})
  BY <1>2, HeadWithin
<1>4. Within(ToHead(g, a), R) = <<a>> \o Within(g, R \ {a})
  BY <1>1, HeadWithin
<1>5. Within(g, R \ {a}) = Older(t) /\ t.recent = <<a>> \o Older(t)
  BY DEF Partly, First, Older
<1>6. QED
  BY <1>3, <1>4, <1>5 DEF Ordered, Partly

\* A group is put first that is the one focused last, or the one before.
LEMMA LitOrders ==
    ASSUME NEW grp, NEW t, Sane(grp, t), NEW w \in t.lit,
           NEW g \in Seq(Keys), grp[w] \in ToSet(g), Head(t.recent) \in ToSet(g), Partly(g, t)
    PROVE  Ordered(ToHead(g, grp[w]), t)
<1> DEFINE a == Head(t.recent)
           b == grp[w]
           R == ToSet(t.recent)
<1>1. t \in Moments /\ t.recent # <<>> /\ t.recent \in Seq(Keys) /\ a \in R
  BY DEF Sane, Moments, ToSet
<1>2. First(t.recent, a)
  <2>1. Within(t.recent, Keys) = t.recent
    <3>1. R \subseteq Keys
      BY <1>1 DEF ToSet
    <3>2. QED
      BY <1>1, <3>1, WithinAll
  <2>2. QED
    BY <1>1, <2>1, Keys \subseteq Keys DEF Sane, Once
<1>3. CASE b = a
  BY <1>1, <1>2, <1>3, HeadOrders
<1>4. CASE b # a
  <2>1. ~Settled(t) /\ First(Older(t), b)
    BY <1>4 DEF Sane
  <2>2. Older(t) \in Seq(Keys) /\ ToSet(Older(t)) = R \ {a}
    <3>1. Older(t) \in Seq(Keys)
      BY <1>1, WithinType DEF Older
    <3>2. ToSet(Older(t)) = R \cap (R \ {a})
      BY <1>1, WithinSet DEF Older
    <3>3. QED
      BY <3>1, <3>2
  <2>3. b \in R \ {a}
    <3> DEFINE rest == Within(Older(t), ToSet(Older(t)) \ {b})
    <3>1. rest \in Seq(Keys) /\ Older(t) = <<b>> \o rest
      BY <2>1, <2>2, WithinType DEF First
    <3> HIDE DEF rest
    <3>2. Len(<<b>> \o rest) >= 1 /\ (<<b>> \o rest)[1] = b /\ 1 \in DOMAIN (<<b>> \o rest)
      BY <3>1
    <3>3. b \in ToSet(Older(t))
      BY <3>1, <3>2 DEF ToSet
    <3>4. QED
      BY <2>2, <3>3
  <2>4. Within(ToHead(g, b), R \ {a}) = <<b>> \o Within(g, (R \ {a}) \ {b})
    BY <2>3, HeadWithin
  <2>5. Within(g, (R \ {a}) \ {b}) = Within(Older(t), (R \ {a}) \ {b})
    <3>1. Within(g, R \ {a}) = Older(t)
      BY <1>1 DEF Partly
    <3>2. Within(Within(g, R \ {a}), (R \ {a}) \ {b}) = Within(g, (R \ {a}) \cap ((R \ {a}) \ {b}))
      BY WithinAgain
    <3>3. (R \ {a}) \cap ((R \ {a}) \ {b}) = (R \ {a}) \ {b}
      OBVIOUS
    <3>4. QED
      BY <3>1, <3>2, <3>3
  <2>6. Older(t) = <<b>> \o Within(Older(t), (R \ {a}) \ {b})
    BY <2>1, <2>2 DEF First
  <2>7. Partly(ToHead(g, b), t)
    BY <2>4, <2>5, <2>6 DEF Partly
  <2>8. QED
    BY <2>1, <2>7 DEF Ordered
<1>5. QED
  BY <1>3, <1>4

\* The keys of a window list, and those of its active windows.
LEMMA ShownKeys ==
    ASSUME byApp \in BOOLEAN, NEW s, Sane(GroupFn, s), NEW c \in Seq(Entries), Shows(c, s)
    PROVE  /\ LitIn(c) = {GroupFn[w] : w \in s.lit}
           /\ ToSet(s.recent) \subseteq KeySet(c) /\ LitIn(c) \subseteq KeySet(c)
           /\ ~byApp => KeySet(c) \subseteq Wins
<1>1. ToSet(c) \subseteq Entries
  BY DEF ToSet
<1>2. \A e \in ToSet(c) : e.named => KeyOf(e) = GroupFn[e.win] /\ e.win \in Wins
  BY <1>1 DEF Entries, KeyOf, GroupFn, GroupOf
<1>3. \A w \in s.named : \E e \in ToSet(c) : e.win = w /\ e.named
  <2>1. s.named \subseteq s.wins
    BY DEF Sane
  <2>2. QED
    BY <2>1 DEF Shows
<1>4. ToSet(s.recent) \subseteq KeySet(c)
  BY <1>2, <1>3 DEF Sane, KeySet
<1>5. LitIn(c) = {GroupFn[w] : w \in s.lit}
  <2>1. \A e \in ToSet(c) : e.active => e.named /\ e.win \in s.lit
    BY DEF Shows, Sane
  <2>2. LitIn(c) \subseteq {GroupFn[w] : w \in s.lit}
    BY <1>2, <2>1 DEF LitIn
  <2>3. \A w \in s.lit : \E e \in ToSet(c) : e.win = w /\ e.named /\ e.active
    BY <1>3 DEF Shows, Sane
  <2>4. {GroupFn[w] : w \in s.lit} \subseteq LitIn(c)
    BY <1>2, <2>3 DEF LitIn
  <2>5. QED
    BY <2>2, <2>4
<1>6. LitIn(c) \subseteq KeySet(c)
  BY DEF LitIn, KeySet
<1>7. ~byApp => KeySet(c) \subseteq Wins
  BY <1>1 DEF KeySet, KeyOf, Entries
<1>8. QED
  BY <1>4, <1>5, <1>6, <1>7

\* The list the groups are made of, before one with an active window is put first.
Sorted(keys) == Reverse(Within(keys, ToSet(keys) \ ToSet(groups))) \o Within(groups, ToSet(keys))

LEMMA SortedOrders ==
    ASSUME NEW keys \in Seq(Keys), groups \in Seq(Keys)
    PROVE  /\ Sorted(keys) \in Seq(Keys) /\ ToSet(Sorted(keys)) = ToSet(keys)
           /\ \A A : A \subseteq ToSet(keys) \cap ToSet(groups) => Within(Sorted(keys), A) = Within(groups, A)
<1> DEFINE fresh == Within(keys, ToSet(keys) \ ToSet(groups))
           new == Reverse(fresh)
           old == Within(groups, ToSet(keys))
<1>1. fresh \in Seq(Keys) /\ ToSet(fresh) = ToSet(keys) \ ToSet(groups)
  <2>1. ToSet(fresh) = ToSet(keys) \cap (ToSet(keys) \ ToSet(groups))
    BY WithinSet
  <2>2. QED
    BY <2>1, WithinType
<1> HIDE DEF fresh
<1>2. new \in Seq(Keys) /\ ToSet(new) = ToSet(keys) \ ToSet(groups)
  BY <1>1, SetReversed
<1>3. old \in Seq(Keys) /\ ToSet(old) = ToSet(groups) \cap ToSet(keys)
  BY WithinType, WithinSet
<1>4. Sorted(keys) = new \o old
  BY DEF Sorted, fresh
<1> HIDE DEF new, old
<1>5. new \o old \in Seq(Keys) /\ ToSet(new \o old) = ToSet(new) \cup ToSet(old)
  BY <1>2, <1>3, SetJoined
<1>6. ASSUME NEW A, A \subseteq ToSet(keys) \cap ToSet(groups) PROVE Within(new \o old, A) = Within(groups, A)
  <2>1. Within(new \o old, A) = Within(new, A) \o Within(old, A)
    BY <1>2, <1>3, WithinJoined
  <2>2. Within(new, A) = <<>>
    <3>1. ToSet(new) \cap A = {}
      BY <1>2, <1>6
    <3>2. QED
      BY <1>2, <3>1, WithinAll
  <2>3. Within(old, A) = Within(groups, A)
    <3>1. Within(old, A) = Within(groups, ToSet(keys) \cap A)
      BY WithinAgain DEF old
    <3>2. ToSet(keys) \cap A = A
      BY <1>6
    <3>3. QED
      BY <3>1, <3>2
  <2>4. Within(groups, A) \in Seq(Keys)
    BY WithinType
  <2> DEFINE q == Within(groups, A)
  <2>5. q \in Seq(Keys) => <<>> \o q = q
    <3> HIDE DEF q
    <3>1. QED
      OBVIOUS
  <2>6. QED
    BY <2>1, <2>2, <2>3, <2>4, <2>5
<1>7. QED
  BY <1>2, <1>3, <1>4, <1>5, <1>6

\* rebuild_groups for a window list of the moment t, of groups that are in its order as far
\* as that can be.
LEMMA RebuiltOrders ==
    ASSUME byApp \in BOOLEAN, NEW t, Sane(GroupFn, t), NEW c \in Seq(Entries), Shows(c, t),
           groups \in Seq(Keys), Partly(groups, t),
           t.lit = {} => Within(groups, ToSet(t.recent)) = t.recent
    PROVE  LET g == Rebuilt(KeysIn(c), LitIn(c))
           IN  g \in Seq(Keys) /\ ToSet(g) = KeySet(c) /\ Ordered(g, t)
<1> DEFINE keys == KeysIn(c)
           lit == LitIn(c)
           g == Rebuilt(keys, lit)
           a == Head(t.recent)
           R == ToSet(t.recent)
           first == Within(keys, lit)
           sorted == Sorted(keys)
<1>1. keys \in Seq(Keys) /\ ToSet(keys) = KeySet(c)
  BY KeysSet DEF KeySet
<1>2. lit = {GroupFn[w] : w \in t.lit} /\ R \subseteq KeySet(c) /\ lit \subseteq KeySet(c)
  BY ShownKeys
<1>3. t \in Moments /\ t.recent \in Seq(Keys)
  BY DEF Sane, Moments
<1> HIDE DEF keys, lit
<1>4. g = IF first = <<>> THEN sorted ELSE ToHead(sorted, Head(first))
  BY DEF Rebuilt, Sorted
<1>5. first \in Seq(Keys) /\ ToSet(first) = lit
  <2>1. ToSet(first) = ToSet(keys) \cap lit
    BY <1>1, WithinSet
  <2>2. QED
    BY <1>1, <1>2, <2>1, WithinType
<1>6. sorted \in Seq(Keys) /\ ToSet(sorted) = KeySet(c)
      /\ \A A : A \subseteq KeySet(c) \cap ToSet(groups) => Within(sorted, A) = Within(groups, A)
  BY <1>1, SortedOrders
<1> HIDE DEF g, first, sorted
<1>7. Partly(sorted, t)
  <2> SUFFICES ASSUME t.recent # <<>> PROVE Within(sorted, R \ {a}) = Older(t)
    BY DEF Partly
  <2>1. Within(groups, R \ {a}) = Older(t)
    BY DEF Partly
  <2>2. ToSet(Older(t)) = R \cap (R \ {a}) /\ ToSet(Within(groups, R \ {a})) = ToSet(groups) \cap (R \ {a})
    BY <1>3, WithinSet DEF Older
  <2>3. R \ {a} \subseteq ToSet(groups)
    BY <2>1, <2>2
  <2>4. QED
    BY <1>2, <1>6, <2>1, <2>3
<1>8. CASE t.lit = {}
  <2>1. first = <<>>
    <3>1. ToSet(first) = {}
      BY <1>2, <1>5, <1>8
    <3>2. QED
      BY <1>5, <3>1 DEF ToSet
  <2>2. Within(groups, R) = t.recent
    BY <1>8
  <2>3. ToSet(Within(groups, R)) = ToSet(groups) \cap R
    BY WithinSet
  <2>4. Within(sorted, R) = t.recent
    BY <1>2, <1>6, <2>2, <2>3
  <2>5. QED
    BY <1>4, <1>6, <1>7, <2>1, <2>4 DEF Ordered, g, keys, lit
<1>9. CASE t.lit # {}
  <2>1. first # <<>> /\ Head(first) \in lit
    <3>1. first # <<>>
      <4>1. ToSet(<<>>) = {}
        BY DEF ToSet
      <4>2. QED
        BY <1>2, <1>5, <1>9, <4>1
    <3>2. Head(first) \in ToSet(first)
      BY <1>5, <3>1 DEF ToSet
    <3>3. QED
      BY <1>5, <3>1, <3>2
  <2>2. PICK w \in t.lit : Head(first) = GroupFn[w]
    BY <1>2, <2>1
  <2>3. GroupFn[w] \in ToSet(sorted)
    BY <1>2, <1>6, <2>1, <2>2
  <2>4. t.recent # <<>>
    BY DEF Sane
  <2>5. a \in R
    BY <1>3, <2>4 DEF ToSet
  <2>6. Ordered(ToHead(sorted, GroupFn[w]), t)
    BY <1>2, <1>6, <1>7, <2>3, <2>5, LitOrders
  <2>7. ToHead(sorted, GroupFn[w]) \in Seq(Keys) /\ ToSet(ToHead(sorted, GroupFn[w])) = ToSet(sorted)
    BY <1>6, <2>3, HeadWithin
  <2>8. QED
    BY <1>4, <1>6, <2>1, <2>2, <2>6, <2>7 DEF g, keys, lit
<1>10. QED
  BY <1>8, <1>9

\* What the client knows is the moment s.
Knows(s) ==
    /\ Shows(cache, s)
    /\ ToSet(groups) = KeySet(cache)
    /\ Ordered(groups, s)

LEMMA ChangedOrders ==
    ASSUME byApp \in BOOLEAN, UNCHANGED byApp, NEW t, Sane(GroupFn, t), NEW c \in Seq(Entries), Shows(c, t),
           groups \in Seq(Keys), Partly(groups, t),
           t.lit = {} => Within(groups, ToSet(t.recent)) = t.recent,
           NEW e, WindowsChanged(c, e),
           e.active /\ e.named => e.win \in t.lit /\ GroupOf(e.win) = Head(t.recent)
    PROVE  Knows(t)'
<1> DEFINE keys == KeysIn(c)
           lit == LitIn(c)
           g == Rebuilt(keys, lit)
           a == Head(t.recent)
<1>1. g \in Seq(Keys) /\ ToSet(g) = KeySet(c) /\ Ordered(g, t)
  BY RebuiltOrders
<1>2. cache' = c /\ groups' = IF e.active /\ e.named THEN ToHead(g, AppOf[e.win]) ELSE g
  <2>1. cache' = c
    BY DEF WindowsChanged
  <2>2. KeysIn(cache') = keys /\ LitIn(cache') = lit
    BY <2>1
  <2>3. QED
    BY <2>1, <2>2 DEF WindowsChanged
<1>3. ToSet(t.recent) \subseteq KeySet(c) /\ (~byApp => KeySet(c) \subseteq Wins)
  BY ShownKeys
<1> HIDE DEF g
<1>4. ToSet(groups') = KeySet(c) /\ Ordered(groups', t)
  <2>1. CASE ~(e.active /\ e.named)
    BY <1>1, <1>2, <2>1
  <2>2. CASE e.active /\ e.named /\ byApp
    <3>1. AppOf[e.win] = a /\ t.recent # <<>> /\ t \in Moments /\ t.recent \in Seq(Keys)
      BY <2>2 DEF GroupOf, Sane, Moments
    <3>2. a \in ToSet(t.recent)
      BY <3>1 DEF ToSet
    <3>3. First(t.recent, a)
      <4>1. Within(t.recent, Keys) = t.recent
        <5>1. ToSet(t.recent) \subseteq Keys
          BY <3>1 DEF ToSet
        <5>2. QED
          BY <3>1, <5>1, WithinAll
      <4>2. QED
        BY <3>1, <4>1, Keys \subseteq Keys DEF Sane, Once
    <3>4. Ordered(ToHead(g, a), t)
      BY <1>1, <1>3, <3>1, <3>2, <3>3, HeadOrders DEF Ordered
    <3>5. ToSet(ToHead(g, a)) = ToSet(g)
      BY <1>1, <1>3, <3>2, HeadWithin
    <3>6. QED
      BY <1>1, <1>2, <2>2, <3>1, <3>4, <3>5
  <2>3. CASE e.active /\ e.named /\ ~byApp
    <3>1. e.win \in Wins
      BY <2>3 DEF Sane, Moments
    <3>2. AppOf[e.win] \notin KeySet(c)
      BY <1>3, <2>3, <3>1, AppSwitcherAssumption
    <3>3. ~Contains(g, AppOf[e.win])
      <4>1. \A k : Contains(g, k) => k \in ToSet(g)
        BY <1>1 DEF Contains, ToSet
      <4>2. QED
        BY <1>1, <3>2, <4>1
    <3>4. QED
      BY <1>1, <1>2, <2>3, <3>3 DEF ToHead
  <2>4. QED
    BY <2>1, <2>2, <2>3
<1>5. Ordered(groups', t) <=> Ordered(groups, t)'
  BY DEF Ordered, Partly
<1>6. KeySet(cache)' = KeySet(c)
  <2>1. \A f : KeyOf(f)' = KeyOf(f)
    BY DEF KeyOf
  <2>2. QED
    BY <1>2, <2>1 DEF KeySet
<1>7. Shows(cache, t)'
  BY <1>2 DEF Shows
<1>8. QED
  BY <1>4, <1>5, <1>6, <1>7 DEF Knows

\* The next moment, as event e tells it.
Turn(grp, s, e, t) ==
    \/ \E w \in Wins \ s.wins : e = Toplevel(w) /\ t = [s EXCEPT !.wins = @ \cup {w}]
    \/ \E w \in s.wins \ s.named : e = AppId(w) /\ t = [s EXCEPT !.named = @ \cup {w}]
    \/ \E w \in s.named \ s.lit :
          /\ e = State(w, TRUE) /\ Settled(s)
          /\ t = [s EXCEPT !.lit = @ \cup {w}, !.recent = Fronted(@, grp[w])]
    \/ \E w \in s.lit :
          /\ e = State(w, FALSE)
          /\ \A v \in s.lit \ {w} : s.lit = {v, w} /\ grp[v] = Head(s.recent)
          /\ t = [s EXCEPT !.lit = @ \ {w}]
    \/ \E w \in s.wins :
          /\ e = Closed(w) /\ Settled(s)
          /\ t = [wins |-> s.wins \ {w}, named |-> s.named \ {w}, lit |-> s.lit \ {w},
                  recent |-> IF \E v \in s.named \ {w} : grp[v] = grp[w] THEN s.recent
                             ELSE Within(s.recent, ToSet(s.recent) \ {grp[w]})]
    \/ e.event \in {"modifiers", "key", "configure", "click"} /\ t = s

\* The events of q tell of the moments from s to t.
Telling(grp, h, s, q, t) ==
    /\ h \in [0..Len(q) -> Moments] /\ h[0] = s /\ h[Len(q)] = t
    /\ \A i \in 0..Len(q) : Sane(grp, h[i])
    /\ \A i \in 1..Len(q) : Turn(grp, h[i - 1], q[i], h[i])
Leads(grp, s, q, t) == \E h : Telling(grp, h, s, q, t)

LEMMA LeadsNowhere ==
    ASSUME NEW grp, NEW s
    PROVE  /\ Sane(grp, s) => Leads(grp, s, <<>>, s)
           /\ \A t : Leads(grp, s, <<>>, t) => s = t /\ Sane(grp, s)
<1> DEFINE q == <<>>
<1>1. Len(q) = 0 /\ 0..Len(q) = {0} /\ 1..Len(q) = {}
  OBVIOUS
<1> HIDE DEF q
<1>2. ASSUME Sane(grp, s) PROVE Leads(grp, s, q, s)
  <2> DEFINE h == [i \in {0} |-> s]
  <2>1. s \in Moments
    BY <1>2 DEF Sane
  <2>2. Telling(grp, h, s, q, s)
    BY <1>1, <1>2, <2>1 DEF Telling
  <2>3. QED
    BY <2>2 DEF Leads
<1>3. ASSUME NEW t, Leads(grp, s, q, t) PROVE s = t /\ Sane(grp, s)
  BY <1>1, <1>3 DEF Leads, Telling
<1>4. QED
  BY <1>2, <1>3 DEF q

\* One more event, on its way after the others.
LEMMA LeadsOn ==
    ASSUME NEW grp, NEW S, NEW q \in Seq(S), NEW e \in S, NEW s, NEW t, NEW u,
           Leads(grp, s, q, t), Turn(grp, t, e, u), Sane(grp, u)
    PROVE  Leads(grp, s, Append(q, e), u)
<1>1. PICK h : Telling(grp, h, s, q, t)
  BY DEF Leads
<1> DEFINE N == Len(q)
           r == Append(q, e)
           k == [i \in 0..(N + 1) |-> IF i = N + 1 THEN u ELSE h[i]]
<1>2. N \in Nat /\ Len(r) = N + 1 /\ r[N + 1] = e /\ \A i \in 1..N : r[i] = q[i]
  OBVIOUS
<1> HIDE DEF r
<1>3. h \in [0..N -> Moments] /\ h[0] = s /\ h[N] = t
      /\ (\A i \in 0..N : Sane(grp, h[i]))
      /\ (\A i \in 1..N : Turn(grp, h[i - 1], q[i], h[i]))
  BY <1>1 DEF Telling
<1> HIDE DEF N
<1>4. u \in Moments
  BY DEF Sane
<1>5. k \in [0..(N + 1) -> Moments] /\ k[0] = s /\ k[N + 1] = u /\ k[N] = t
      /\ (\A i \in 0..N : k[i] = h[i])
  BY <1>2, <1>3, <1>4
<1> HIDE DEF k
<1>6. \A i \in 0..(N + 1) : Sane(grp, k[i])
  <2>1. \A i \in 0..(N + 1) : i = N + 1 \/ i \in 0..N
    BY <1>2
  <2>2. QED
    BY <1>3, <1>5, <2>1
<1>7. ASSUME NEW i \in 1..(N + 1) PROVE Turn(grp, k[i - 1], r[i], k[i])
  <2>1. CASE i = N + 1
    <3>1. i - 1 = N
      BY <1>2, <2>1
    <3>2. QED
      BY <1>2, <1>5, <2>1, <3>1
  <2>2. CASE i # N + 1
    <3>1. i \in 1..N /\ i \in 0..N /\ i - 1 \in 0..N
      BY <1>2, <2>2
    <3>2. k[i - 1] = h[i - 1] /\ r[i] = q[i] /\ k[i] = h[i]
      BY <1>2, <1>5, <3>1
    <3>3. QED
      BY <1>3, <3>1, <3>2
  <2>3. QED
    BY <2>1, <2>2
<1>8. Telling(grp, k, s, r, u)
  BY <1>2, <1>5, <1>6, <1>7 DEF Telling
<1>9. QED
  BY <1>8 DEF Leads, r

\* The next event is taken from those on their way.
LEMMA LeadsFrom ==
    ASSUME NEW grp, NEW S, NEW q \in Seq(S), q # <<>>, NEW s, NEW t, Leads(grp, s, q, t)
    PROVE  Sane(grp, s) /\ \E u : Sane(grp, u) /\ Turn(grp, s, Head(q), u) /\ Leads(grp, u, Tail(q), t)
<1>1. PICK h : Telling(grp, h, s, q, t)
  BY DEF Leads
<1> DEFINE N == Len(q)
           r == Tail(q)
           k == [i \in 0..(N - 1) |-> h[i + 1]]
<1>2. N \in Nat \ {0} /\ Len(r) = N - 1 /\ Head(q) = q[1] /\ \A i \in 1..(N - 1) : r[i] = q[i + 1]
  OBVIOUS
<1> HIDE DEF r
<1>3. h \in [0..N -> Moments] /\ h[0] = s /\ h[N] = t
      /\ (\A i \in 0..N : Sane(grp, h[i]))
      /\ (\A i \in 1..N : Turn(grp, h[i - 1], q[i], h[i]))
  BY <1>1 DEF Telling
<1> HIDE DEF N
<1>4. Sane(grp, s) /\ Sane(grp, h[1]) /\ Turn(grp, s, q[1], h[1])
  <2>1. 0 \in 0..N /\ 1 \in 0..N /\ 1 \in 1..N /\ 1 - 1 = 0
    BY <1>2
  <2>2. Turn(grp, h[1 - 1], q[1], h[1])
    BY <1>3, <2>1
  <2>3. QED
    BY <1>3, <2>1, <2>2
<1>5. ASSUME NEW i \in 0..(N - 1) PROVE i + 1 \in 0..N /\ i + 1 \in 1..N /\ k[i] = h[i + 1]
  BY <1>2
<1>6. k \in [0..(N - 1) -> Moments] /\ k[0] = h[1] /\ k[N - 1] = t
  <2>1. \A i \in 0..(N - 1) : h[i + 1] \in Moments
    BY <1>3, <1>5
  <2>2. 0 \in 0..(N - 1) /\ N - 1 \in 0..(N - 1) /\ 0 + 1 = 1 /\ (N - 1) + 1 = N
    BY <1>2
  <2>3. k[0] = h[0 + 1] /\ k[N - 1] = h[(N - 1) + 1]
    BY <1>5, <2>2
  <2>4. QED
    BY <1>3, <2>1, <2>2, <2>3
<1> HIDE DEF k
<1>7. \A i \in 0..(N - 1) : Sane(grp, k[i])
  BY <1>3, <1>5
<1>8. ASSUME NEW i \in 1..(N - 1) PROVE Turn(grp, k[i - 1], r[i], k[i])
  <2>1. i \in 0..(N - 1) /\ i - 1 \in 0..(N - 1) /\ (i - 1) + 1 = i /\ (i + 1) - 1 = i
    BY <1>2
  <2>2. k[i - 1] = h[(i - 1) + 1] /\ k[i] = h[i + 1] /\ i + 1 \in 1..N
    BY <1>5, <2>1
  <2>3. Turn(grp, h[(i + 1) - 1], q[i + 1], h[i + 1])
    BY <1>3, <2>2
  <2>4. QED
    BY <1>2, <2>1, <2>2, <2>3
<1>9. Telling(grp, k, h[1], r, t)
  BY <1>2, <1>6, <1>7, <1>8 DEF Telling
<1>10. Leads(grp, h[1], r, t)
  BY <1>9 DEF Leads
<1>11. QED
  BY <1>2, <1>4, <1>10 DEF r

\* Events about the overlay alone tell nothing of the windows.
LEMMA LeadsAside ==
    ASSUME NEW grp, NEW q \in Seq(Events), NEW e \in Events, NEW s, NEW t,
           Leads(grp, s, q, t), Sane(grp, t), e.event \in {"modifiers", "key", "configure", "click"}
    PROVE  Leads(grp, s, Append(q, e), t)
<1>1. Turn(grp, t, e, t)
  BY DEF Turn
<1>2. QED
  BY <1>1, LeadsOn

LEMMA LeadsToSane ==
    ASSUME NEW grp, NEW q \in Seq(Events), NEW s, NEW t, Leads(grp, s, q, t)
    PROVE  Sane(grp, s) /\ Sane(grp, t)
<1>1. PICK h : Telling(grp, h, s, q, t)
  BY DEF Leads
<1>2. 0 \in 0..Len(q) /\ Len(q) \in 0..Len(q)
  OBVIOUS
<1>3. QED
  BY <1>1, <1>2 DEF Telling

LEMMA WithinOne ==
    ASSUME NEW k \in Keys, NEW q \in Seq(Keys), NEW A
    PROVE  /\ <<k>> \o q \in Seq(Keys) /\ ToSet(<<k>> \o q) = {k} \cup ToSet(q)
           /\ Head(<<k>> \o q) = k /\ <<k>> \o q # <<>>
           /\ Within(<<k>> \o q, A) = IF k \in A THEN <<k>> \o Within(q, A) ELSE Within(q, A)
<1> DEFINE one == <<k>>
<1>1. one \in Seq(Keys) /\ one # <<>> /\ Len(one) = 1 /\ one[1] = k /\ DOMAIN one = {1}
  OBVIOUS
<1>2. ToSet(one) = {k}
  BY <1>1 DEF ToSet
<1>3. Within(q, A) \in Seq(Keys)
  BY WithinType
<1> DEFINE r == Within(q, A)
<1> HIDE DEF one, r
<1>4. one \o q \in Seq(Keys) /\ one \o q # <<>> /\ Head(one \o q) = k
  BY <1>1
<1>5. ToSet(one \o q) = {k} \cup ToSet(q)
  BY <1>1, <1>2, SetJoined
<1>6. Within(one \o q, A) = Within(one, A) \o r
  BY <1>1, WithinJoined DEF r
<1>7. k \in A => Within(one, A) = one
  BY <1>1, <1>2, WithinAll
<1>8. k \notin A => Within(one, A) = <<>>
  BY <1>1, <1>2, WithinAll
<1>9. <<>> \o r = r
  BY <1>3 DEF r
<1>10. Within(one \o q, A) = IF k \in A THEN one \o r ELSE r
  BY <1>6, <1>7, <1>8, <1>9
<1>11. QED
  BY <1>4, <1>5, <1>10 DEF one, r

LEMMA OnceFirst ==
    ASSUME NEW q \in Seq(Keys), Once(q), q # <<>>
    PROVE  First(q, Head(q)) /\ Head(q) \in ToSet(q)
<1>1. Within(q, Keys) = q
  <2>1. ToSet(q) \subseteq Keys
    BY DEF ToSet
  <2>2. QED
    BY <2>1, WithinAll
<1>2. QED
  BY <1>1, Keys \subseteq Keys DEF Once, ToSet

LEMMA OnceWithin ==
    ASSUME NEW q \in Seq(Keys), Once(q), NEW A
    PROVE  Once(Within(q, A))
<1> SUFFICES ASSUME NEW B \in SUBSET Keys, Within(Within(q, A), B) # <<>>
             PROVE  First(Within(Within(q, A), B), Head(Within(Within(q, A), B)))
  BY DEF Once
<1>1. Within(Within(q, A), B) = Within(q, A \cap B)
  BY WithinAgain
<1>2. QED
  BY <1>1, A \cap B \in SUBSET Keys DEF Once

\* A group put first.
LEMMA OnceFronted ==
    ASSUME NEW q \in Seq(Keys), Once(q), NEW k \in Keys
    PROVE  LET f == Fronted(q, k)
           IN  /\ f \in Seq(Keys) /\ Once(f) /\ ToSet(f) = {k} \cup ToSet(q) /\ f # <<>> /\ Head(f) = k
               /\ Within(f, ToSet(f) \ {k}) = Within(q, ToSet(q) \ {k})
<1> DEFINE r == Within(q, ToSet(q) \ {k})
           f == <<k>> \o r
<1>1. r \in Seq(Keys) /\ ToSet(r) = ToSet(q) \ {k} /\ Once(r)
  <2>1. ToSet(r) = ToSet(q) \cap (ToSet(q) \ {k})
    BY WithinSet
  <2>2. QED
    BY <2>1, WithinType, OnceWithin
<1> HIDE DEF r
<1>2. f \in Seq(Keys) /\ ToSet(f) = {k} \cup ToSet(q) /\ f # <<>> /\ Head(f) = k
  BY <1>1, WithinOne
<1>3. ASSUME NEW A
      PROVE  (k \in A => Within(f, A) = <<k>> \o Within(r, A)) /\ (k \notin A => Within(f, A) = Within(r, A))
  <2>1. Within(f, A) = IF k \in A THEN <<k>> \o Within(r, A) ELSE Within(r, A)
    BY <1>1, WithinOne
  <2>2. QED
    BY <2>1
<1>4. Within(f, ToSet(f) \ {k}) = r
  <2>1. Within(f, ToSet(f) \ {k}) = Within(r, ToSet(f) \ {k})
    BY <1>3
  <2>2. ToSet(r) \subseteq ToSet(f) \ {k}
    BY <1>1, <1>2
  <2>3. QED
    BY <1>1, <2>1, <2>2, WithinAll
<1>5. ASSUME NEW A \in SUBSET Keys, Within(f, A) # <<>> PROVE First(Within(f, A), Head(Within(f, A)))
  <2> DEFINE p == Within(r, A)
  <2>1. p \in Seq(Keys) /\ ToSet(p) = ToSet(r) \cap A
    BY <1>1, WithinSet, WithinType
  <2>2. CASE k \in A
    <3>1. Within(f, A) = <<k>> \o p
      BY <1>3, <2>2
    <3> HIDE DEF p
    <3> DEFINE x == <<k>> \o p
    <3>2. ToSet(x) = {k} \cup ToSet(p) /\ Head(x) = k /\ Within(x, ToSet(x) \ {k}) = Within(p, ToSet(x) \ {k})
      BY <2>1, WithinOne
    <3>3. ToSet(p) \subseteq ToSet(x) \ {k}
      BY <1>1, <2>1, <3>2
    <3> HIDE DEF x
    <3>4. Within(p, ToSet(x) \ {k}) = p
      BY <2>1, <3>3, WithinAll
    <3>5. First(x, k)
      BY <3>2, <3>4 DEF First, x
    <3>6. QED
      BY <3>1, <3>2, <3>5 DEF x
  <2>3. CASE k \notin A
    BY <1>1, <1>3, <1>5, <2>3 DEF Once
  <2>4. QED
    BY <2>2, <2>3
<1>6. Once(f)
  BY <1>5 DEF Once
<1>7. QED
  BY <1>2, <1>4, <1>6 DEF Fronted, r

LEMMA OpenTurns ==
    ASSUME NEW grp, NEW s, Sane(grp, s), NEW w \in Wins \ s.wins
    PROVE  LET m == [s EXCEPT !.wins = @ \cup {w}]
               t == [m EXCEPT !.named = @ \cup {w}]
           IN  Sane(grp, m) /\ Turn(grp, s, Toplevel(w), m) /\ Sane(grp, t) /\ Turn(grp, m, AppId(w), t)
<1> DEFINE m == [s EXCEPT !.wins = @ \cup {w}]
           t == [m EXCEPT !.named = @ \cup {w}]
<1>1. m \in Moments /\ t \in Moments
      /\ m.wins = s.wins \cup {w} /\ m.named = s.named /\ m.lit = s.lit /\ m.recent = s.recent
      /\ t.wins = s.wins \cup {w} /\ t.named = s.named \cup {w} /\ t.lit = s.lit /\ t.recent = s.recent
  BY DEF Sane, Moments
<1>2. Turn(grp, s, Toplevel(w), m)
  BY DEF Turn
<1>3. w \in m.wins \ m.named
  BY <1>1 DEF Sane
<1>4. Turn(grp, m, AppId(w), t)
  BY <1>3 DEF Turn
<1> HIDE DEF m, t
<1>5. Sane(grp, m)
  BY <1>1 DEF Sane, Settled, Older
<1>6. Sane(grp, t)
  <2>1. {grp[v] : v \in s.named} \subseteq {grp[v] : v \in t.named}
    BY <1>1
  <2>2. ToSet(t.recent) \subseteq {grp[v] : v \in t.named}
    BY <1>1, <2>1 DEF Sane
  <2>3. t.lit \subseteq t.named /\ t.named \subseteq t.wins
    BY <1>1 DEF Sane
  <2>4. Settled(t) = Settled(s) /\ Older(t) = Older(s)
    BY <1>1 DEF Settled, Older
  <2>5. QED
    BY <1>1, <2>2, <2>3, <2>4 DEF Sane
<1>7. QED
  BY <1>2, <1>4, <1>5, <1>6 DEF m, t

LEMMA CloseTurns ==
    ASSUME NEW grp, NEW s, Sane(grp, s), Settled(s), NEW w \in s.wins
    PROVE  LET t == [wins |-> s.wins \ {w}, named |-> s.named \ {w}, lit |-> s.lit \ {w},
                     recent |-> IF \E v \in s.named \ {w} : grp[v] = grp[w] THEN s.recent
                                ELSE Within(s.recent, ToSet(s.recent) \ {grp[w]})]
           IN  Sane(grp, t) /\ Turn(grp, s, Closed(w), t)
<1> DEFINE k == grp[w]
           rest == Within(s.recent, ToSet(s.recent) \ {k})
           Same == \E v \in s.named \ {w} : grp[v] = k
           t == [wins |-> s.wins \ {w}, named |-> s.named \ {w}, lit |-> s.lit \ {w},
                 recent |-> IF Same THEN s.recent ELSE rest]
<1>1. Turn(grp, s, Closed(w), t)
  BY DEF Turn
<1>2. s \in Moments /\ s.recent \in Seq(Keys) /\ Once(s.recent)
  BY DEF Sane, Moments
<1>3. rest \in Seq(Keys) /\ Once(rest) /\ ToSet(rest) = ToSet(s.recent) \ {k}
  <2>1. ToSet(rest) = ToSet(s.recent) \cap (ToSet(s.recent) \ {k})
    BY <1>2, WithinSet
  <2>2. QED
    BY <1>2, <2>1, WithinType, OnceWithin
<1>4. t \in Moments /\ t.wins = s.wins \ {w} /\ t.named = s.named \ {w} /\ t.lit = s.lit \ {w}
      /\ t.recent = IF Same THEN s.recent ELSE rest
  BY <1>2, <1>3 DEF Moments
<1> HIDE DEF t
<1>5. Once(t.recent) /\ ToSet(t.recent) \subseteq {grp[v] : v \in t.named}
  <2>1. \A x \in ToSet(s.recent) : \E v \in s.named : x = grp[v]
    BY DEF Sane
  <2>2. CASE Same
    <3>1. \A x \in ToSet(s.recent) : \E v \in s.named \ {w} : x = grp[v]
      BY <2>1, <2>2
    <3>2. QED
      BY <1>2, <1>4, <2>2, <3>1
  <2>3. CASE ~Same
    <3>1. \A x \in ToSet(rest) : \E v \in s.named \ {w} : x = grp[v]
      BY <1>3, <2>1
    <3>2. QED
      BY <1>3, <1>4, <2>3, <3>1
  <2>4. QED
    BY <2>2, <2>3
<1>6. ASSUME NEW v \in t.lit PROVE t.recent # <<>> /\ grp[v] = Head(t.recent)
  <2>1. v \in s.lit /\ v # w /\ v \in s.named
    BY <1>4 DEF Sane
  <2>2. s.recent # <<>> /\ grp[v] = Head(s.recent)
    BY <2>1 DEF Sane
  <2>3. CASE Same
    BY <1>4, <2>2, <2>3
  <2>4. CASE ~Same
    <3>1. grp[v] # k
      BY <2>1, <2>4
    <3>2. First(s.recent, grp[v]) /\ grp[v] \in ToSet(s.recent)
      BY <1>2, <2>2, OnceFirst
    <3> DEFINE a == grp[v]
               tl == Within(s.recent, ToSet(s.recent) \ {a})
               A == ToSet(s.recent) \ {k}
    <3>3. tl \in Seq(Keys) /\ a \in Keys /\ s.recent = <<a>> \o tl
      <4>1. ToSet(s.recent) \subseteq Keys
        BY <1>2 DEF ToSet
      <4>2. QED
        BY <1>2, <3>2, <4>1, WithinType DEF First
    <3>4. a \in A
      BY <3>1, <3>2
    <3> HIDE DEF tl, a, A
    <3>5. Within(<<a>> \o tl, A) = <<a>> \o Within(tl, A)
      BY <3>3, <3>4, WithinOne
    <3>6. Within(tl, A) \in Seq(Keys)
      BY <3>3, WithinType
    <3> DEFINE x == Within(tl, A)
    <3> HIDE DEF x
    <3>7. Head(<<a>> \o x) = a /\ <<a>> \o x # <<>>
      BY <3>3, <3>6, WithinOne DEF x
    <3>8. QED
      BY <1>4, <2>4, <3>3, <3>5, <3>7 DEF x, a, A
  <2>5. QED
    BY <2>3, <2>4
<1>7. t.lit \subseteq t.named /\ t.named \subseteq t.wins
  BY <1>4 DEF Sane
<1>8. Sane(grp, t)
  BY <1>4, <1>5, <1>6, <1>7 DEF Sane
<1>9. QED
  BY <1>1, <1>8 DEF t

\* A window is told to be the active one, or not to be any more.
LEMMA LightTurns ==
    ASSUME NEW grp, NEW s, Sane(grp, s), Settled(s), NEW w \in s.named \ s.lit, grp[w] \in Keys
    PROVE  LET t == [s EXCEPT !.lit = @ \cup {w}, !.recent = Fronted(@, grp[w])]
           IN  /\ Sane(grp, t) /\ Turn(grp, s, State(w, TRUE), t)
               /\ Head(t.recent) = grp[w] /\ t.recent # <<>> /\ ToSet(t.recent) = ToSet(s.recent) \cup {grp[w]}
               /\ Older(t) = Within(s.recent, ToSet(s.recent) \ {grp[w]})
<1> DEFINE k == grp[w]
           t == [s EXCEPT !.lit = @ \cup {w}, !.recent = Fronted(@, k)]
           r == Within(s.recent, ToSet(s.recent) \ {k})
<1>1. Turn(grp, s, State(w, TRUE), t)
  BY DEF Turn
<1>2. s \in Moments /\ s.recent \in Seq(Keys) /\ Once(s.recent) /\ w \in Wins
  BY DEF Sane, Moments
<1> DEFINE f == Fronted(s.recent, k)
<1>3. f \in Seq(Keys) /\ Once(f) /\ ToSet(f) = {k} \cup ToSet(s.recent) /\ f # <<>> /\ Head(f) = k
      /\ Within(f, ToSet(f) \ {k}) = r
  BY <1>2, OnceFronted
<1> HIDE DEF f
<1>4. t \in Moments /\ t.wins = s.wins /\ t.named = s.named /\ t.lit = s.lit \cup {w} /\ t.recent = f
  BY <1>2, <1>3 DEF Moments, f
<1> HIDE DEF t
<1>5. Older(t) = r
  BY <1>3, <1>4 DEF Older
<1>6. r \in Seq(Keys) /\ ToSet(r) = ToSet(s.recent) \ {k} /\ Once(r)
  <2>1. ToSet(r) = ToSet(s.recent) \cap (ToSet(s.recent) \ {k})
    BY <1>2, WithinSet
  <2>2. QED
    BY <1>2, <2>1, WithinType, OnceWithin
<1>7. ASSUME NEW v \in t.lit PROVE grp[v] = Head(t.recent) \/ (~Settled(t) /\ First(Older(t), grp[v]))
  <2>1. CASE v = w
    BY <1>3, <1>4, <2>1
  <2>2. CASE v # w /\ grp[v] # k
    <3>1. v \in s.lit /\ ~Settled(t)
      BY <1>4, <2>2 DEF Settled
    <3>2. s.recent # <<>> /\ grp[v] = Head(s.recent)
      BY <3>1 DEF Sane
    <3> DEFINE a == grp[v]
               tl == Within(s.recent, ToSet(s.recent) \ {a})
               A == ToSet(s.recent) \ {k}
    <3>3. First(s.recent, a) /\ a \in ToSet(s.recent)
      BY <1>2, <3>2, OnceFirst
    <3>4. tl \in Seq(Keys) /\ a \in Keys /\ s.recent = <<a>> \o tl
      <4>1. ToSet(s.recent) \subseteq Keys
        BY <1>2 DEF ToSet
      <4>2. QED
        BY <1>2, <3>3, <4>1, WithinType DEF First
    <3>5. a \in A
      BY <2>2, <3>3
    <3>6. r = Within(s.recent, A)
      OBVIOUS
    <3> HIDE DEF tl, a, A, r
    <3>7. Within(<<a>> \o tl, A) = <<a>> \o Within(tl, A)
      BY <3>4, <3>5, WithinOne
    <3> DEFINE x == Within(tl, A)
    <3>8. x \in Seq(Keys)
      BY <3>4, WithinType
    <3>9. r = <<a>> \o x
      BY <3>4, <3>6, <3>7
    <3> HIDE DEF x
    <3>10. Head(<<a>> \o x) = a /\ <<a>> \o x # <<>>
      BY <3>4, <3>8, WithinOne
    <3>11. First(r, Head(r))
      BY <1>6, <3>9, <3>10, OnceFirst
    <3>12. QED
      BY <1>5, <3>1, <3>9, <3>10, <3>11 DEF a
  <2>3. CASE grp[v] = k
    BY <1>3, <1>4, <2>3
  <2>4. QED
    BY <2>1, <2>2, <2>3
<1>8. ToSet(t.recent) \subseteq {grp[v] : v \in t.named}
  BY <1>3, <1>4 DEF Sane
<1>9. t.lit \subseteq t.named /\ t.named \subseteq t.wins
  BY <1>4 DEF Sane
<1>10. Sane(grp, t)
  BY <1>3, <1>4, <1>7, <1>8, <1>9 DEF Sane
<1>11. QED
  BY <1>1, <1>3, <1>4, <1>5, <1>10 DEF t, r

LEMMA DimTurns ==
    ASSUME NEW grp, NEW s, Sane(grp, s), NEW w \in s.lit,
           \A v \in s.lit \ {w} : s.lit = {v, w} /\ grp[v] = Head(s.recent)
    PROVE  LET t == [s EXCEPT !.lit = @ \ {w}]
           IN  Sane(grp, t) /\ Turn(grp, s, State(w, FALSE), t)
<1> DEFINE t == [s EXCEPT !.lit = @ \ {w}]
<1>1. Turn(grp, s, State(w, FALSE), t)
  BY DEF Turn
<1>2. t \in Moments /\ t.wins = s.wins /\ t.named = s.named /\ t.lit = s.lit \ {w} /\ t.recent = s.recent
  BY DEF Sane, Moments
<1> HIDE DEF t
<1>3. Once(t.recent) /\ ToSet(t.recent) \subseteq {grp[v] : v \in t.named}
  BY <1>2 DEF Sane
<1>4. t.lit \subseteq t.named /\ t.named \subseteq t.wins
  BY <1>2 DEF Sane
<1>5. \A v \in t.lit : t.recent # <<>> /\ grp[v] = Head(t.recent)
  BY <1>2 DEF Sane
<1>6. QED
  BY <1>1, <1>2, <1>3, <1>4, <1>5 DEF Sane, t

\* A window is focused: the one before is told to be left, before or after.
LEMMA FocusLeads ==
    ASSUME NEW grp, NEW q \in Seq(Events), NEW s, NEW now, Leads(grp, s, q, now),
           NEW w \in now.named, grp[w] \in Keys
    PROVE  LET t == [now EXCEPT !.lit = {w}, !.recent = Fronted(@, grp[w])]
           IN  /\ now.lit = {} => Leads(grp, s, Append(q, State(w, TRUE)), t)
               /\ \A f : f # w /\ now.lit = {f} =>
                    /\ Leads(grp, s, Append(Append(q, State(f, FALSE)), State(w, TRUE)), t)
                    /\ Leads(grp, s, Append(Append(q, State(w, TRUE)), State(f, FALSE)), t)
<1> DEFINE t == [now EXCEPT !.lit = {w}, !.recent = Fronted(@, grp[w])]
<1>1. Sane(grp, now) /\ now \in Moments /\ w \in Wins
  <2>1. Sane(grp, now)
    BY LeadsToSane
  <2>2. QED
    BY <2>1 DEF Sane, Moments
<1>2. \A x \in Wins : State(x, TRUE) \in Events /\ State(x, FALSE) \in Events
  BY MakesEvents
<1>3. ASSUME now.lit = {} PROVE Leads(grp, s, Append(q, State(w, TRUE)), t)
  <2> DEFINE u == [now EXCEPT !.lit = @ \cup {w}, !.recent = Fronted(@, grp[w])]
  <2>1. Settled(now) /\ w \in now.named \ now.lit
    BY <1>3 DEF Settled
  <2>2. Sane(grp, u) /\ Turn(grp, now, State(w, TRUE), u)
    BY <1>1, <2>1, LightTurns
  <2>3. u = t
    BY <1>1, <1>3 DEF Moments
  <2> HIDE DEF u, t
  <2>4. Leads(grp, s, Append(q, State(w, TRUE)), u)
    BY <1>1, <1>2, <2>2, LeadsOn
  <2>5. QED
    BY <2>3, <2>4
<1>4. ASSUME NEW f, f # w, now.lit = {f}
      PROVE  Leads(grp, s, Append(Append(q, State(f, FALSE)), State(w, TRUE)), t)
  <2> DEFINE m == [now EXCEPT !.lit = @ \ {f}]
             u == [m EXCEPT !.lit = @ \cup {w}, !.recent = Fronted(@, grp[w])]
  <2>1. f \in now.lit /\ f \in Wins /\ \A v \in now.lit \ {f} : now.lit = {v, f} /\ grp[v] = Head(now.recent)
    BY <1>1, <1>4 DEF Moments
  <2>2. Sane(grp, m) /\ Turn(grp, now, State(f, FALSE), m)
    BY <1>1, <2>1, DimTurns
  <2>3. m.lit = {} /\ w \in m.named \ m.lit /\ u = t
    BY <1>1, <1>4 DEF Moments
  <2> HIDE DEF m
  <2>4. Settled(m)
    BY <2>3 DEF Settled
  <2>5. Sane(grp, u) /\ Turn(grp, m, State(w, TRUE), u)
    BY <2>2, <2>3, <2>4, LightTurns
  <2> HIDE DEF u, t
  <2> DEFINE p == Append(q, State(f, FALSE))
  <2>6. p \in Seq(Events) /\ Leads(grp, s, p, m)
    <3> DEFINE e == State(f, FALSE)
    <3>1. e \in Events /\ Turn(grp, now, e, m) /\ p = Append(q, e)
      BY <1>2, <2>1, <2>2
    <3> HIDE DEF e, p
    <3>2. QED
      BY <2>2, <3>1, LeadsOn
  <2> HIDE DEF p
  <2>7. Leads(grp, s, Append(p, State(w, TRUE)), u)
    BY <1>1, <1>2, <2>5, <2>6, LeadsOn
  <2>8. QED
    BY <2>3, <2>7 DEF p
<1>5. ASSUME NEW f, f # w, now.lit = {f}
      PROVE  Leads(grp, s, Append(Append(q, State(w, TRUE)), State(f, FALSE)), t)
  <2> DEFINE m == [now EXCEPT !.lit = @ \cup {w}, !.recent = Fronted(@, grp[w])]
             u == [m EXCEPT !.lit = @ \ {f}]
  <2>1. Settled(now) /\ w \in now.named \ now.lit /\ f \in Wins
    BY <1>1, <1>5 DEF Settled, Moments
  <2>2. Sane(grp, m) /\ Turn(grp, now, State(w, TRUE), m) /\ Head(m.recent) = grp[w]
    BY <1>1, <2>1, LightTurns
  <2>3. m.lit = {f, w} /\ u = t
    BY <1>1, <1>5 DEF Moments
  <2> HIDE DEF m
  <2>4. f \in m.lit /\ \A v \in m.lit \ {f} : m.lit = {v, f} /\ grp[v] = Head(m.recent)
    BY <2>2, <2>3
  <2>5. Sane(grp, u) /\ Turn(grp, m, State(f, FALSE), u)
    BY <2>2, <2>4, DimTurns
  <2> HIDE DEF u, t
  <2> DEFINE p == Append(q, State(w, TRUE))
  <2>6. p \in Seq(Events) /\ Leads(grp, s, p, m)
    <3> DEFINE e == State(w, TRUE)
    <3>1. e \in Events /\ Turn(grp, now, e, m) /\ p = Append(q, e)
      BY <1>1, <1>2, <2>2
    <3> HIDE DEF e, p
    <3>2. QED
      BY <2>2, <3>1, LeadsOn
  <2> HIDE DEF p
  <2>7. Leads(grp, s, Append(p, State(f, FALSE)), u)
    BY <1>2, <2>1, <2>5, <2>6, LeadsOn
  <2>8. QED
    BY <2>3, <2>7 DEF p
<1>6. QED
  BY <1>3, <1>4, <1>5

LEMMA KnowsStill ==
    ASSUME NEW s, Knows(s), UNCHANGED <<byApp, cache, groups>>
    PROVE  Knows(s)'
<1>1. \A e : KeyOf(e)' = KeyOf(e)
  BY DEF KeyOf
<1>2. QED
  BY <1>1 DEF Knows, KeySet, Shows, Ordered, Partly

\* The groups are made anew from the same window list.
LEMMA KnowsAgain ==
    ASSUME byApp \in BOOLEAN, Listing, NEW s, Sane(GroupFn, s), Knows(s),
           groups' = Rebuilt(KeysIn(cache), LitIn(cache)), UNCHANGED <<byApp, cache>>
    PROVE  Knows(s)'
<1>1. s.lit = {} => Within(groups, ToSet(s.recent)) = s.recent
  BY DEF Knows, Ordered, Settled
<1>2. ToSet(groups') = KeySet(cache) /\ Ordered(groups', s)
  BY <1>1, RebuiltOrders DEF Listing, Knows, Ordered
<1>3. \A e : KeyOf(e)' = KeyOf(e)
  BY DEF KeyOf
<1>4. QED
  BY <1>2, <1>3 DEF Knows, KeySet, Shows, Ordered, Partly

\* What a change of the list takes from a moment that leaves the order of the groups alone.
LEMMA KnowsNext ==
    ASSUME byApp \in BOOLEAN, Listing, UNCHANGED byApp, NEW s, Sane(GroupFn, s), Knows(s),
           NEW t, Sane(GroupFn, t), t.recent = s.recent, t.lit = {} => Settled(s),
           NEW c \in Seq(Entries), Shows(c, t),
           NEW e, WindowsChanged(c, e), ~(e.active /\ e.named)
    PROVE  Knows(t)'
<1>1. Partly(groups, t) /\ (t.lit = {} => Within(groups, ToSet(t.recent)) = t.recent)
  BY DEF Knows, Ordered, Partly, Older
<1>2. QED
  BY <1>1, ChangedOrders DEF Listing

\* The window list c is that of the moment after s in which window w is told of.
Renewed(c, s, w, named, on) ==
    \A t : /\ t.wins = s.wins
           /\ \A v : (v \in t.named <=> IF v = w THEN named \/ w \in s.named ELSE v \in s.named)
           /\ \A v : (v \in t.lit <=> IF v = w THEN on ELSE v \in s.lit)
           => Shows(c, t)

LEMMA ToldList ==
    ASSUME Listing, NEW s, Shows(cache, s), NEW w \in s.wins, w \in Wins, NEW named \in BOOLEAN, NEW on \in BOOLEAN,
           Told(w, named, on)
    PROVE  \E c, e :
              /\ c \in Seq(Entries) /\ WindowsChanged(c, e) /\ e \in ToSet(c) /\ e.win = w
              /\ Renewed(c, s, w, named, on)
<1> DEFINE New(i) == [win |-> w, named |-> named \/ cache[i].named, active |-> on]
           c == [i \in DOMAIN cache |-> IF cache[i].win = w THEN New(i) ELSE cache[i]]
           e == CHOOSE f \in ToSet(c) : f.win = w
<1>1. cache \in Seq(Entries) /\ DOMAIN cache = 1..Len(cache) /\ Len(cache) \in Nat
  BY DEF Listing
<1>2. ASSUME NEW i \in DOMAIN cache
      PROVE  /\ c[i] \in Entries /\ cache[i] \in ToSet(cache) /\ c[i].win = cache[i].win
             /\ c[i].named <=> IF cache[i].win = w THEN named \/ cache[i].named ELSE cache[i].named
             /\ c[i].active <=> IF cache[i].win = w THEN on ELSE cache[i].active
  <2>1. cache[i] \in Entries /\ cache[i] \in ToSet(cache)
    BY <1>1 DEF ToSet
  <2>2. (named \/ cache[i].named) \in BOOLEAN
    OBVIOUS
  <2>3. New(i) \in Entries
    BY <2>2 DEF Entries
  <2>4. New(i).win = w /\ (New(i).named <=> (named \/ cache[i].named)) /\ New(i).active = on
    BY <2>2
  <2>5. c[i] = IF cache[i].win = w THEN New(i) ELSE cache[i]
    OBVIOUS
  <2> HIDE DEF New, c
  <2>6. QED
    BY <2>1, <2>3, <2>4, <2>5
<1>3. DOMAIN c = DOMAIN cache
  OBVIOUS
<1> HIDE DEF c
<1>4. c \in Seq(Entries)
  <2>1. \A i \in 1..Len(cache) : c[i] \in Entries
    BY <1>1, <1>2
  <2>2. c = [i \in 1..Len(cache) |-> c[i]]
    BY <1>1 DEF c
  <2>3. QED
    BY <1>1, <2>1, <2>2
<1>5. ToSet(c) = {c[i] : i \in DOMAIN cache} /\ ToSet(cache) = {cache[i] : i \in DOMAIN cache}
  BY <1>3 DEF ToSet
<1>6. {f.win : f \in ToSet(c)} = {f.win : f \in ToSet(cache)}
  BY <1>2, <1>5
<1>7. \E f \in ToSet(c) : f.win = w
  BY <1>6 DEF Shows
<1>8. e \in ToSet(c) /\ e.win = w
  BY <1>7
<1>9. WindowsChanged(c, e)
  BY DEF Told, c
<1> HIDE DEF e
<1>10. ASSUME NEW t, t.wins = s.wins,
              \A v : (v \in t.named <=> IF v = w THEN named \/ w \in s.named ELSE v \in s.named),
              \A v : (v \in t.lit <=> IF v = w THEN on ELSE v \in s.lit)
       PROVE  Shows(c, t)
  <2>1. ASSUME NEW i \in DOMAIN cache
        PROVE  (c[i].named <=> c[i].win \in t.named) /\ (c[i].active <=> c[i].win \in t.lit)
    <3>1. (cache[i].named <=> cache[i].win \in s.named) /\ (cache[i].active <=> cache[i].win \in s.lit)
      BY <1>2 DEF Shows
    <3>2. QED
      BY <1>2, <1>10, <3>1
  <2>2. \A f \in ToSet(c) : (f.named <=> f.win \in t.named) /\ (f.active <=> f.win \in t.lit)
    BY <1>5, <2>1
  <2>3. QED
    BY <1>6, <1>10, <2>2 DEF Shows
<1>11. Renewed(c, s, w, named, on)
  BY <1>10 DEF Renewed
<1>12. QED
  BY <1>4, <1>8, <1>9, <1>11

\* The four kinds of window events are told apart.
LEMMA EventsDiffer ==
    ASSUME NEW w, NEW on \in BOOLEAN
    PROVE  /\ Toplevel(w).event = "toplevel" /\ Toplevel(w).win = w
           /\ AppId(w).event = "app_id" /\ AppId(w).win = w
           /\ State(w, on).event = "state" /\ State(w, on).win = w /\ State(w, on).on = on
           /\ Closed(w).event = "closed" /\ Closed(w).win = w
           /\ Mods(on).event = "modifiers" /\ Configure.event = "configure" /\ \A k : Key(k).event = "key"
           /\ Click.event = "click"
  BY DEF Toplevel, AppId, State, Closed, Mods, Configure, Key, Click

\* A window event takes the client to the next moment.
LEMMA WindowTold ==
    ASSUME byApp \in BOOLEAN, UNCHANGED byApp, Listing, NEW s, Sane(GroupFn, s), Knows(s),
           NEW e, NEW t, Sane(GroupFn, t), Turn(GroupFn, s, e, t), OnWindow(e)
    PROVE  Knows(t)'
<1>0. /\ s \in Moments /\ s.lit \subseteq s.named /\ s.named \subseteq s.wins /\ s.wins \subseteq Wins
      /\ s.recent \in Seq(Keys)
      /\ t \in Moments
      /\ cache \in Seq(Entries) /\ groups \in Seq(Keys) /\ Shows(cache, s)
  BY DEF Sane, Moments, Listing, Knows
<1>1. ASSUME NEW w \in Wins \ s.wins, e = Toplevel(w), t = [s EXCEPT !.wins = @ \cup {w}]
      PROVE  Knows(t)'
  <2> DEFINE new == [win |-> w, named |-> FALSE, active |-> FALSE]
             c == Append(cache, new)
  <2>1. t.wins = s.wins \cup {w} /\ t.named = s.named /\ t.lit = s.lit /\ t.recent = s.recent
    BY <1>0, <1>1 DEF Moments
  <2>2. new \in Entries /\ new.win = w /\ new.named = FALSE /\ new.active = FALSE
    BY DEF Entries
  <2>3. WindowsChanged(c, new)
    <3>1. e.event = "toplevel" /\ e.win = w
      BY <1>1, EventsDiffer
    <3>2. QED
      BY <3>1 DEF OnWindow
  <2> HIDE DEF new
  <2>4. c \in Seq(Entries) /\ ToSet(c) = ToSet(cache) \cup {new}
    <3>1. ToSet(c) = ToSet(cache) \cup {new}
      BY <1>0, SetAppended
    <3>2. QED
      BY <1>0, <2>2, <3>1
  <2> HIDE DEF c
  <2>5. w \notin s.named /\ w \notin s.lit
    BY <1>0
  <2>6. {f.win : f \in ToSet(c)} = t.wins
    BY <1>0, <2>1, <2>2, <2>4 DEF Shows
  <2>7. \A f \in ToSet(c) : (f.named <=> f.win \in t.named) /\ (f.active <=> f.win \in t.lit)
    BY <1>0, <2>1, <2>2, <2>4, <2>5 DEF Shows
  <2>8. Shows(c, t)
    BY <2>6, <2>7 DEF Shows
  <2>9. t.lit = {} => Settled(s)
    BY <2>1 DEF Settled
  <2>10. QED
    BY <2>1, <2>2, <2>3, <2>4, <2>8, <2>9, KnowsNext
<1>2. ASSUME NEW w \in s.wins \ s.named, e = AppId(w), t = [s EXCEPT !.named = @ \cup {w}]
      PROVE  Knows(t)'
  <2>1. t.wins = s.wins /\ t.named = s.named \cup {w} /\ t.lit = s.lit /\ t.recent = s.recent
    BY <1>0, <1>2 DEF Moments
  <2>2. w \notin s.lit /\ ~IsActive(w)
    BY <1>0 DEF Shows, IsActive
  <2>3. Told(w, TRUE, IsActive(w)) /\ IsActive(w) \in BOOLEAN
    <3>1. e.event = "app_id" /\ e.win = w
      BY <1>2, EventsDiffer
    <3>2. QED
      BY <3>1 DEF OnWindow, IsActive
  <2>4. PICK c, x :
           /\ c \in Seq(Entries) /\ WindowsChanged(c, x) /\ x \in ToSet(c) /\ x.win = w
           /\ Renewed(c, s, w, TRUE, IsActive(w))
    <3>1. w \in Wins /\ TRUE \in BOOLEAN
      BY <1>0
    <3>2. ASSUME NEW named \in BOOLEAN, NEW on \in BOOLEAN, Told(w, named, on)
          PROVE  \E c, x :
                    c \in Seq(Entries) /\ WindowsChanged(c, x) /\ x \in ToSet(c) /\ x.win = w /\ Renewed(c, s, w, named, on)
      BY <1>0, <3>1, <3>2, ToldList
    <3>3. QED
      BY <2>3, <3>1, <3>2, Zenon
  <2>5. Shows(c, t)
    <3>1. \A v : v \in t.named <=> IF v = w THEN TRUE \/ w \in s.named ELSE v \in s.named
      BY <2>1
    <3>2. \A v : v \in t.lit <=> IF v = w THEN IsActive(w) ELSE v \in s.lit
      BY <2>1, <2>2
    <3>3. QED
      BY <2>1, <2>4, <3>1, <3>2 DEF Renewed
  <2>6. ~x.active
    BY <2>1, <2>2, <2>4, <2>5 DEF Shows
  <2>7. t.lit = {} => Settled(s)
    BY <2>1 DEF Settled
  <2>8. QED
    BY <2>1, <2>4, <2>5, <2>6, <2>7, KnowsNext
<1>3. ASSUME NEW w \in s.named \ s.lit, e = State(w, TRUE), Settled(s),
             t = [s EXCEPT !.lit = @ \cup {w}, !.recent = Fronted(@, GroupFn[w])]
      PROVE  Knows(t)'
  <2>1. t.wins = s.wins /\ t.named = s.named /\ t.lit = s.lit \cup {w} /\ t.recent = Fronted(s.recent, GroupFn[w])
    BY <1>0, <1>3 DEF Moments
  <2>2. w \in s.wins /\ w \in Wins /\ GroupFn[w] = GroupOf(w) /\ GroupFn[w] \in Keys
    BY <1>0, <1>3 DEF GroupFn, GroupOf, Keys, Apps
  <2>3. Listed(w)
    BY <1>0, <2>2 DEF Shows, Listed
  <2>4. Told(w, FALSE, TRUE)
    <3>1. e.event = "state" /\ e.win = w /\ e.on = TRUE
      BY <1>3 DEF State
    <3>2. Told(e.win, FALSE, e.on)
      BY <2>3, <3>1 DEF OnWindow
    <3>3. QED
      BY <3>1, <3>2
  <2>5. PICK c, x :
           /\ c \in Seq(Entries) /\ WindowsChanged(c, x) /\ x \in ToSet(c) /\ x.win = w
           /\ Renewed(c, s, w, FALSE, TRUE)
    BY <1>0, <2>2, <2>4, ToldList
  <2>6. Shows(c, t)
    <3>1. \A v : v \in t.named <=> IF v = w THEN FALSE \/ w \in s.named ELSE v \in s.named
      BY <2>1
    <3>2. \A v : v \in t.lit <=> IF v = w THEN TRUE ELSE v \in s.lit
      BY <2>1
    <3>3. QED
      BY <2>1, <2>5, <3>1, <3>2 DEF Renewed
  <2>7. Head(t.recent) = GroupOf(w) /\ ToSet(t.recent) = ToSet(s.recent) \cup {GroupFn[w]}
        /\ Older(t) = Within(s.recent, ToSet(s.recent) \ {GroupFn[w]})
    <3>1. GroupFn[w] \in Keys /\ w \in s.named \ s.lit
      BY <1>3, <2>2
    <3> DEFINE grp == GroupFn
    <3>2. Sane(grp, s) /\ grp[w] \in Keys
      BY <3>1
    <3> HIDE DEF grp
    <3> DEFINE u == [s EXCEPT !.lit = @ \cup {w}, !.recent = Fronted(@, grp[w])]
    <3>3. /\ Sane(grp, u) /\ Turn(grp, s, State(w, TRUE), u)
          /\ Head(u.recent) = grp[w] /\ u.recent # <<>> /\ ToSet(u.recent) = ToSet(s.recent) \cup {grp[w]}
          /\ Older(u) = Within(s.recent, ToSet(s.recent) \ {grp[w]})
      BY <1>3, <3>1, <3>2, LightTurns
    <3>4. t = u
      BY <1>3 DEF grp
    <3> HIDE DEF u
    <3>5. QED
      BY <2>2, <3>3, <3>4 DEF grp
  <2>8. Partly(groups, t)
    <3> DEFINE R == ToSet(s.recent)
               k == GroupFn[w]
    <3>1. Within(groups, R) = s.recent
      BY <1>3 DEF Knows, Ordered
    <3>2. Within(Within(groups, R), R \ {k}) = Within(groups, R \cap (R \ {k}))
      BY <1>0, WithinAgain
    <3>3. ToSet(t.recent) \ {Head(t.recent)} = R \cap (R \ {k})
      BY <2>2, <2>7
    <3>4. Within(groups, ToSet(t.recent) \ {Head(t.recent)}) = Older(t)
      BY <2>7, <3>1, <3>2, <3>3
    <3>5. QED
      BY <3>4 DEF Partly
  <2>9. w \in t.lit /\ t.lit # {}
    BY <2>1
  <2>10. QED
    BY <1>0, <2>5, <2>6, <2>7, <2>8, <2>9, ChangedOrders
<1>4. ASSUME NEW w \in s.lit, e = State(w, FALSE),
             \A v \in s.lit \ {w} : s.lit = {v, w} /\ GroupFn[v] = Head(s.recent),
             t = [s EXCEPT !.lit = @ \ {w}]
      PROVE  Knows(t)'
  <2>1. t.wins = s.wins /\ t.named = s.named /\ t.lit = s.lit \ {w} /\ t.recent = s.recent
    BY <1>0, <1>4 DEF Moments
  <2>2. w \in s.wins /\ w \in Wins
    BY <1>0, <1>4
  <2>3. Listed(w)
    BY <1>0, <2>2 DEF Shows, Listed
  <2>4. Told(w, FALSE, FALSE)
    <3>1. e.event = "state" /\ e.win = w /\ e.on = FALSE
      BY <1>4 DEF State
    <3>2. Told(e.win, FALSE, e.on)
      BY <2>3, <3>1 DEF OnWindow
    <3>3. QED
      BY <3>1, <3>2
  <2>5. PICK c, x :
           /\ c \in Seq(Entries) /\ WindowsChanged(c, x) /\ x \in ToSet(c) /\ x.win = w
           /\ Renewed(c, s, w, FALSE, FALSE)
    BY <1>0, <2>2, <2>4, ToldList
  <2>6. Shows(c, t)
    <3>1. \A v : v \in t.named <=> IF v = w THEN FALSE \/ w \in s.named ELSE v \in s.named
      BY <2>1
    <3>2. \A v : v \in t.lit <=> IF v = w THEN FALSE ELSE v \in s.lit
      BY <2>1
    <3>3. QED
      BY <2>1, <2>5, <3>1, <3>2 DEF Renewed
  <2>7. ~x.active
    BY <2>1, <2>5, <2>6 DEF Shows
  <2>8. t.lit = {} => Settled(s)
    BY <2>1 DEF Settled
  <2>9. QED
    BY <2>1, <2>5, <2>6, <2>7, <2>8, KnowsNext
<1>5. ASSUME NEW w \in s.wins, e = Closed(w), Settled(s),
             t = [wins |-> s.wins \ {w}, named |-> s.named \ {w}, lit |-> s.lit \ {w},
                  recent |-> IF \E v \in s.named \ {w} : GroupFn[v] = GroupFn[w] THEN s.recent
                             ELSE Within(s.recent, ToSet(s.recent) \ {GroupFn[w]})]
      PROVE  Knows(t)'
  <2> DEFINE c == Within(cache, {f \in ToSet(cache) : f.win # w})
             x == [win |-> w, named |-> FALSE, active |-> FALSE]
             R == ToSet(s.recent)
             k == GroupFn[w]
  <2>1. t.wins = s.wins \ {w} /\ t.named = s.named \ {w} /\ t.lit = s.lit \ {w}
        /\ (t.recent = s.recent \/ t.recent = Within(s.recent, R \ {k}))
    BY <1>5
  <2>2. WindowsChanged(c, x) /\ ~x.active
    <3>1. e.event = "closed" /\ e.win = w
      BY <1>5, EventsDiffer
    <3>2. QED
      BY <3>1 DEF OnWindow
  <2>3. c \in Seq(Entries) /\ ToSet(c) = {f \in ToSet(cache) : f.win # w}
    <3>1. ToSet(c) = ToSet(cache) \cap {f \in ToSet(cache) : f.win # w}
      BY <1>0, WithinSet
    <3>2. QED
      BY <1>0, <3>1, WithinType
  <2> HIDE DEF c, x
  <2>4. Shows(c, t)
    <3>1. {f.win : f \in ToSet(c)} = t.wins
      BY <1>0, <2>1, <2>3 DEF Shows
    <3>2. \A f \in ToSet(c) : (f.named <=> f.win \in t.named) /\ (f.active <=> f.win \in t.lit)
      BY <1>0, <2>1, <2>3 DEF Shows
    <3>3. QED
      BY <3>1, <3>2 DEF Shows
  <2>5. Within(groups, ToSet(t.recent)) = t.recent
    <3>1. Within(groups, R) = s.recent
      BY <1>5 DEF Knows, Ordered
    <3>2. Within(Within(groups, R), R \ {k}) = Within(groups, R \cap (R \ {k}))
      BY <1>0, WithinAgain
    <3>3. ToSet(Within(s.recent, R \ {k})) = R \cap (R \ {k})
      BY <1>0, WithinSet
    <3>4. QED
      BY <2>1, <3>1, <3>2, <3>3
  <2>6. Partly(groups, t)
    <3> DEFINE T == ToSet(t.recent)
    <3>1. Within(Within(groups, T), T \ {Head(t.recent)}) = Within(groups, T \cap (T \ {Head(t.recent)}))
      BY <1>0, WithinAgain
    <3>2. T \cap (T \ {Head(t.recent)}) = T \ {Head(t.recent)}
      OBVIOUS
    <3>3. QED
      BY <2>5, <3>1, <3>2 DEF Partly, Older
  <2>7. QED
    BY <1>0, <2>2, <2>3, <2>4, <2>5, <2>6, ChangedOrders
<1>6. ~(e.event \in {"modifiers", "key", "configure", "click"})
  BY DEF OnWindow
<1>7. QED
  BY <1>1, <1>2, <1>3, <1>4, <1>5, <1>6 DEF Turn

\* The moment that is now.
Now == [wins |-> open, named |-> open, lit |-> IF focus = Noone THEN {} ELSE {focus}, recent |-> recent]

\* The client knows a moment from which the wire leads to now.
Lagging == byApp \in BOOLEAN /\ \E s : Leads(GroupFn, s, wire, Now) /\ Knows(s)

LEMMA NowFacts ==
    /\ Now.wins = open /\ Now.named = open /\ Now.recent = recent
    /\ Now.lit = IF focus = Noone THEN {} ELSE {focus}
    /\ Settled(Now)
  BY DEF Now, Settled

LEMMA GroupsAreKeys ==
    /\ \A w \in Wins : GroupFn[w] = GroupOf(w) /\ GroupFn[w] \in Keys
    /\ UNCHANGED byApp => GroupFn' = GroupFn
<1>1. UNCHANGED byApp => \A w : GroupOf(w)' = GroupOf(w)
  BY DEF GroupOf
<1>2. UNCHANGED byApp => GroupFn' = GroupFn
  BY <1>1 DEF GroupFn
<1>3. QED
  BY <1>2 DEF GroupFn, GroupOf, Keys, Apps

LEMMA TwoMore ==
    ASSUME NEW S, NEW q \in Seq(S), NEW a \in S, NEW b \in S
    PROVE  q \o (<<a>> \o <<b>>) = Append(Append(q, a), b)
<1> DEFINE one == <<a>>
           two == <<b>>
<1>1. one \in Seq(S) /\ two \in Seq(S) /\ q \o one = Append(q, a) /\ Append(q, a) \in Seq(S)
      /\ Append(q, a) \o two = Append(Append(q, a), b)
  <2>1. one \in Seq(S) /\ two \in Seq(S) /\ Append(q, a) \in Seq(S)
    OBVIOUS
  <2>2. q \o one = Append(q, a)
    OBVIOUS
  <2>3. \A p \in Seq(S) : p \o two = Append(p, b)
    OBVIOUS
  <2>4. QED
    BY <2>1, <2>2, <2>3
<1> HIDE DEF one, two
<1>2. q \o (one \o two) = (q \o one) \o two
  BY <1>1, ConcatAssociative
<1>3. QED
  BY <1>1, <1>2 DEF one, two

LEMMA FocusLags ==
    ASSUME Wired, UNCHANGED open, NEW w \in open, Focus(w), NEW s, Leads(GroupFn, s, wire, Now)
    PROVE  Leads(GroupFn, s, wire', Now')
<1> DEFINE on == State(w, TRUE)
           off == State(focus, FALSE)
           t == [Now EXCEPT !.lit = {w}, !.recent = Fronted(@, GroupFn[w])]
<1>1. wire \in Seq(Events) /\ w \in Wins /\ w # Noone /\ w # focus /\ (focus # Noone => focus \in Wins)
  BY AppSwitcherAssumption DEF Wired, Focus
<1>2. on \in Events /\ (focus # Noone => off \in Events)
  BY <1>1, MakesEvents
<1>3. Now' = t
  <2>1. focus' = w /\ recent' = Fronted(recent, GroupFn[w]) /\ open' = open
    BY <1>1, GroupsAreKeys DEF Focus, Fronted
  <2>2. t = [wins |-> open, named |-> open, lit |-> {w}, recent |-> Fronted(recent, GroupFn[w])]
    <3>1. t \in Moments /\ t.wins = open /\ t.named = open /\ t.lit = {w} /\ t.recent = Fronted(recent, GroupFn[w])
      <4>1. Now \in Moments
        BY <1>1, LeadsToSane DEF Sane
      <4>2. Fronted(Now.recent, GroupFn[w]) \in Seq(Keys)
        <5>1. Now.recent \in Seq(Keys) /\ Once(Now.recent)
          <6>1. Sane(GroupFn, Now)
            BY <1>1, LeadsToSane
          <6>2. QED
            BY <4>1, <6>1 DEF Sane, Moments
        <5>2. GroupFn[w] \in Keys
          BY <1>1, GroupsAreKeys
        <5>3. QED
          BY <5>1, <5>2, OnceFronted
      <4>3. QED
        BY <1>1, <4>1, <4>2, NowFacts DEF Moments
    <3> HIDE DEF t
    <3>2. QED
      BY <3>1 DEF Moments
  <2> HIDE DEF t
  <2>3. QED
    BY <1>1, <2>1, <2>2 DEF Now
<1>4. w \in Now.named /\ GroupFn[w] \in Keys
  BY <1>1, NowFacts, GroupsAreKeys
<1> DEFINE one == Append(wire, on)
           left_ == Append(Append(wire, off), on)
           found == Append(Append(wire, on), off)
<1>5. /\ Now.lit = {} => Leads(GroupFn, s, one, t)
      /\ focus # w /\ Now.lit = {focus} => Leads(GroupFn, s, left_, t) /\ Leads(GroupFn, s, found, t)
  BY <1>1, <1>4, FocusLeads
<1>6. IF focus = Noone THEN wire' = one ELSE wire' = left_ \/ wire' = found
  <2>1. wire' = wire \o (Deactivated \o <<on>>) \/ wire' = wire \o (<<on>> \o Deactivated)
    BY DEF Focus, Sent
  <2>2. Deactivated = IF focus = Noone THEN <<>> ELSE <<off>>
    BY DEF Deactivated
  <2> HIDE DEF on, off
  <2>3. CASE focus = Noone
    <3>1. Deactivated \o <<on>> = <<on>> /\ <<on>> \o Deactivated = <<on>> /\ wire \o <<on>> = Append(wire, on)
      BY <1>1, <1>2, <2>2, <2>3
    <3>2. QED
      BY <2>1, <2>3, <3>1
  <2>4. CASE focus # Noone
    <3>1. wire \o (<<off>> \o <<on>>) = Append(Append(wire, off), on)
      BY <1>1, <1>2, <2>4, TwoMore
    <3>2. wire \o (<<on>> \o <<off>>) = Append(Append(wire, on), off)
      BY <1>1, <1>2, <2>4, TwoMore
    <3>3. Deactivated = <<off>>
      BY <2>2, <2>4
    <3>4. QED
      BY <2>1, <2>4, <3>1, <3>2, <3>3
  <2>5. QED
    BY <2>3, <2>4
<1>7. Now.lit = IF focus = Noone THEN {} ELSE {focus}
  BY NowFacts
<1> HIDE DEF one, left_, found, t
<1>8. QED
  BY <1>1, <1>3, <1>5, <1>6, <1>7

LEMMA AsideLags ==
    ASSUME UNCHANGED <<open, focus, recent>>, NEW q \in Seq(Events), NEW s, Leads(GroupFn, s, q, Now),
           NEW e \in Events, e.event \in {"modifiers", "key", "configure", "click"}, wire' = q \/ wire' = Append(q, e)
    PROVE  Leads(GroupFn, s, wire', Now')
<1>1. Now' = Now
  BY DEF Now
<1>2. Sane(GroupFn, Now)
  BY LeadsToSane
<1>3. Leads(GroupFn, s, Append(q, e), Now)
  BY <1>2, LeadsAside
<1>4. QED
  BY <1>1, <1>3

LEMMA OpenLags ==
    ASSUME Wired, NEW w \in Wins, Open(w), NEW s, Leads(GroupFn, s, wire, Now)
    PROVE  Leads(GroupFn, s, wire', Now')
<1> DEFINE m == [Now EXCEPT !.wins = @ \cup {w}]
           t == [m EXCEPT !.named = @ \cup {w}]
           a == Toplevel(w)
           b == AppId(w)
<1>1. wire \in Seq(Events) /\ a \in Events /\ b \in Events
  BY MakesEvents DEF Wired
<1>2. Sane(GroupFn, Now)
  BY <1>1, LeadsToSane
<1>3. w \in Wins \ Now.wins
  BY NowFacts DEF Open
<1>4. Sane(GroupFn, m) /\ Turn(GroupFn, Now, a, m) /\ Sane(GroupFn, t) /\ Turn(GroupFn, m, b, t)
  BY <1>2, <1>3, OpenTurns
<1>5. Now' = t
  <2>1. open' = open \cup {w} /\ UNCHANGED <<focus, recent>>
    BY DEF Open
  <2>2. t = [wins |-> open \cup {w}, named |-> open \cup {w},
             lit |-> IF focus = Noone THEN {} ELSE {focus}, recent |-> recent]
    <3>1. t \in Moments /\ t.wins = open \cup {w} /\ t.named = open \cup {w}
          /\ t.lit = (IF focus = Noone THEN {} ELSE {focus}) /\ t.recent = recent
      <4>1. Now \in Moments
        BY <1>2 DEF Sane
      <4>2. QED
        BY <4>1, NowFacts DEF Moments
    <3> HIDE DEF t
    <3>2. QED
      BY <3>1 DEF Moments
  <2> HIDE DEF t
  <2>3. QED
    BY <2>1, <2>2 DEF Now
<1> HIDE DEF a, b, m, t
<1>6. Leads(GroupFn, s, Append(wire, a), m) /\ Append(wire, a) \in Seq(Events)
  <2>1. Append(wire, a) \in Seq(Events)
    BY <1>1
  <2>2. QED
    BY <1>1, <1>4, <2>1, LeadsOn
<1>7. Leads(GroupFn, s, Append(Append(wire, a), b), t)
  <2> DEFINE p == Append(wire, a)
  <2> HIDE DEF p
  <2>1. p \in Seq(Events) /\ Leads(GroupFn, s, p, m)
    BY <1>6 DEF p
  <2>2. Leads(GroupFn, s, Append(p, b), t)
    BY <1>1, <1>4, <2>1, LeadsOn
  <2>3. QED
    BY <2>2 DEF p
<1>8. wire' = wire \o <<a, b>>
  BY DEF Open, Sent, a, b
<1>9. wire \o <<a, b>> = Append(Append(wire, a), b)
  BY <1>1
<1>10. QED
  BY <1>5, <1>7, <1>8, <1>9

LEMMA CloseLags ==
    ASSUME Wired, NEW w \in Wins, Close(w), NEW s, Leads(GroupFn, s, wire, Now)
    PROVE  Leads(GroupFn, s, wire', Now')
<1> DEFINE e == Closed(w)
           k == GroupFn[w]
           t == [wins |-> Now.wins \ {w}, named |-> Now.named \ {w}, lit |-> Now.lit \ {w},
                 recent |-> IF \E v \in Now.named \ {w} : GroupFn[v] = k THEN Now.recent
                            ELSE Within(Now.recent, ToSet(Now.recent) \ {k})]
<1>1. wire \in Seq(Events) /\ e \in Events /\ open \subseteq Wins
  BY MakesEvents DEF Wired
<1>2. Sane(GroupFn, Now) /\ Settled(Now) /\ w \in Now.wins
  BY <1>1, LeadsToSane, NowFacts DEF Close
<1>3. Sane(GroupFn, t) /\ Turn(GroupFn, Now, e, t)
  BY <1>2, CloseTurns
<1>4. Now' = t
  <2>1. \A v \in Wins : GroupFn[v] = GroupOf(v)
    BY GroupsAreKeys
  <2>2. open' = open \ {w} /\ focus' = (IF focus = w THEN Noone ELSE focus)
        /\ recent' = IF \E v \in open \ {w} : GroupFn[v] = k THEN recent ELSE Within(recent, ToSet(recent) \ {k})
    BY <1>1, <2>1 DEF Close
  <2>3. t.wins = open \ {w} /\ t.named = open \ {w} /\ t.lit = Now.lit \ {w}
        /\ t.recent = IF \E v \in open \ {w} : GroupFn[v] = k THEN recent ELSE Within(recent, ToSet(recent) \ {k})
    BY NowFacts
  <2>4. (IF focus' = Noone THEN {} ELSE {focus'}) = Now.lit \ {w}
    BY <2>2, NowFacts, AppSwitcherAssumption
  <2>5. t = [wins |-> t.wins, named |-> t.named, lit |-> t.lit, recent |-> t.recent]
    OBVIOUS
  <2> HIDE DEF t, k
  <2>6. QED
    BY <2>2, <2>3, <2>4, <2>5 DEF Now
<1> HIDE DEF t, e
<1>5. Leads(GroupFn, s, Append(wire, e), t)
  BY <1>1, <1>3, LeadsOn
<1>6. wire' = wire \o <<e>>
  BY DEF Close, Sent, e
<1>7. wire \o <<e>> = Append(wire, e)
  BY <1>1
<1>8. QED
  BY <1>4, <1>5, <1>6, <1>7

LEMMA LagsOn ==
    ASSUME byApp \in BOOLEAN, UNCHANGED byApp, NEW s, Leads(GroupFn, s, wire', Now'), Knows(s)'
    PROVE  Lagging'
  BY GroupsAreKeys DEF Lagging

LEMMA WorldLags == ASSUME Wired, World, Lagging PROVE Lagging'
<1>1. UNCHANGED <<byApp, cache, groups>>
  BY DEF World, FocusChanges, Focus, Activate, TurnAlt, Bind, Open, Close, Press, PointAside, Client, manager
<1>2. PICK s : Leads(GroupFn, s, wire, Now) /\ Knows(s)
  BY DEF Lagging
<1>3. byApp \in BOOLEAN /\ Knows(s)' /\ wire \in Seq(Events) /\ open \subseteq Wins
  BY <1>1, <1>2, KnowsStill DEF Lagging, Wired
<1> SUFFICES Leads(GroupFn, s, wire', Now')
  BY <1>1, <1>3, LagsOn
<1>4. Configure \in Events /\ Configure.event = "configure"
  BY MakesEvents, EventsDiffer
<1>5. CASE FocusChanges
  <2>1. PICK w \in open : Focus(w)
    BY <1>5 DEF FocusChanges
  <2>2. UNCHANGED open
    BY <1>5 DEF FocusChanges
  <2>3. QED
    BY <1>2, <2>1, <2>2, FocusLags
<1>6. CASE Activate
  <2>1. CASE asked \in open \ {focus}
    <3>1. asked \in open /\ Focus(asked) /\ UNCHANGED open
      BY <1>6, <2>1 DEF Activate
    <3>2. QED
      BY <1>2, <3>1, FocusLags
  <2>2. CASE asked \notin open \ {focus}
    <3>1. UNCHANGED <<open, focus, recent, wire>>
      BY <1>6, <2>2 DEF Activate
    <3>2. wire' = wire \/ wire' = Append(wire, Configure)
      BY <3>1
    <3>3. QED
      BY <1>2, <1>3, <1>4, <3>1, <3>2, AsideLags
  <2>3. QED
    BY <2>1, <2>2
<1>7. CASE TurnAlt
  <2> DEFINE m == Mods(~alt)
  <2>1. m \in Events /\ m.event = "modifiers"
    <3>1. m \in Events
      BY MakesEvents, (~alt) = TRUE \/ (~alt) = FALSE, Zenon
    <3>2. QED
      BY <3>1 DEF Mods
  <2>2. UNCHANGED <<open, focus, recent>> /\ (wire' = wire \o <<m>> \/ wire' = wire \o <<>>)
    BY <1>7 DEF TurnAlt, Sent
  <2> HIDE DEF m
  <2>3. wire \o <<m>> = Append(wire, m) /\ wire \o <<>> = wire
    BY <1>3, <2>1
  <2>4. wire' = wire \/ wire' = Append(wire, m)
    BY <2>2, <2>3
  <2>5. QED
    BY <1>2, <1>3, <2>1, <2>2, <2>4, AsideLags
<1>8. CASE Bind
  <2>1. UNCHANGED <<open, focus, recent, wire>>
    BY <1>8 DEF Bind
  <2>2. wire' = wire \/ wire' = Append(wire, Configure)
    BY <2>1
  <2>3. QED
    BY <1>2, <1>3, <1>4, <2>1, <2>2, AsideLags
<1>9. ASSUME NEW w \in Wins, Open(w) \/ Close(w) PROVE Leads(GroupFn, s, wire', Now')
  BY <1>2, <1>9, OpenLags, CloseLags
<1>10. ASSUME NEW k \in KeyPresses, Press(k) PROVE Leads(GroupFn, s, wire', Now')
  <2> DEFINE e == Key(k)
  <2>1. e \in Events /\ e.event = "key"
    BY MakesEvents DEF Key
  <2>2. UNCHANGED <<open, focus, recent>> /\ wire' = wire \o <<e>>
    BY <1>10 DEF Press, Sent
  <2> HIDE DEF e
  <2>3. wire \o <<e>> = Append(wire, e)
    BY <1>3, <2>1
  <2>4. QED
    BY <1>2, <1>3, <2>1, <2>2, <2>3, AsideLags
<1>11. CASE PointAside
  <2> DEFINE e == Click
  <2>1. e \in Events /\ e.event = "click"
    BY MakesEvents DEF Click
  <2>2. UNCHANGED <<open, focus, recent>> /\ wire' = wire \o <<e>>
    BY <1>11 DEF PointAside, Sent
  <2> HIDE DEF e
  <2>3. wire \o <<e>> = Append(wire, e)
    BY <1>3, <2>1
  <2>4. QED
    BY <1>2, <1>3, <2>1, <2>2, <2>3, AsideLags
<1>12. QED
  BY <1>5, <1>6, <1>7, <1>8, <1>9, <1>10, <1>11 DEF World

LEMMA TurnAside ==
    ASSUME NEW grp, NEW s, NEW e, NEW t, Turn(grp, s, e, t), e.event \in {"modifiers", "key", "configure", "click"}
    PROVE  t = s
<1>1. \A w : e # Toplevel(w) /\ e # AppId(w) /\ e # Closed(w) /\ e # State(w, TRUE) /\ e # State(w, FALSE)
  BY DEF Toplevel, AppId, Closed, State
<1>2. QED
  BY <1>1 DEF Turn

\* The groups stay, or they are made again from the same list.
LEMMA KnowsAside ==
    ASSUME byApp \in BOOLEAN, Listing, NEW s, Sane(GroupFn, s), Knows(s), UNCHANGED <<byApp, cache>>,
           groups' = groups \/ \E far \in BOOLEAN : Trigger(far)
    PROVE  Knows(s)'
<1>1. CASE groups' = groups
  BY <1>1, KnowsStill
<1>2. CASE \E far \in BOOLEAN : Trigger(far)
  <2>1. groups' = Rebuilt(KeysIn(cache), LitIn(cache))
    BY <1>2 DEF Trigger
  <2>2. QED
    BY <2>1, KnowsAgain
<1>3. QED
  BY <1>1, <1>2

LEMMA HandledLags == ASSUME Wired, Listing, HandleHead, Lagging PROVE Lagging'
<1> DEFINE e == Head(wire)
           q == Tail(wire)
<1>1. wire \in Seq(Events) /\ wire # <<>> /\ q \in Seq(Events) /\ UNCHANGED <<byApp, open, focus, recent>>
  BY DEF Wired, HandleHead
<1>2. PICK s : Leads(GroupFn, s, wire, Now) /\ Knows(s)
  BY DEF Lagging
<1>3. PICK t : Sane(GroupFn, t) /\ Turn(GroupFn, s, e, t) /\ Leads(GroupFn, t, q, Now)
  BY <1>1, <1>2, LeadsFrom
<1>4. Sane(GroupFn, s) /\ byApp \in BOOLEAN
  BY <1>1, <1>2, LeadsToSane DEF Lagging
<1>5. \/ wire' = q
      \/ \E now \in BOOLEAN : wire' = Append(q, Mods(now))
  <2>1. alt \in BOOLEAN
    BY DEF Wired
  <2>2. QED
    BY <2>1 DEF HandleHead, OnConfigure, Painted
<1>6. OnConfigure(e) \/ OnWindow(e) \/ OnModifiers(e) \/ OnKey(e) \/ OnKeyAfterwards(e) \/ OnClick(e)
  BY DEF HandleHead
<1> HIDE DEF e, q
<1>7. Leads(GroupFn, t, wire', Now')
  <2>1. CASE wire' = q
    BY <1>1, <1>3, <2>1 DEF Now
  <2>2. ASSUME NEW now \in BOOLEAN, wire' = Append(q, Mods(now)) PROVE Leads(GroupFn, t, wire', Now')
    <3> DEFINE m == Mods(now)
    <3>1. m \in Events /\ m.event = "modifiers"
      <4>1. m \in Events
        BY MakesEvents, now = TRUE \/ now = FALSE, Zenon
      <4>2. QED
        BY <4>1 DEF Mods
    <3>2. wire' = Append(q, m)
      BY <2>2
    <3> HIDE DEF m
    <3>3. QED
      BY <1>1, <1>3, <3>1, <3>2, AsideLags
  <2>3. QED
    BY <1>5, <2>1, <2>2
<1>8. Knows(t)'
  <2>1. CASE OnWindow(e)
    BY <1>1, <1>2, <1>3, <1>4, <2>1, WindowTold
  <2>2. CASE OnConfigure(e) \/ OnModifiers(e) \/ OnKey(e) \/ OnKeyAfterwards(e) \/ OnClick(e)
    <3>1. e.event \in {"modifiers", "key", "configure", "click"}
      BY <2>2 DEF OnConfigure, OnModifiers, OnKey, OnKeyAfterwards, OnClick
    <3>2. t = s
      BY <1>3, <3>1, TurnAside
    <3>3. UNCHANGED cache
      BY <2>2 DEF OnConfigure, OnModifiers, OnKey, OnKeyAfterwards, OnClick
    <3>4. groups' = groups \/ \E far \in BOOLEAN : Trigger(far)
      <4>1. CASE OnConfigure(e)
        BY <4>1 DEF OnConfigure, manager
      <4>2. CASE OnModifiers(e)
        BY <4>2 DEF OnModifiers, Confirm, Hide, manager
      <4>3. CASE OnKey(e)
        BY <4>3 DEF OnKey, Select, Confirm, Hide, manager
      <4>4. CASE OnKeyAfterwards(e)
        BY <4>4 DEF OnKeyAfterwards, manager
      <4>5. CASE OnClick(e)
        BY <4>5 DEF OnClick, manager
      <4>6. QED
        BY <2>2, <4>1, <4>2, <4>3, <4>4, <4>5
    <3>5. QED
      BY <1>1, <1>2, <1>4, <3>2, <3>3, <3>4, KnowsAside
  <2>3. QED
    BY <1>6, <2>1, <2>2
<1>9. QED
  BY <1>1, <1>4, <1>7, <1>8, LagsOn

\* The loop's own steps leave the windows alone.
LEMMA TurnLags ==
    ASSUME Wired, Listing, Lagging, UNCHANGED <<byApp, open, focus, recent, cache>>,
           groups' = groups \/ \E far \in BOOLEAN : Trigger(far),
           \/ wire' = wire \/ wire' = Append(wire, Configure)
           \/ \E now \in BOOLEAN : wire' = Append(wire, Mods(now))
    PROVE  Lagging'
<1>1. wire \in Seq(Events) /\ byApp \in BOOLEAN
  BY DEF Wired, Lagging
<1>2. PICK s : Leads(GroupFn, s, wire, Now) /\ Knows(s)
  BY DEF Lagging
<1>3. Sane(GroupFn, s)
  BY <1>1, <1>2, LeadsToSane
<1>4. Knows(s)'
  BY <1>1, <1>2, <1>3, KnowsAside
<1>5. PICK e \in Events : e.event \in {"modifiers", "key", "configure", "click"} /\ (wire' = wire \/ wire' = Append(wire, e))
  <2>1. Configure \in Events /\ Configure.event = "configure"
    BY MakesEvents, EventsDiffer
  <2>2. \A now \in BOOLEAN : Mods(now) \in Events
    BY MakesEvents, \A now \in BOOLEAN : now = TRUE \/ now = FALSE, Zenon
  <2>3. \A now \in BOOLEAN : Mods(now).event = "modifiers"
    BY DEF Mods
  <2>4. QED
    BY <2>1, <2>2, <2>3
<1>6. Leads(GroupFn, s, wire', Now')
  BY <1>1, <1>2, <1>5, AsideLags
<1>7. QED
  BY <1>1, <1>4, <1>6, LagsOn

LEMMA LoopLags == ASSUME Wired, Listing, Lagging, Loop \/ SyncDispatch PROVE Lagging'
<1> DEFINE Wire == \/ wire' = wire \/ wire' = Append(wire, Configure)
                   \/ \E now \in BOOLEAN : wire' = Append(wire, Mods(now))
           Made == groups' = groups \/ \E far \in BOOLEAN : Trigger(far)
<1>1. CASE Start
  <2>1. UNCHANGED <<byApp, open, focus, recent, cache>>
    BY <1>1 DEF Start, world
  <2>2. Wire /\ Made
    BY <1>1 DEF Start, Show, Remap
  <2>3. QED
    BY <2>1, <2>2, TurnLags
<1>2. CASE Poll
  <2>1. UNCHANGED <<byApp, open, focus, recent, cache>> /\ wire' = wire /\ groups' = groups
    BY <1>2 DEF Poll, world, manager
  <2>2. QED
    BY <2>1, TurnLags
<1>3. CASE Dispatch \/ SyncDispatch
  BY <1>3, HandledLags DEF Dispatch, SyncDispatch
<1>4. ASSUME NEW far \in BOOLEAN, Answer(far) PROVE Wire /\ Made
  <2>1. Wire
    BY <1>4 DEF Answer, Show, Remap
  <2>2. Made
    BY <1>4 DEF Answer, Show, Select, manager
  <2>3. QED
    BY <2>1, <2>2
<1>5. CASE Forward
  <2>1. UNCHANGED <<byApp, open, focus, recent, cache>>
    BY <1>5 DEF Forward, world
  <2>2. Answer(FALSE) \/ (wire' = wire /\ groups' = groups)
    BY <1>5 DEF Forward, manager
  <2>3. QED
    BY <1>4, <2>1, <2>2, TurnLags
<1>6. CASE Reversed
  <2>1. UNCHANGED <<byApp, open, focus, recent, cache>>
    BY <1>6 DEF Reversed, world
  <2>2. Answer(TRUE) \/ (wire' = wire /\ groups' = groups)
    BY <1>6 DEF Reversed, manager
  <2>3. QED
    BY <1>4, <2>1, <2>2, TurnLags
<1>7. CASE Render
  <2>1. UNCHANGED <<byApp, open, focus, recent, cache, groups>>
    BY <1>7 DEF Render, world
  <2>2. Wire
    <3>1. alt \in BOOLEAN
      BY DEF Wired
    <3>2. QED
      BY <1>7, <3>1 DEF Render, Painted
  <2>3. QED
    BY <2>1, <2>2, TurnLags
<1>8. CASE Unmap
  <2>1. UNCHANGED <<byApp, open, focus, recent, cache>> /\ wire' = wire /\ groups' = groups
    BY <1>8 DEF Unmap, world, manager
  <2>2. QED
    BY <2>1, TurnLags
<1>9. QED
  BY <1>1, <1>2, <1>3, <1>5, <1>6, <1>7, <1>8 DEF Loop

\* The windows there are at the start are in the list, and the focused one's group is first.
LEMMA LagStarts == Init => Lagging
<1> SUFFICES ASSUME Init PROVE Lagging
  OBVIOUS
<1> DEFINE n == Len(Initially)
           k == GroupOf(focus)
           Was(i) == [win |-> Initially[i], named |-> TRUE, active |-> i = 1]
<1>1. Initially \in Seq(Wins) /\ n \in Nat \ {0} /\ DOMAIN Initially = 1..n
      /\ (\A i, j \in 1..n : Initially[i] = Initially[j] => i = j) /\ Noone \notin Wins
  BY AppSwitcherAssumption DEF IsInjective
<1>2. /\ byApp \in BOOLEAN /\ open = ToSet(Initially) /\ focus = Initially[1] /\ recent = <<k>>
      /\ cache = [i \in 1..n |-> Was(i)] /\ groups = ToHead(Reverse(KeysIn(cache)), k)
      /\ (wire = <<>> \/ wire = <<Configure>>)
  BY DEF Init
<1>3. open = {Initially[i] : i \in 1..n} /\ open \subseteq Wins /\ focus \in open /\ focus # Noone
  <2>1. open = {Initially[i] : i \in 1..n}
    BY <1>1, <1>2 DEF ToSet
  <2>2. \A i \in 1..n : Initially[i] \in Wins
    BY <1>1
  <2>3. 1 \in 1..n
    BY <1>1
  <2> HIDE DEF n
  <2>4. QED
    BY <1>1, <1>2, <2>1, <2>2, <2>3
<1>4. k \in Keys /\ GroupFn[focus] = k
  BY <1>3, GroupsAreKeys
<1>5. cache \in Seq(Entries) /\ groups \in Seq(Keys)
  BY ListingStarts DEF Listing
<1>6. Sane(GroupFn, Now)
  <2> DEFINE one == <<k>>
             no == <<>>
  <2>1. no \in Seq(Keys) /\ Once(no) /\ ToSet(no) = {} /\ Within(no, ToSet(no) \ {k}) = no
    BY WithinEmpty DEF Once, ToSet
  <2>2. Fronted(no, k) = one
    <3>1. one \o <<>> = one
      OBVIOUS
    <3>2. QED
      BY <2>1, <3>1 DEF Fronted
  <2> HIDE DEF one, no
  <2>3. one \in Seq(Keys) /\ Once(one) /\ ToSet(one) = {k} /\ one # <<>> /\ Head(one) = k
    BY <1>4, <2>1, <2>2, OnceFronted
  <2>4. Now.recent = one /\ Now.lit = {focus} /\ Now.named = open /\ Now.wins = open
    BY <1>2, <1>3, NowFacts DEF one
  <2>5. Now \in Moments
    BY <1>2, <1>3, <2>3 DEF Now, Moments, one
  <2>6. \A w \in Now.lit : GroupFn[w] = Head(Now.recent)
    BY <1>4, <2>3, <2>4
  <2>7. ToSet(Now.recent) \subseteq {GroupFn[w] : w \in Now.named}
    BY <1>3, <1>4, <2>3, <2>4
  <2>8. QED
    BY <1>3, <2>3, <2>4, <2>5, <2>6, <2>7 DEF Sane
<1>7. Leads(GroupFn, Now, wire, Now)
  <2>1. Leads(GroupFn, Now, <<>>, Now)
    BY <1>6, LeadsNowhere
  <2> DEFINE e == Configure
             no == <<>>
  <2>2. e \in Events /\ e.event = "configure" /\ no \in Seq(Events) /\ Append(no, e) = <<e>>
    <3>1. e \in Events /\ e.event = "configure"
      BY MakesEvents, EventsDiffer
    <3> HIDE DEF e
    <3>2. QED
      BY <3>1
  <2> HIDE DEF e, no
  <2>3. Leads(GroupFn, Now, Append(no, e), Now)
    BY <1>6, <2>1, <2>2, LeadsAside DEF no
  <2>4. QED
    BY <1>2, <2>1, <2>2, <2>3 DEF e
<1>8. Shows(cache, Now) /\ k \in KeySet(cache)
  <2>1. ToSet(cache) = {Was(i) : i \in 1..n}
    <3>1. DOMAIN cache = 1..n /\ \A i \in 1..n : cache[i] = Was(i)
      BY <1>2
    <3> HIDE DEF Was
    <3>2. QED
      BY <3>1 DEF ToSet
  <2>2. \A i \in 1..n : Was(i).win = Initially[i] /\ Was(i).named = TRUE /\ (Was(i).active <=> i = 1)
    OBVIOUS
  <2>3. KeyOf(Was(1)) = k /\ 1 \in 1..n
    BY <1>1, <1>2 DEF KeyOf, GroupOf
  <2> HIDE DEF Was
  <2>4. {f.win : f \in ToSet(cache)} = open
    BY <1>3, <2>1, <2>2
  <2>5. \A i \in 1..n : Initially[i] = focus <=> i = 1
    BY <1>1, <1>2
  <2>6. \A f \in ToSet(cache) : (f.named <=> f.win \in open) /\ (f.active <=> f.win \in {focus})
    BY <1>3, <2>1, <2>2, <2>5
  <2>7. Now.lit = {focus} /\ Now.named = open /\ Now.wins = open
    BY <1>3, NowFacts
  <2>8. k \in KeySet(cache)
    BY <2>1, <2>3 DEF KeySet
  <2>9. QED
    BY <2>4, <2>6, <2>7, <2>8 DEF Shows
<1>9. Knows(Now)
  <2> DEFINE ks == Reverse(KeysIn(cache))
             one == <<k>>
  <2>1. ks \in Seq(Keys) /\ ToSet(ks) = KeySet(cache)
    BY <1>5, KeysSet, SetReversed DEF KeySet
  <2> HIDE DEF ks
  <2>2. \A A : k \in A => Within(ToHead(ks, k), A) = <<k>> \o Within(ks, A \ {k})
    BY <1>8, <2>1, HeadWithin
  <2>3. groups = ToHead(ks, k) /\ ToSet(groups) = KeySet(cache)
    <3>1. groups = ToHead(ks, k)
      BY <1>2 DEF ks
    <3>2. ToSet(ToHead(ks, k)) = ToSet(ks)
      BY <1>8, <2>1, HeadWithin
    <3>3. QED
      BY <2>1, <3>1, <3>2
  <2>4. Now.recent = one /\ ToSet(one) = {k} /\ Head(one) = k /\ one \in Seq(Keys)
    BY <1>2, <1>4, NowFacts DEF ToSet
  <2>5. \A q \in Seq(Keys) : Within(q, {}) = <<>>
    BY WithinAll
  <2>6. Within(groups, {k}) = one
    <3>1. Within(groups, {k}) = <<k>> \o Within(ks, {k} \ {k})
      BY <2>2, <2>3
    <3>2. Within(ks, {k} \ {k}) = <<>>
      BY <2>1, <2>5
    <3>3. <<k>> \o <<>> = one
      OBVIOUS
    <3>4. QED
      BY <3>1, <3>2, <3>3
  <2> HIDE DEF one
  <2>7. Older(Now) = <<>> /\ Within(groups, {k} \ {k}) = <<>>
    BY <1>5, <2>4, <2>5 DEF Older
  <2>8. Ordered(groups, Now)
    BY <2>4, <2>6, <2>7 DEF Ordered, Partly
  <2>9. QED
    BY <1>8, <2>3, <2>8 DEF Knows
<1>10. QED
  BY <1>2, <1>7, <1>9 DEF Lagging

\* When the client has heard of everything, it knows what is so now.
LEMMA LaggingOrders == ASSUME Lagging PROVE MruIsFocusOrder
<1> SUFFICES ASSUME wire = <<>> PROVE Within(groups, ToSet(recent)) = recent
  BY DEF MruIsFocusOrder
<1>1. PICK s : Leads(GroupFn, s, wire, Now) /\ Knows(s)
  BY DEF Lagging
<1>2. s = Now
  BY <1>1, LeadsNowhere
<1>3. QED
  BY <1>1, <1>2, NowFacts DEF Knows, Ordered

\* When the window list is up to date, the groups that have been focused are in the order in
\* which they were: touch_mru and rebuild_groups between them lose no change of the focus,
\* whichever of the two windows is told of it first.
THEOREM OrderKept == Spec => []MruIsFocusOrder
<1>1. Reach /\ Listing /\ Lagging /\ [Next]_vars => Lagging'
  <2> SUFFICES ASSUME Reach, Listing, Lagging, [Next]_vars PROVE Lagging'
    OBVIOUS
  <2>1. Wired
    BY DEF Reach
  <2>2. CASE UNCHANGED vars
    <3>1. UNCHANGED <<byApp, open, focus, recent, cache, groups, wire>>
      BY <2>2 DEF vars, world, manager
    <3>2. QED
      BY <2>1, <3>1, TurnLags
  <2>3. QED
    BY <2>1, <2>2, WorldLags, LoopLags DEF Next
<1>2. QED
  BY <1>1, LagStarts, LaggingOrders, Reaches, PTL DEF Spec
=============================================================================
