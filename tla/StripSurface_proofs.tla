------------------------ MODULE StripSurface_proofs ------------------------
(***************************************************************************)
(* What holds of the dropdown's geometry and of its tab strip, on any      *)
(* monitors and for any configuration, size and number of events: the      *)
(* terminal lies where it should, what the compositor may read is not      *)
(* painted nor a buffer attached too early, and once a turn is over the    *)
(* strip is on the screen above its terminal and as wide.                  *)
(***************************************************************************)
EXTENDS StripSurface, SequenceTheorems, WellFoundedInduction, FiniteSetTheorems, TLAPS

-----------------------------------------------------------------------------
(* The placement policy *)

LEMMA WithinRange == \A n \in Int, hi \in Nat \ {0} : Within(n, hi) \in 1..hi
  BY SMT DEF Within

LEMMA UsableType ==
    ASSUME NEW m \in Monitor
    PROVE  Usable(m) \in [x : Int, y : Int, w : Nat \ {0}, h : Nat \ {0}]
  BY SMT DEF Usable, AtLeast1, Monitor

\* A percentage of a length is at least one and never more than it.
LEMMA PercentRange ==
    ASSUME NEW total \in Nat \ {0}, NEW percent \in Int
    PROVE  PercentOf(total, percent) \in 1..total
  <1> DEFINE p == Within(percent, 100)
  <1>1. p \in 1..100
    BY WithinRange, 100 \in Nat \ {0}
  <1> HIDE DEF p
  <1>2. total * p \in Nat /\ total * p <= total * 100
    BY <1>1, SMT
  <1> DEFINE q == total * p
  <1>3. q \in Nat /\ q <= total * 100
    BY <1>2
  <1> HIDE DEF q
  <1>4. q \div 100 \in Nat /\ q \div 100 <= total
    BY <1>3, SMT
  <1>5. AtLeast1(q \div 100) \in 1..total
    BY <1>4, SMT DEF AtLeast1
  <1> QED
    BY <1>5 DEF PercentOf, q, p

LEMMA SizeRange ==
    ASSUME NEW u \in [x : Int, y : Int, w : Nat \ {0}, h : Nat \ {0}], NEW c \in Policy
    PROVE  SizeOn(u, c) \in [w : 1..u.w, h : 1..u.h]
  <1>1. u.w \in Nat \ {0} /\ u.h \in Nat \ {0} /\ c.width \in Int /\ c.height \in Int
    BY DEF Policy
  <1>2. CASE c.override = None
    BY <1>1, <1>2, PercentRange DEF SizeOn
  <1>3. CASE c.override # None
    <2>1. c.override \in Size
      BY <1>3 DEF Policy
    <2>2. c.override.w \in Int /\ c.override.h \in Int
      BY <2>1 DEF Size
    <2> QED
      BY <1>1, <1>3, <2>2, WithinRange DEF SizeOn
  <1> QED
    BY <1>2, <1>3

LEMMA PlacedAtInside ==
    ASSUME NEW u \in [x : Int, y : Int, w : Nat \ {0}, h : Nat \ {0}],
           NEW s \in [w : 1..u.w, h : 1..u.h], NEW edge \in Edges
    PROVE  LET g == PlacedAt(u, s, edge)
           IN  /\ g.w = s.w /\ g.h = s.h
               /\ u.x <= g.x /\ g.x + g.w <= u.x + u.w
               /\ u.y <= g.y /\ g.y + g.h <= u.y + u.h
  <1>1. /\ u.x \in Int /\ u.y \in Int /\ u.w \in Nat \ {0} /\ u.h \in Nat \ {0}
        /\ s.w \in 1..u.w /\ s.h \in 1..u.h
    OBVIOUS
  <1> DEFINE a == (u.w - s.w) \div 2
             b == (u.h - s.h) \div 2
  <1>2. a \in Nat /\ a <= u.w - s.w /\ b \in Nat /\ b <= u.h - s.h
    BY <1>1, SMT
  <1> HIDE DEF a, b
  <1>3. PlacedAt(u, s, edge) =
          [x |-> CASE edge = "left" -> u.x [] edge = "right" -> u.x + u.w - s.w [] OTHER -> u.x + a,
           y |-> CASE edge = "top" -> u.y [] edge = "bottom" -> u.y + u.h - s.h [] OTHER -> u.y + b,
           w |-> s.w, h |-> s.h]
    BY DEF PlacedAt, a, b
  <1> QED
    BY <1>1, <1>2, <1>3, SMT

\* compute_geometry: on any monitor, for any configuration and any remembered size, the
\* dropdown lies within the usable area and is not empty.
THEOREM PlacedInside ==
    ASSUME NEW m \in Monitor, NEW c \in Policy
    PROVE  LET g == ComputeGeometry(m, c)
               u == Usable(m)
           IN  /\ g.w >= 1 /\ g.h >= 1
               /\ u.x <= g.x /\ g.x + g.w <= u.x + u.w
               /\ u.y <= g.y /\ g.y + g.h <= u.y + u.h
  <1> DEFINE u == Usable(m)
             s == SizeOn(u, c)
  <1>1. u \in [x : Int, y : Int, w : Nat \ {0}, h : Nat \ {0}]
    BY UsableType
  <1>2. s \in [w : 1..u.w, h : 1..u.h]
    BY <1>1, SizeRange
  <1>3. s.w >= 1 /\ s.h >= 1
    BY <1>1, <1>2, SMT
  <1>4. c.edge \in Edges
    BY DEF Policy
  <1>5. ComputeGeometry(m, c) = PlacedAt(u, s, c.edge)
    BY DEF ComputeGeometry
  <1> HIDE DEF u, s
  <1>6. LET g == PlacedAt(u, s, c.edge)
        IN  /\ g.w = s.w /\ g.h = s.h
            /\ u.x <= g.x /\ g.x + g.w <= u.x + u.w
            /\ u.y <= g.y /\ g.y + g.h <= u.y + u.h
    BY <1>1, <1>2, <1>4, PlacedAtInside
  <1> QED
    BY <1>3, <1>5, <1>6 DEF u

\* learn_resize and compute_geometry undo each other: where the size a user gave the terminal
\* fits, the next show gives it back, with the strip above it as without.
THEOREM ResizeKept ==
    ASSUME NEW m \in Monitor, NEW c \in Policy, NEW before \in Size, NEW seen \in Size,
           NEW withStrip \in BOOLEAN, GeometryAssumption,
           LearnResize(before, seen, IF withStrip THEN Band ELSE 0) # None,
           seen.w <= Usable(m).w,
           seen.h + (IF withStrip THEN Band ELSE 0) <= Usable(m).h
    PROVE  LET learned == LearnResize(before, seen, IF withStrip THEN Band ELSE 0)
               g == Terminal(ComputeGeometry(m, [c EXCEPT !.override = learned]), withStrip)
           IN  g.w = seen.w /\ g.h = seen.h
  <1> DEFINE u == Usable(m)
             band == IF withStrip THEN Band ELSE 0
             learned == LearnResize(before, seen, band)
             d == [c EXCEPT !.override = learned]
  <1>1. u \in [x : Int, y : Int, w : Nat \ {0}, h : Nat \ {0}]
    BY UsableType
  <1>2. band \in Nat /\ (withStrip => band = Band) /\ (~withStrip => band = 0)
    BY SMT DEF GeometryAssumption
  <1>3. learned = [w |-> seen.w, h |-> seen.h + band]
    BY DEF LearnResize
  <1>4. seen.w \in Nat \ {0} /\ seen.h \in Nat \ {0} /\ u.w \in Nat /\ u.h \in Nat
    BY <1>1 DEF Size
  <1>5. learned # None /\ seen.w <= u.w /\ seen.h + band <= u.h
    OBVIOUS
  <1>6. d.override = learned
    BY DEF Policy
  <1> HIDE DEF u, band, learned, d
  <1>7. SizeOn(u, d) = [w |-> seen.w, h |-> seen.h + band]
    <2>1. Within(seen.w, u.w) = seen.w /\ Within(seen.h + band, u.h) = seen.h + band
      BY <1>2, <1>4, <1>5, SMT DEF Within
    <2> QED
      BY <1>3, <1>5, <1>6, <2>1 DEF SizeOn
  <1> DEFINE g == ComputeGeometry(m, d)
  <1>8. g = PlacedAt(u, SizeOn(u, d), d.edge)
    BY DEF ComputeGeometry, u
  <1>9. /\ g.w = seen.w /\ g.h = seen.h + band
        /\ g = [x |-> g.x, y |-> g.y, w |-> g.w, h |-> g.h]
    BY <1>7, <1>8 DEF PlacedAt
  <1> HIDE DEF g
  <1>10. Terminal(g, withStrip).w = seen.w /\ Terminal(g, withStrip).h = seen.h
    <2>1. CASE withStrip
      <3>1. Terminal(g, withStrip) = [g EXCEPT !.y = @ + Band, !.h = AtLeast1(@ - Band)]
        BY <2>1 DEF Terminal
      <3>2. AtLeast1(g.h - Band) = seen.h
        BY <1>2, <1>4, <1>9, <2>1, SMT DEF AtLeast1
      <3> QED
        BY <1>9, <3>1, <3>2
    <2>2. CASE ~withStrip
      BY <1>2, <1>4, <1>9, <2>2, SMT DEF Terminal
    <2> QED
      BY <2>1, <2>2
  <1> QED
    BY <1>10 DEF g, d, learned, band

\* A tab has the least width at least, and all of them fit where that does.
LEMMA TabWidthRange ==
    ASSUME NEW n \in Nat \ {0}, NEW total \in Nat \ {0}, GeometryAssumption
    PROVE  /\ TabWidth(n, total) \in Nat \ {0}
           /\ n * MinTab <= total => n * TabWidth(n, total) <= total
  <1> DEFINE q == total \div n
  <1>1. q \in Nat /\ n * q <= total
    BY SMT
  <1> HIDE DEF q
  <1>2. TabWidth(n, total) = IF q < MinTab THEN MinTab ELSE q
    BY DEF TabWidth, q
  <1> QED
    BY <1>1, <1>2, SMT DEF GeometryAssumption

\* TabStrip::hit_test: a click is on one tab at most, whatever the width and their number,
\* and where the strip has room for them every tab lies on it.
THEOREM OneTab ==
    ASSUME NEW n \in Nat \ {0}, NEW total \in Nat \ {0}, NEW x \in Nat,
           NEW i \in 1..n, NEW j \in 1..n, GeometryAssumption,
           Hit(i, x, n, total), Hit(j, x, n, total)
    PROVE  i = j /\ (n * MinTab <= total => x < total)
  <1> DEFINE W == TabWidth(n, total)
  <1>1. W \in Nat \ {0} /\ (n * MinTab <= total => n * W <= total)
    BY TabWidthRange
  <1>2. (i - 1) * W <= x /\ x < i * W /\ (j - 1) * W <= x /\ x < j * W
    BY DEF Hit
  <1> HIDE DEF W
  <1>3. ASSUME NEW a \in 1..n, NEW b \in 1..n, a < b  PROVE a * W <= (b - 1) * W
    <2>1. PICK k \in Nat : b - 1 = a + k
      BY <1>3, SMT
    <2>2. (a + k) * W = a * W + k * W /\ k * W \in Nat /\ a * W \in Nat
      BY <1>1, SMT
    <2> QED
      BY <2>1, <2>2, SMT
  <1>4. i * W \in Nat /\ j * W \in Nat /\ (i - 1) * W \in Int /\ (j - 1) * W \in Int
    BY <1>1, SMT
  <1>5. ~(i < j) /\ ~(j < i)
    BY <1>2, <1>3, <1>4, SMT
  <1>6. i * W <= n * W
    <2>1. PICK k \in Nat : n = i + k
      BY SMT
    <2>2. (i + k) * W = i * W + k * W /\ k * W \in Nat
      BY <1>1, SMT
    <2> QED
      BY <1>4, <2>1, <2>2, SMT
  <1> QED
    BY <1>1, <1>2, <1>4, <1>5, <1>6, SMT

-----------------------------------------------------------------------------
(* What is proved of every state *)

\* The places on the wire of what is told of the surface's size, and of buffers.
Configures(l) == {k \in DOMAIN l.wire : l.wire[k].event = "configure"}
Releases(l) == {k \in DOMAIN l.wire : l.wire[k].event = "release"}
Busy(l, b) == \E i \in DOMAIN l.buffers : l.buffers[i].id = b /\ l.buffers[i].busy

\* What the compositor may read, or has let go of without the client knowing, is busy, and told once.
BuffersInv(l) ==
    /\ \A i, j \in DOMAIN l.buffers : l.buffers[i].id = l.buffers[j].id => i = j
    /\ \A b \in l.held : Busy(l, b)
    /\ \A k \in Releases(l) : l.wire[k].id \notin l.held /\ Busy(l, l.wire[k].id)
    /\ \A j, k \in Releases(l) : l.wire[j].id = l.wire[k].id => j = k
    /\ l.attached # None => l.attached \in l.held

\* There is a strip, and the compositor has not broken the connection off.
Alive(s) == s.strip.ready /\ s.link.error = "none"

\* No configure is believed before the surface has one.
Prompt(s) ==
    /\ s.link.error # "unready"
    /\ Alive(s) =>
        /\ \A k \in Configures(s.link) : ~s.link.wire[k].late
        /\ s.link.phase = "created" => Configures(s.link) = {}
        /\ s.link.phase = "initial" => Configures(s.link) # {}
        /\ s.link.configured => s.link.phase \in {"ready", "mapped", "closed"}

\* The last configure under way tells what was asked for last.
Tells(l) ==
    /\ \A k \in Configures(l) : (\A j \in Configures(l) : j <= k) => l.wire[k].w = l.asked
    /\ Configures(l) = {} => l.width = l.asked

\* A surface that has been committed, and that the compositor has not closed.
Active == {"initial", "ready", "mapped"}

\* The last thing asked for of a surface is what it has, or what it is about to get; and what it
\* has not got is to be painted.
Surface(l, dirty) ==
    /\ l.config.w > 0 /\ l.config.out \in Outputs /\ l.made_on = l.config.out
    /\ l.phase \in Active => l.asked = l.config.w /\ Tells(l)
    /\ l.phase = "initial" => \E k \in Configures(l) : ~l.wire[k].late
    /\ l.phase \in {"ready", "mapped"} => l.configured
    /\ l.phase = "ready" => dirty
    /\ l.phase = "mapped" =>
          \/ dirty \/ Configures(l) # {}
          \/ \E i \in DOMAIN l.buffers : l.buffers[i].id = l.attached /\ l.buffers[i].w = l.width
    /\ l.phase = "closed" => \E k \in DOMAIN l.wire : l.wire[k].event = "closed"

UpToDate(s) == Alive(s) => Surface(s.link, s.strip.dirty)

\* The strip has a rectangle when its terminal is shown with two tabs, and the surface is there and
\* as wide; it is the one above the terminal once the turn is over.
RectInv ==
    strip.ready /\ link.error = "none" =>
        /\ strip.rect # None <=> term.shown /\ placed.tabs >= 2
        /\ strip.rect = None => link.phase \notin Active
        /\ strip.rect # None =>
            /\ link.phase # "created"
            /\ strip.rect.w = link.config.w
            /\ strip.rect.x = Left(link.config.out) + link.config.left
            /\ strip.rect.y = Top(link.config.out) + link.config.top
            /\ "stall" \notin env => link.attached # None
            /\ "focus" \notin env => link.config.out = focus
            /\ pc \in {"paint", "read"} /\ ~term.moved =>
                /\ strip.rect.x = term.geom.x /\ strip.rect.w = term.geom.w
                /\ ~({"focus", "stall"} \subseteq env) => strip.rect = Wanted

\* A strip comes and goes with the second tab.
TabsInv == term.shown /\ ~term.moved => (term.tabs >= 2 <=> placed.tabs >= 2)

-----------------------------------------------------------------------------
(* Sequences, and functions that are recursive over them *)

\* A set of numbers that is not empty has a least one.
LEMMA Least == ASSUME NEW T, T \subseteq Nat, T # {} PROVE \E x \in T : \A y \in T : x <= y
<1> DEFINE R == OpToRel(<, Nat)
<1>1. IsWellFoundedOn(R, Nat)
    BY NatLessThanWellFounded
<1>2. PICK x \in T : \A y \in T : ~(<<y, x>> \in R)
  <2> HIDE DEF R
  <2> QED BY <1>1, WFMin
<1>3. \A y \in T : ~(y < x)
    BY <1>2 DEF OpToRel
<1> QED BY <1>3

\* Induction, for a set.
LEMMA Induction == ASSUME NEW A, 0 \in A, \A n \in Nat : n \in A => n + 1 \in A PROVE Nat \subseteq A
<1> SUFFICES ASSUME Nat \ A # {} PROVE FALSE
    OBVIOUS
<1>1. PICK x \in Nat \ A : \A y \in Nat \ A : x <= y
    BY Least
<1>2. x # 0 /\ x - 1 \in Nat /\ x = (x - 1) + 1 /\ ~(x <= x - 1)
    OBVIOUS
<1>3. x - 1 \in A
    BY <1>1, <1>2
<1> QED BY <1>1, <1>2, <1>3

\* f begins with b and goes from each value to the next as g says.
Follows(f, N, T, b, g) ==
    f \in [0..N -> T] /\ f[0] = b /\ \A i \in 1..N : f[i] = g[<<i, f[i - 1]>>]

\* Such a function exists: what a recursive function is defined by has a meaning.
LEMMA Recursion ==
    ASSUME NEW N \in Nat, NEW T, NEW b \in T, NEW g \in [(1..N) \X T -> T]
    PROVE  \E f : Follows(f, N, T, b, g)
<1> DEFINE Upto(f, n) == f[0] = b /\ \A i \in 1..n : f[i] = g[<<i, f[i - 1]>>]
           Good == {n \in Nat : n <= N => \E f \in [0..n -> T] : Upto(f, n)}
<1>1. 0 \in Good
  <2>1. [i \in 0..0 |-> b] \in [0..0 -> T] /\ Upto([i \in 0..0 |-> b], 0)
    OBVIOUS
  <2>2. QED
    BY <2>1
<1>2. ASSUME NEW n \in Nat, n \in Good PROVE n + 1 \in Good
  <2> SUFFICES ASSUME n + 1 <= N PROVE \E f \in [0..(n + 1) -> T] : Upto(f, n + 1)
    OBVIOUS
  <2>1. PICK h \in [0..n -> T] : Upto(h, n)
    BY <1>2
  <2> DEFINE f == [i \in 0..(n + 1) |-> IF i = n + 1 THEN g[<<n + 1, h[n]>>] ELSE h[i]]
  <2>2. g[<<n + 1, h[n]>>] \in T
    OBVIOUS
  <2>3. f \in [0..(n + 1) -> T]
    BY <2>2
  <2>4. ASSUME NEW i \in 1..(n + 1) PROVE f[i] = g[<<i, f[i - 1]>>]
    <3>1. f[i - 1] = h[i - 1] /\ i - 1 \in 0..n
      OBVIOUS
    <3>2. CASE i = n + 1
      <4>1. f[n + 1] = g[<<n + 1, h[n]>>] /\ i - 1 = n
        BY <3>2
      <4>2. QED
        BY <3>1, <3>2, <4>1
    <3>3. CASE i # n + 1
      <4>1. i \in 1..n /\ f[i] = h[i]
        BY <3>3
      <4>2. h[i] = g[<<i, h[i - 1]>>]
        BY <2>1, <4>1
      <4>3. QED
        BY <3>1, <4>1, <4>2
    <3>4. QED
      BY <3>2, <3>3
  <2>5. f[0] = b
    BY <2>1
  <2>6. Upto(f, n + 1)
    BY <2>4, <2>5
  <2>7. QED
    BY <2>3, <2>6
<1>3. N \in Good
  <2> HIDE DEF Good
  <2>1. QED
    BY <1>1, <1>2, Induction
<1>4. QED
  BY <1>3 DEF Follows

\* How the entries of a sequence in a set are gathered.
Through(F, s, A, S) ==
    /\ F \in [0..Len(s) -> Seq(S)] /\ F[0] = <<>> /\ Among(s, A) = F[Len(s)]
    /\ \A i \in 1..Len(s) : F[i] = IF s[i] \in A THEN Append(F[i - 1], s[i]) ELSE F[i - 1]

LEMMA AmongSteps == ASSUME NEW S, NEW s \in Seq(S), NEW A PROVE \E F : Through(F, s, A, S)
<1> DEFINE N == Len(s)
           Step(i, q) == IF s[i] \in A THEN Append(q, s[i]) ELSE q
           Is(f) == [i \in 0..N |-> IF i = 0 THEN <<>>
                                    ELSE IF s[i] \in A THEN Append(f[i - 1], s[i]) ELSE f[i - 1]]
           F == CHOOSE f : f = Is(f)
<1>1. N \in Nat /\ <<>> \in Seq(S) /\ \A i \in 1..N : s[i] \in S
  OBVIOUS
<1>2. \A i \in 1..N, q \in Seq(S) : Step(i, q) \in Seq(S)
  BY <1>1
<1>3. \E f : f = Is(f) /\ f \in [0..N -> Seq(S)]
  <2> DEFINE T == Seq(S)
             e == <<>>
             g == [p \in (1..N) \X T |-> Step(p[1], p[2])]
  <2>1. N \in Nat /\ e \in T /\ \A i \in 1..N, q \in T : Step(i, q) \in T
    BY <1>1, <1>2
  <2> HIDE DEF N, T, Step, e
  <2>2. g \in [(1..N) \X T -> T] /\ \A i \in 1..N, q \in T : g[<<i, q>>] = Step(i, q)
    BY <2>1
  <2> HIDE DEF g
  <2>3. PICK f : Follows(f, N, T, e, g)
    BY <2>1, <2>2, Recursion
  <2>4. f \in [0..N -> T] /\ f[0] = e
    BY <2>3 DEF Follows
  <2>5. ASSUME NEW i \in 1..N PROVE f[i] = Step(i, f[i - 1])
    <3>1. i - 1 \in 0..N
      BY <2>1
    <3>2. QED
      BY <2>2, <2>3, <2>4, <3>1 DEF Follows
  <2>6. ASSUME NEW i \in 0..N PROVE f[i] = Is(f)[i]
    <3>1. CASE i = 0
      BY <2>4, <3>1 DEF e
    <3>2. CASE i # 0
      <4>1. i \in 1..N
        BY <2>1, <3>2
      <4>2. f[i] = Step(i, f[i - 1])
        BY <2>5, <4>1
      <4>3. QED
        BY <3>2, <4>2 DEF Step
    <3>3. QED
      BY <3>1, <3>2
  <2>7. DOMAIN f = 0..N /\ f = [i \in 0..N |-> f[i]]
    BY <2>4
  <2>8. f = Is(f)
    BY <2>6, <2>7
  <2>9. QED
    BY <2>4, <2>8 DEF T
<1>4. F = Is(F)
  BY <1>3
<1>5. Among(s, A) = F[N]
  BY DEF Among
<1> HIDE DEF F
<1>6. DOMAIN F = 0..N /\ F[0] = <<>>
  BY <1>1, <1>4
<1>7. ASSUME NEW i \in 1..N PROVE F[i] = Step(i, F[i - 1])
  <2>1. i \in 0..N /\ i # 0
    BY <1>1
  <2>2. QED
    BY <1>4, <2>1
<1>8. \A i \in 0..N : F[i] \in Seq(S)
  <2> DEFINE G == {n \in Nat : n <= N => F[n] \in Seq(S)}
  <2>1. 0 \in G
    BY <1>1, <1>6
  <2>2. ASSUME NEW n \in Nat, n \in G PROVE n + 1 \in G
    <3> SUFFICES ASSUME n + 1 <= N PROVE F[n + 1] \in Seq(S)
      OBVIOUS
    <3>1. n + 1 \in 1..N /\ (n + 1) - 1 = n /\ F[n] \in Seq(S)
      BY <1>1, <2>2
    <3>2. F[n + 1] = Step(n + 1, F[n])
      BY <1>7, <3>1
    <3> HIDE DEF Step, N
    <3>3. QED
      BY <1>2, <3>1, <3>2
  <2>3. Nat \subseteq G
    <3> HIDE DEF G
    <3>1. QED
      BY <2>1, <2>2, Induction
  <2>4. QED
    BY <1>1, <2>3
<1>9. F = [i \in 0..N |-> F[i]]
  BY <1>4
<1>10. F \in [0..N -> Seq(S)]
  BY <1>8, <1>9
<1>11. QED
  BY <1>5, <1>6, <1>7, <1>10 DEF Through

\* The entries of s that are in A, each once: r[k] is s[g[k]].
Picks(r, s, A, g) ==
    /\ g \in [DOMAIN r -> DOMAIN s]
    /\ \A k \in DOMAIN r : r[k] = s[g[k]] /\ s[g[k]] \in A
    /\ \A j, k \in DOMAIN r : g[j] = g[k] => j = k

LEMMA AmongPicks ==
    ASSUME NEW S, NEW s \in Seq(S), NEW A
    PROVE  /\ Among(s, A) \in Seq(S)
           /\ \E g : Picks(Among(s, A), s, A, g) /\ \A i \in DOMAIN s : s[i] \in A => \E k \in DOMAIN Among(s, A) : g[k] = i
<1>1. PICK F : Through(F, s, A, S)
  BY AmongSteps
<1> DEFINE N == Len(s)
           Onto(r, g, i) == \A j \in 1..i : s[j] \in A => \E k \in DOMAIN r : g[k] = j
           Into(r, g, i) == \A k \in DOMAIN r : g[k] <= i
           Good == {i \in Nat : i <= N => \E g : Picks(F[i], s, A, g) /\ Onto(F[i], g, i) /\ Into(F[i], g, i)}
<1>2. N \in Nat /\ DOMAIN s = 1..N /\ F \in [0..N -> Seq(S)] /\ F[0] = <<>> /\ Among(s, A) = F[N]
  BY <1>1 DEF Through
<1>3. 0 \in Good
  <2>1. DOMAIN F[0] = {}
    BY <1>2
  <2> DEFINE g == [k \in {} |-> 1]
  <2>2. Picks(F[0], s, A, g) /\ Onto(F[0], g, 0) /\ Into(F[0], g, 0)
    BY <2>1 DEF Picks
  <2> QED BY <2>2
<1>4. ASSUME NEW i \in Nat, i \in Good PROVE i + 1 \in Good
  <2> SUFFICES ASSUME i + 1 <= N
               PROVE  \E g : Picks(F[i + 1], s, A, g) /\ Onto(F[i + 1], g, i + 1) /\ Into(F[i + 1], g, i + 1)
      OBVIOUS
  <2>1. PICK g : Picks(F[i], s, A, g) /\ Onto(F[i], g, i) /\ Into(F[i], g, i)
      BY <1>4
  <2>2. F[i] \in Seq(S) /\ i + 1 \in 1..N /\ i \in 0..N /\ (i + 1) - 1 = i
      BY <1>2
  <2>3. F[i + 1] = IF s[i + 1] \in A THEN Append(F[i], s[i + 1]) ELSE F[i]
      BY <1>1, <2>2 DEF Through
  <2> DEFINE r == F[i]
             q == F[i + 1]
             L == Len(r)
  <2>4. L \in Nat /\ DOMAIN r = 1..L
      BY <2>2
  <2>5. CASE s[i + 1] \notin A
    <3>1. q = r
        BY <2>3, <2>5
    <3> HIDE DEF r, q
    <3>2. Onto(q, g, i + 1) /\ Into(q, g, i + 1)
        BY <2>1, <2>4, <2>5, <3>1 DEF r, Picks
    <3> QED BY <2>1, <3>1, <3>2 DEF r, q
  <2>6. CASE s[i + 1] \in A
    <3> DEFINE h == [k \in 1..(L + 1) |-> IF k = L + 1 THEN i + 1 ELSE g[k]]
    <3>1. q = Append(r, s[i + 1])
        BY <2>3, <2>6
    <3>2. DOMAIN q = 1..(L + 1) /\ q[L + 1] = s[i + 1] /\ \A k \in 1..L : q[k] = r[k]
      <4> HIDE DEF q
      <4>1. s[i + 1] \in S
          BY <1>2, <2>2
      <4>2. r \in Seq(S)
          BY <2>2
      <4> HIDE DEF r
      <4> QED BY <3>1, <4>1, <4>2 DEF L
    <3>3. g \in [1..L -> DOMAIN s] /\ \A k \in 1..L : g[k] <= i /\ r[k] = s[g[k]] /\ s[g[k]] \in A
        BY <2>1, <2>4 DEF Picks
    <3>4. \A j, k \in 1..L : g[j] = g[k] => j = k
        BY <2>1, <2>4 DEF Picks
    <3>5. \A j \in 1..i : s[j] \in A => \E k \in 1..L : g[k] = j
        BY <2>1, <2>4
    <3> HIDE DEF L, q, r
    <3>6. h[L + 1] = i + 1 /\ (\A k \in 1..L : h[k] = g[k]) /\ h \in [1..(L + 1) -> DOMAIN s]
        BY <1>2, <2>2, <2>4, <3>3
    <3> HIDE DEF h
    <3>7. \A k \in 1..(L + 1) : k = L + 1 \/ k \in 1..L
        BY <2>4
    <3>8. Picks(q, s, A, h)
      <4>1. \A j, k \in 1..(L + 1) : h[j] = h[k] => j = k
          BY <1>2, <3>3, <3>4, <3>6, <3>7, <2>2
      <4>2. \A k \in 1..(L + 1) : q[k] = s[h[k]] /\ s[h[k]] \in A
          BY <2>6, <3>2, <3>3, <3>6, <3>7
      <4> QED BY <3>2, <3>6, <4>1, <4>2 DEF Picks
    <3>9. Into(q, h, i + 1)
        BY <1>2, <2>2, <3>2, <3>3, <3>6, <3>7
    <3>10. Onto(q, h, i + 1)
      <4>1. \A j \in 1..(i + 1) : j = i + 1 \/ j \in 1..i
          OBVIOUS
      <4>2. L + 1 \in 1..(L + 1) /\ 1..L \subseteq 1..(L + 1)
          BY <2>4
      <4> QED BY <3>2, <3>5, <3>6, <4>1, <4>2
    <3> QED BY <3>8, <3>9, <3>10 DEF q
  <2> QED BY <2>5, <2>6
<1>5. N \in Good
  <2> HIDE DEF Good
  <2> QED BY <1>2, <1>3, <1>4, Induction
<1> QED BY <1>2, <1>5

-----------------------------------------------------------------------------
(* The types, and what an event does *)

Event ==
    [event : {"configure"}, w : Nat, late : BOOLEAN] \cup [event : {"names", "closed"}]
    \cup [event : {"release"}, id : Nat]

Buffer == [id : Nat, w : Nat, busy : BOOLEAN]
Layer == [w : Nat, out : Outputs \cup {None}, left : Int, top : Int]

Link ==
    [error : {"none", "constructed", "unready"}, phase : {"initial", "created", "ready", "mapped", "closed"},
     on : Outputs, asked : Nat, attached : Nat \cup {None}, held : SUBSET Nat, wire : Seq(Event),
     configured : BOOLEAN, width : Nat, made_on : Outputs \cup {None}, config : Layer, known : BOOLEAN,
     buffers : Seq(Buffer)]

Rect == [x : Int, y : Int, w : Nat]
Strip == [ready : BOOLEAN, rect : Rect \cup {None}, dirty : BOOLEAN, cooling : BOOLEAN, torn : BOOLEAN]
States == [link : Link, strip : Strip]

\* The fields an event never touches.
SameLink(l, m) ==
    /\ m.error = l.error /\ m.on = l.on /\ m.asked = l.asked /\ m.attached = l.attached /\ m.held = l.held
    /\ m.made_on = l.made_on /\ m.config = l.config

\* What the four listeners do.
Heard(s, t, e) ==
    /\ SameLink(s.link, t.link) /\ t.strip.cooling = s.strip.cooling /\ t.strip.torn = s.strip.torn
    /\ e.event = "configure" =>
        /\ t.link.width = (IF e.w > 0 THEN e.w ELSE s.link.width) /\ t.link.configured = TRUE
        /\ t.link.phase = (IF s.link.phase = "initial" /\ ~e.late THEN "ready" ELSE s.link.phase)
        /\ t.strip.dirty = TRUE /\ t.strip.ready = s.strip.ready /\ t.strip.rect = s.strip.rect
    /\ e.event # "configure" =>
        /\ t.link.width = s.link.width /\ t.link.configured = s.link.configured /\ t.link.phase = s.link.phase
        /\ t.strip.dirty = s.strip.dirty
    /\ e.event \in {"names", "release"} => t.strip = s.strip
    /\ e.event = "closed" => t.strip.ready = FALSE /\ t.strip.rect = None
    /\ e.event # "release" => t.link.buffers = s.link.buffers
    /\ e.event = "release" =>
        /\ DOMAIN t.link.buffers = DOMAIN s.link.buffers
        /\ \A i \in DOMAIN s.link.buffers :
            /\ t.link.buffers[i].id = s.link.buffers[i].id /\ t.link.buffers[i].w = s.link.buffers[i].w
            /\ t.link.buffers[i].busy = (s.link.buffers[i].busy /\ s.link.buffers[i].id # e.id)

LEMMA ToldHeard ==
    ASSUME NEW s \in States, NEW e \in Event
    PROVE  Told(s, e) \in States /\ Told(s, e).link.wire = s.link.wire /\ Heard(s, Told(s, e), e)
<1> DEFINE l == s.link
           t == Told(s, e)
<1>0. s = [link |-> s.link, strip |-> s.strip] /\ l \in Link /\ s.strip \in Strip
    BY DEF States
<1>1. CASE e.event = "configure"
  <2> DEFINE m == [l EXCEPT !.width = IF e.w > 0 THEN e.w ELSE @, !.configured = TRUE,
                            !.phase = IF @ = "initial" /\ ~e.late THEN "ready" ELSE @]
             p == [s.strip EXCEPT !.dirty = TRUE]
  <2>1. t.link = m /\ t.strip = p /\ t = [link |-> m, strip |-> p]
      BY <1>0, <1>1 DEF Told
  <2>2. e.w \in Nat /\ e.late \in BOOLEAN
      BY <1>1 DEF Event
  <2>3. m \in Link /\ p \in Strip
      BY <1>0, <2>2 DEF Link, Strip
  <2>4. t \in States
      BY <2>1, <2>3 DEF States
  <2>5. SameLink(l, m) /\ m.wire = l.wire /\ m.buffers = l.buffers
      BY <1>0 DEF Link, SameLink
  <2>6. /\ m.width = (IF e.w > 0 THEN e.w ELSE l.width) /\ m.configured = TRUE
        /\ m.phase = (IF l.phase = "initial" /\ ~e.late THEN "ready" ELSE l.phase)
      BY <1>0 DEF Link
  <2>7. p.dirty = TRUE /\ p.ready = s.strip.ready /\ p.rect = s.strip.rect /\ p.cooling = s.strip.cooling
        /\ p.torn = s.strip.torn
      BY <1>0 DEF Strip
  <2> HIDE DEF m, p, t
  <2> QED BY <1>1, <2>1, <2>4, <2>5, <2>6, <2>7 DEF Heard, t
<1>2. CASE e.event = "names"
  <2> DEFINE m == [l EXCEPT !.known = TRUE]
  <2>1. t.link = m /\ t.strip = s.strip /\ t = [link |-> m, strip |-> s.strip]
      BY <1>0, <1>2 DEF Told
  <2>2. m \in Link
      BY <1>0 DEF Link
  <2>3. t \in States
      BY <1>0, <2>1, <2>2 DEF States
  <2>4. SameLink(l, m) /\ m.wire = l.wire /\ m.buffers = l.buffers /\ m.width = l.width
        /\ m.configured = l.configured /\ m.phase = l.phase
      BY <1>0 DEF Link, SameLink
  <2> HIDE DEF m, t
  <2> QED BY <1>2, <2>1, <2>3, <2>4 DEF Heard, t
<1>3. CASE e.event = "release"
  <2> DEFINE bs == [i \in DOMAIN l.buffers |-> IF l.buffers[i].id = e.id THEN [l.buffers[i] EXCEPT !.busy = FALSE]
                                               ELSE l.buffers[i]]
             m == [l EXCEPT !.buffers = bs]
  <2>1. t.link = m /\ t.strip = s.strip /\ t = [link |-> m, strip |-> s.strip]
    <3>1. Told(s, e) = [s EXCEPT !.link.buffers =
              [i \in DOMAIN @ |-> IF @[i].id = e.id THEN [@[i] EXCEPT !.busy = FALSE] ELSE @[i]]]
        BY <1>3 DEF Told
    <3>2. t = [link |-> m, strip |-> s.strip]
        BY <1>0, <3>1
    <3> HIDE DEF t
    <3> QED BY <3>2
  <2>2. \A i \in DOMAIN l.buffers : l.buffers[i] \in Buffer
      BY <1>0 DEF Link
  <2>3. \A i \in DOMAIN l.buffers :
            /\ bs[i] \in Buffer /\ bs[i].id = l.buffers[i].id /\ bs[i].w = l.buffers[i].w
            /\ bs[i].busy = (l.buffers[i].busy /\ l.buffers[i].id # e.id)
      BY <2>2 DEF Buffer
  <2>4. bs \in Seq(Buffer) /\ DOMAIN bs = DOMAIN l.buffers
    <3>1. l.buffers \in Seq(Buffer) /\ DOMAIN l.buffers = 1..Len(l.buffers) /\ Len(l.buffers) \in Nat
        BY <1>0 DEF Link
    <3>2. DOMAIN bs = DOMAIN l.buffers /\ bs = [i \in 1..Len(l.buffers) |-> bs[i]]
        BY <3>1
    <3> HIDE DEF bs
    <3>3. \A i \in 1..Len(l.buffers) : bs[i] \in Buffer
        BY <2>3, <3>1
    <3>4. bs \in [1..Len(l.buffers) -> Buffer]
        BY <3>2, <3>3
    <3> QED BY <3>1, <3>2, <3>4
  <2> HIDE DEF bs
  <2>5. m \in Link
      BY <1>0, <2>4 DEF Link
  <2>6. t \in States
      BY <1>0, <2>1, <2>5 DEF States
  <2>7. SameLink(l, m) /\ m.wire = l.wire /\ m.buffers = bs /\ m.width = l.width
        /\ m.configured = l.configured /\ m.phase = l.phase
      BY <1>0 DEF Link, SameLink
  <2> HIDE DEF m, t
  <2> QED BY <1>3, <2>1, <2>3, <2>4, <2>6, <2>7 DEF Heard, t
<1>4. CASE e.event = "closed"
  <2> DEFINE p == [s.strip EXCEPT !.ready = FALSE, !.rect = None]
  <2>1. t.link = l /\ t.strip = p /\ t = [link |-> l, strip |-> p]
      BY <1>0, <1>4 DEF Told
  <2>2. p \in Strip
      BY <1>0 DEF Strip
  <2>3. t \in States
      BY <1>0, <2>1, <2>2 DEF States
  <2>4. p.ready = FALSE /\ p.rect = None /\ p.dirty = s.strip.dirty /\ p.cooling = s.strip.cooling /\ p.torn = s.strip.torn
      BY <1>0 DEF Strip
  <2> HIDE DEF p, t
  <2> QED BY <1>4, <2>1, <2>3, <2>4 DEF Heard, SameLink, t
<1>5. e.event \in {"configure", "names", "release", "closed"}
    BY DEF Event
<1> QED BY <1>1, <1>2, <1>3, <1>4, <1>5

LEMMA TailOf ==
    ASSUME NEW S, NEW q \in Seq(S), q # <<>>
    PROVE  /\ Head(q) \in S /\ Head(q) = q[1] /\ 1 \in DOMAIN q /\ Len(q) \in Nat \ {0} /\ DOMAIN q = 1..Len(q)
           /\ Tail(q) \in Seq(S) /\ Len(Tail(q)) = Len(q) - 1 /\ DOMAIN Tail(q) = 1..(Len(q) - 1)
           /\ \A i \in 1..(Len(q) - 1) : Tail(q)[i] = q[i + 1]
OBVIOUS

LEMMA DeliveredHeard ==
    ASSUME NEW s \in States, s.link.wire # <<>>
    PROVE  /\ Delivered(s) \in States /\ Delivered(s).link.wire = Tail(s.link.wire)
           /\ Head(s.link.wire) \in Event /\ Heard(s, Delivered(s), Head(s.link.wire))
<1> DEFINE l == s.link
           e == Head(l.wire)
           m == [l EXCEPT !.wire = Tail(@)]
           r == [link |-> m, strip |-> s.strip]
<1>0. s = [link |-> s.link, strip |-> s.strip] /\ l \in Link /\ s.strip \in Strip
    BY DEF States
<1>1. e \in Event /\ Tail(l.wire) \in Seq(Event)
    BY <1>0, TailOf DEF Link
<1>2. Delivered(s) = Told(r, e)
    BY <1>0 DEF Delivered
<1>3. m \in Link
    BY <1>0, <1>1 DEF Link
<1>4. SameLink(l, m) /\ m.wire = Tail(l.wire) /\ m.buffers = l.buffers /\ m.width = l.width
      /\ m.configured = l.configured /\ m.phase = l.phase
    BY <1>0 DEF Link, SameLink
<1> HIDE DEF m
<1>5. r \in States /\ r.link = m /\ r.strip = s.strip
    BY <1>0, <1>3 DEF States
<1> HIDE DEF r, e
<1>6. Told(r, e) \in States /\ Told(r, e).link.wire = m.wire /\ Heard(r, Told(r, e), e)
    BY <1>1, <1>5, ToldHeard
<1>7. Heard(s, Told(r, e), e)
    BY <1>4, <1>5, <1>6 DEF Heard, SameLink
<1> QED BY <1>1, <1>2, <1>4, <1>6, <1>7 DEF e

\* Events are dispatched one by one.
DeliveredThrough(F, s, n) ==
    /\ F[0] = s /\ Dispatched(s, n) = F[n] /\ \A i \in 0..n : F[i] \in States
    /\ \A i \in 0..n : Len(F[i].link.wire) = Len(s.link.wire) - i
    /\ \A i \in 1..n : F[i - 1].link.wire # <<>> /\ F[i] = Delivered(F[i - 1])

LEMMA DispatchedSteps ==
    ASSUME NEW s \in States, NEW n \in 0..Len(s.link.wire)
    PROVE  \E F : DeliveredThrough(F, s, n)
<1> DEFINE T == States
           Step(t) == IF t.link.wire # <<>> THEN Delivered(t) ELSE t
           Is(f) == [i \in 0..n |-> IF i = 0 THEN s ELSE Delivered(f[i - 1])]
           F == CHOOSE f : f = Is(f)
           g == [p \in (1..n) \X T |-> Step(p[2])]
           L == Len(s.link.wire)
<1>0. s.link \in Link /\ L \in Nat /\ n \in Nat /\ n <= L
    BY DEF States, Link
<1>1. \A t \in T : Step(t) \in T
    BY DeliveredHeard
<1>2. \E f \in [0..n -> T] : /\ f = Is(f)
                             /\ \A i \in 0..n : Len(f[i].link.wire) = L - i
                             /\ \A i \in 1..n : f[i - 1].link.wire # <<>>
  <2> HIDE DEF T, Step
  <2>1. g \in [(1..n) \X T -> T] /\ \A i \in 1..n, t \in T : g[<<i, t>>] = Step(t)
      BY <1>1
  <2>2. s \in T
      BY DEF T
  <2> HIDE DEF g
  <2>3. PICK f : Follows(f, n, T, s, g)
      BY <1>0, <2>1, <2>2, Recursion
  <2>4. f \in [0..n -> T] /\ f[0] = s
      BY <2>3 DEF Follows
  <2>5. \A i \in 1..n : i - 1 \in 0..n /\ i \in 0..n /\ f[i - 1] \in T /\ f[i] = Step(f[i - 1])
    <3>1. \A i \in 1..n : i - 1 \in 0..n /\ i \in 0..n
        BY <1>0
    <3> QED BY <2>1, <2>3, <2>4, <3>1 DEF Follows
  <2> DEFINE Good == {i \in Nat : i <= n => Len(f[i].link.wire) = L - i}
  <2>6. ASSUME NEW t \in T, NEW k \in Nat, Len(t.link.wire) = k, k > 0
        PROVE  t.link.wire # <<>> /\ Step(t) = Delivered(t) /\ Len(Step(t).link.wire) = k - 1
    <3>1. t \in States /\ t.link.wire \in Seq(Event)
        BY <2>6 DEF T, States, Link
    <3>2. t.link.wire # <<>>
        BY <2>6, <3>1
    <3>3. Delivered(t).link.wire = Tail(t.link.wire)
        BY <3>1, <3>2, DeliveredHeard
    <3>4. Len(Tail(t.link.wire)) = Len(t.link.wire) - 1
        BY <3>1, <3>2, TailOf
    <3> QED BY <2>6, <3>2, <3>3, <3>4 DEF Step
  <2>7. 0 \in Good
      BY <1>0, <2>4
  <2>8. ASSUME NEW i \in Nat, i \in Good PROVE i + 1 \in Good
    <3> SUFFICES ASSUME i + 1 <= n PROVE Len(f[i + 1].link.wire) = L - (i + 1)
        OBVIOUS
    <3>1. Len(f[i].link.wire) = L - i /\ L - i \in Nat /\ L - i > 0 /\ i + 1 \in 1..n /\ (i + 1) - 1 = i
        BY <1>0, <2>8
    <3>2. f[i] \in T /\ f[i + 1] = Step(f[i])
        BY <2>5, <3>1
    <3> HIDE DEF L
    <3>3. Len(Step(f[i]).link.wire) = (L - i) - 1
        BY <2>6, <3>1, <3>2
    <3> QED BY <1>0, <3>2, <3>3
  <2>9. \A i \in 0..n : Len(f[i].link.wire) = L - i
    <3>1. Nat \subseteq Good
      <4> HIDE DEF Good
      <4> QED BY <2>7, <2>8, Induction
    <3> QED BY <1>0, <3>1
  <2>10. \A i \in 1..n : f[i - 1].link.wire # <<>> /\ f[i] = Delivered(f[i - 1])
    <3> SUFFICES ASSUME NEW i \in 1..n PROVE f[i - 1].link.wire # <<>> /\ f[i] = Delivered(f[i - 1])
        OBVIOUS
    <3>1. L - (i - 1) \in Nat /\ L - (i - 1) > 0
        BY <1>0
    <3> HIDE DEF L
    <3>2. f[i - 1] \in T /\ Len(f[i - 1].link.wire) = L - (i - 1) /\ f[i] = Step(f[i - 1])
        BY <2>5, <2>9
    <3> QED BY <2>6, <3>1, <3>2
  <2>11. f = Is(f)
    <3>1. DOMAIN f = 0..n /\ f = [i \in 0..n |-> f[i]]
        BY <2>4
    <3>2. \A i \in 0..n : f[i] = IF i = 0 THEN s ELSE Delivered(f[i - 1])
      <4>1. \A i \in 0..n : i = 0 \/ i \in 1..n
          BY <1>0
      <4> QED BY <2>4, <2>10, <4>1
    <3> QED BY <3>1, <3>2
  <2> QED BY <2>4, <2>9, <2>10, <2>11
<1>3. F = Is(F)
    BY <1>2
<1>4. Dispatched(s, n) = F[n]
    BY DEF Dispatched
<1> HIDE DEF F
<1>5. F[0] = s /\ \A i \in 1..n : F[i] = Delivered(F[i - 1])
  <2>1. \A i \in 0..n : F[i] = IF i = 0 THEN s ELSE Delivered(F[i - 1])
      BY <1>3
  <2>2. 0 \in 0..n /\ \A i \in 1..n : i \in 0..n /\ i # 0
      BY <1>0
  <2> QED BY <2>1, <2>2
<1>6. \A i \in 0..n : F[i] \in T /\ Len(F[i].link.wire) = L - i /\ (i < n => F[i].link.wire # <<>>)
  <2>1. PICK f \in [0..n -> T] : /\ f = Is(f)
                                 /\ \A i \in 0..n : Len(f[i].link.wire) = L - i
                                 /\ \A i \in 1..n : f[i - 1].link.wire # <<>>
      BY <1>2
  <2> DEFINE Good == {i \in Nat : i <= n => F[i] = f[i]}
  <2>2. f[0] = s /\ \A i \in 1..n : f[i] = Delivered(f[i - 1])
    <3>1. \A i \in 0..n : f[i] = IF i = 0 THEN s ELSE Delivered(f[i - 1])
        BY <2>1
    <3>2. 0 \in 0..n /\ \A i \in 1..n : i \in 0..n /\ i # 0
        BY <1>0
    <3> QED BY <3>1, <3>2
  <2>3. 0 \in Good
      BY <1>5, <2>2
  <2>4. ASSUME NEW i \in Nat, i \in Good PROVE i + 1 \in Good
    <3> SUFFICES ASSUME i + 1 <= n PROVE F[i + 1] = f[i + 1]
        OBVIOUS
    <3>1. i + 1 \in 1..n /\ (i + 1) - 1 = i /\ F[i] = f[i]
        BY <1>0, <2>4
    <3> QED BY <1>5, <2>2, <3>1
  <2>5. Nat \subseteq Good
    <3> HIDE DEF Good
    <3> QED BY <2>3, <2>4, Induction
  <2>6. \A i \in 0..n : F[i] = f[i]
      BY <1>0, <2>5
  <2>7. \A i \in 0..n : i < n => i + 1 \in 1..n /\ (i + 1) - 1 = i
      BY <1>0
  <2> HIDE DEF T, L
  <2> QED BY <2>1, <2>6, <2>7
<1>7. \A i \in 1..n : i - 1 \in 0..n /\ i - 1 < n
    BY <1>0
<1> QED BY <1>4, <1>5, <1>6, <1>7 DEF DeliveredThrough

\* What every event keeps, the first n keep.
LEMMA DispatchedKeeps ==
    ASSUME NEW A, A \subseteq States, \A t \in A : t.link.wire # <<>> => Delivered(t) \in A,
           NEW s \in A, NEW n \in 0..Len(s.link.wire)
    PROVE  Dispatched(s, n) \in A /\ Len(Dispatched(s, n).link.wire) = Len(s.link.wire) - n
<1>0. s \in States /\ n \in Nat /\ s.link.wire \in Seq(Event)
    BY DEF States, Link
<1>1. PICK F : DeliveredThrough(F, s, n)
    BY <1>0, DispatchedSteps
<1> DEFINE Good == {i \in Nat : i <= n => F[i] \in A}
<1>2. 0 \in Good
    BY <1>1 DEF DeliveredThrough
<1>3. ASSUME NEW i \in Nat, i \in Good PROVE i + 1 \in Good
  <2> SUFFICES ASSUME i + 1 <= n PROVE F[i + 1] \in A
      OBVIOUS
  <2>1. i + 1 \in 1..n /\ (i + 1) - 1 = i /\ F[i] \in A
      BY <1>0, <1>3
  <2>2. F[i].link.wire # <<>> /\ F[i + 1] = Delivered(F[i])
      BY <1>1, <2>1 DEF DeliveredThrough
  <2> QED BY <2>1, <2>2
<1>4. Nat \subseteq Good
  <2> HIDE DEF Good
  <2> QED BY <1>2, <1>3, Induction
<1>5. n \in 0..n
    BY <1>0
<1> QED BY <1>0, <1>1, <1>4, <1>5 DEF DeliveredThrough

-----------------------------------------------------------------------------
(* What requests do: acquire_buffer, submit_buffer and a commit *)

Distinct(bs) == \A i, j \in DOMAIN bs : bs[i].id = bs[j].id => i = j

\* b is taken from bs, or made, which leaves as: nothing that was busy is lost or taken.
Taken(bs, as, b) ==
    /\ b \in Buffer /\ b.busy /\ as \in Seq(Buffer)
    /\ \E j \in DOMAIN as : as[j] = b
    /\ Distinct(bs) => Distinct(as)
    /\ \A i \in DOMAIN bs : bs[i].busy => \E j \in DOMAIN as : as[j] = bs[i]
    /\ Distinct(bs) => \A i \in DOMAIN bs : bs[i].busy => bs[i].id # b.id

LEMMA JoinOf ==
    ASSUME NEW S, NEW p \in Seq(S), NEW b \in S, NEW r \in Seq(S)
    PROVE  LET q == p \o <<b>> \o r
               n == Len(p)
           IN  /\ q \in Seq(S) /\ n \in Nat /\ Len(r) \in Nat /\ DOMAIN q = 1..(n + 1 + Len(r))
               /\ DOMAIN p = 1..n /\ DOMAIN r = 1..Len(r)
               /\ \A k \in 1..n : q[k] = p[k]
               /\ q[n + 1] = b
               /\ \A k \in 1..Len(r) : q[n + 1 + k] = r[k]
OBVIOUS

LEMMA AppendOf ==
    ASSUME NEW S, NEW p \in Seq(S), NEW b \in S
    PROVE  LET q == Append(p, b)
               n == Len(p)
           IN  /\ q \in Seq(S) /\ n \in Nat /\ Len(q) = n + 1 /\ DOMAIN q = 1..(n + 1) /\ DOMAIN p = 1..n
               /\ \A k \in 1..n : q[k] = p[k]
               /\ q[n + 1] = b
OBVIOUS

LEMMA PartOf ==
    ASSUME NEW S, NEW s \in Seq(S), NEW a \in Nat \ {0}, NEW c \in Nat, a <= c + 1, c <= Len(s)
    PROVE  LET q == SubSeq(s, a, c)
           IN  /\ q \in Seq(S) /\ DOMAIN q = 1..(c - a + 1) /\ DOMAIN s = 1..Len(s) /\ Len(s) \in Nat /\ Len(q) = c - a + 1
               /\ \A k \in 1..(c - a + 1) : q[k] = s[a + k - 1]
OBVIOUS

\* There is an unused number among one more than there are.
LEMMA FreeId ==
    ASSUME NEW bs \in Seq(Buffer)
    PROVE  \E n \in 1..(Len(bs) + 1) : n \notin {bs[i].id : i \in DOMAIN bs}
<1> DEFINE N == Len(bs)
           ids == {bs[i].id : i \in DOMAIN bs}
<1>1. N \in Nat /\ DOMAIN bs = 1..N
    OBVIOUS
<1>2. IsFiniteSet(1..N) /\ Cardinality(1..N) = N /\ Cardinality(1..(N + 1)) = N + 1 /\ IsFiniteSet(1..(N + 1))
    BY <1>1, FS_Interval
<1>3. IsFiniteSet(ids) /\ Cardinality(ids) <= N
  <2> DEFINE f == [i \in 1..N |-> bs[i].id]
  <2>1. f \in [1..N -> ids] /\ \A x \in ids : \E i \in 1..N : f[i] = x
      BY <1>1
  <2>2. f \in Surjection(1..N, ids)
    <3> HIDE DEF f, ids
    <3> QED BY <2>1 DEF Surjection
  <2> HIDE DEF f, ids, N
  <2> QED BY <1>2, <2>2, FS_Surjection
<1>4. ~(1..(N + 1) \subseteq ids)
  <2> HIDE DEF ids, N
  <2>1. 1..(N + 1) \subseteq ids => Cardinality(1..(N + 1)) <= Cardinality(ids)
      BY <1>3, FS_Subset
  <2>2. Cardinality(ids) \in Nat
      BY <1>3, FS_CardinalityType
  <2> QED BY <1>1, <1>2, <1>3, <2>1, <2>2
<1> QED BY <1>4

LEMMA AcquiredTakes ==
    ASSUME NEW l \in Link
    PROVE  Taken(l.buffers, Acquired(l)[1], Acquired(l)[2]) /\ Acquired(l)[2].w = l.width
<1> DEFINE bs == l.buffers
           N == Len(bs)
           B == {b \in Range(bs) : b.busy}
           fit == {i \in DOMAIN bs : Fits(l, i)}
           kept(n) == Among(SubSeq(bs, 1, n), B)
           ids == {bs[i].id : i \in DOMAIN bs}
           free == CHOOSE n \in 1..(N + 1) : n \notin ids
           new == [id |-> free, w |-> l.width, busy |-> TRUE]
           as == Acquired(l)[1]
           a == Acquired(l)[2]
<1>0. bs \in Seq(Buffer) /\ N \in Nat /\ DOMAIN bs = 1..N /\ l.width \in Nat /\ \A i \in 1..N : bs[i] \in Buffer
    BY DEF Link
<1>b. \A i \in 1..N : bs[i] \in B <=> bs[i].busy
  <2>1. \A i \in 1..N : bs[i] \in Range(bs)
      BY <1>0 DEF Range
  <2> QED BY <2>1
<1>k. ASSUME NEW n \in 0..N
      PROVE  /\ kept(n) \in Seq(Buffer)
             /\ \E g : /\ g \in [DOMAIN kept(n) -> 1..n]
                       /\ \A k \in DOMAIN kept(n) : kept(n)[k] = bs[g[k]]
                       /\ \A j, k \in DOMAIN kept(n) : g[j] = g[k] => j = k
                       /\ \A i \in 1..n : bs[i].busy => \E k \in DOMAIN kept(n) : g[k] = i
  <2> DEFINE part == SubSeq(bs, 1, n)
             r == kept(n)
  <2>1. part \in Seq(Buffer) /\ DOMAIN part = 1..n /\ \A k \in 1..n : part[k] = bs[k]
    <3> HIDE DEF bs, N
    <3>1. n \in Nat /\ 1 \in Nat \ {0} /\ 1 <= n + 1 /\ n <= Len(bs)
        BY <1>0 DEF N
    <3>2. n - 1 + 1 = n /\ \A k \in 1..n : 1 + k - 1 = k
        BY <3>1
    <3> QED BY <1>0, <3>1, <3>2, PartOf
  <2>r. r = Among(part, B)
      OBVIOUS
  <2> HIDE DEF part, r
  <2>2. PICK g : Picks(r, part, B, g) /\ \A i \in DOMAIN part : part[i] \in B => \E k \in DOMAIN r : g[k] = i
    <3>1. \E g : /\ Picks(Among(part, B), part, B, g)
                 /\ \A i \in DOMAIN part : part[i] \in B => \E k \in DOMAIN Among(part, B) : g[k] = i
      <4> HIDE DEF B
      <4> QED BY <2>1, AmongPicks
    <3> QED BY <2>r, <3>1
  <2>3. r \in Seq(Buffer)
      BY <2>1, <2>r, AmongPicks
  <2>4. g \in [DOMAIN r -> 1..n] /\ (\A k \in DOMAIN r : r[k] = bs[g[k]]) /\ (\A j, k \in DOMAIN r : g[j] = g[k] => j = k)
      BY <2>1, <2>2 DEF Picks
  <2>5. \A i \in 1..n : bs[i].busy => \E k \in DOMAIN r : g[k] = i
    <3>1. \A i \in 1..n : i \in 1..N /\ part[i] = bs[i]
        BY <1>0, <2>1
    <3> QED BY <1>b, <2>1, <2>2, <3>1
  <2> QED BY <2>3, <2>4, <2>5 DEF r
<1>1. CASE fit = {}
  <2>1. Acquired(l) = <<Append(kept(N), new), new>>
      BY <1>1 DEF Acquired
  <2>2. as = Append(kept(N), new) /\ a = new
      BY <2>1
  <2>3. free \in 1..(N + 1) /\ free \notin ids
      BY <1>0, FreeId
  <2> HIDE DEF free
  <2>4. new \in Buffer /\ new.busy /\ new.w = l.width /\ new.id = free
      BY <1>0, <2>3 DEF Buffer
  <2>5. N \in 0..N
      BY <1>0
  <2> DEFINE r == kept(N)
  <2>6. r \in Seq(Buffer)
      BY <1>k, <2>5
  <2>7. PICK g : /\ g \in [DOMAIN r -> 1..N]
                 /\ \A k \in DOMAIN r : r[k] = bs[g[k]]
                 /\ \A j, k \in DOMAIN r : g[j] = g[k] => j = k
                 /\ \A i \in 1..N : bs[i].busy => \E k \in DOMAIN r : g[k] = i
      BY <1>k, <2>5
  <2>8. as = Append(r, new)
      BY <2>2
  <2>i. \A i \in 1..N : bs[i].id \in ids
      BY <1>0
  <2> HIDE DEF r, new, kept, as, a, ids
  <2> DEFINE R == Len(r)
  <2>9. /\ as \in Seq(Buffer) /\ R \in Nat /\ DOMAIN as = 1..(R + 1) /\ DOMAIN r = 1..R
        /\ (\A k \in 1..R : as[k] = r[k]) /\ as[R + 1] = new
      BY <2>4, <2>6, <2>8, AppendOf
  <2> HIDE DEF R, bs, N
  <2>10. ASSUME Distinct(bs) PROVE Distinct(as)
    <3>1. \A k \in 1..(R + 1) : k = R + 1 \/ k \in 1..R
        BY <2>9
    <3>2. \A k \in 1..R : as[k].id = bs[g[k]].id /\ g[k] \in 1..N
        BY <2>7, <2>9
    <3>a. \A k \in 1..R : as[k].id # free
        BY <2>3, <2>i, <3>2
    <3>3. ASSUME NEW j \in 1..R, NEW k \in 1..R, as[j].id = as[k].id PROVE j = k
      <4>0. g[j] \in 1..N /\ g[k] \in 1..N /\ bs[g[j]].id = bs[g[k]].id
          BY <3>2, <3>3
      <4>1. g[j] = g[k]
          BY <1>0, <2>10, <4>0 DEF Distinct
      <4> QED BY <2>7, <2>9, <4>1
    <3> QED BY <2>4, <2>9, <3>1, <3>a, <3>3 DEF Distinct
  <2>11. \A i \in DOMAIN bs : bs[i].busy => \E j \in DOMAIN as : as[j] = bs[i]
    <3> SUFFICES ASSUME NEW i \in 1..N, bs[i].busy PROVE \E j \in DOMAIN as : as[j] = bs[i]
        BY <1>0
    <3>1. PICK k \in 1..R : g[k] = i
        BY <2>7, <2>9
    <3>2. k \in DOMAIN r /\ r[k] = bs[g[k]] /\ as[k] = r[k]
        BY <2>7, <2>9
    <3>3. k \in DOMAIN as
        BY <2>9
    <3>4. as[k] = bs[i]
        BY <3>1, <3>2
    <3> QED BY <3>3, <3>4
  <2>12. \A i \in DOMAIN bs : bs[i].id # new.id
      BY <1>0, <2>3, <2>4, <2>i
  <2>13. R + 1 \in DOMAIN as
      BY <2>9
  <2> QED BY <2>2, <2>4, <2>9, <2>10, <2>11, <2>12, <2>13 DEF Taken, as, a, bs
<1>2. CASE fit # {}
  <2> DEFINE i == Min(fit)
             b == [bs[i] EXCEPT !.busy = TRUE]
             r == kept(i - 1)
             q == SubSeq(bs, i + 1, N)
  <2>1. Acquired(l) = <<r \o <<b>> \o q, b>>
      BY <1>2 DEF Acquired
  <2>2. as = r \o <<b>> \o q /\ a = b
    <3> HIDE DEF r, b, q
    <3> QED BY <2>1
  <2>3. i \in fit
    <3>1. fit \subseteq Nat
        BY <1>0
    <3> HIDE DEF fit
    <3>2. \E x \in fit : \A y \in fit : x <= y
        BY <1>2, <3>1, Least
    <3> QED BY <3>2 DEF Min
  <2>4. i \in 1..N /\ ~bs[i].busy /\ bs[i].w = l.width /\ bs[i] \in Buffer
      BY <1>0, <2>3 DEF Fits
  <2> HIDE DEF i
  <2>5. b \in Buffer /\ b.busy /\ b.w = l.width /\ b.id = bs[i].id
      BY <2>4 DEF Buffer
  <2>6. i - 1 \in 0..N /\ i \in Nat
      BY <1>0, <2>4
  <2>7. r \in Seq(Buffer)
      BY <1>k, <2>6
  <2>8. PICK g : /\ g \in [DOMAIN r -> 1..(i - 1)]
                 /\ \A k \in DOMAIN r : r[k] = bs[g[k]]
                 /\ \A j, k \in DOMAIN r : g[j] = g[k] => j = k
                 /\ \A j \in 1..(i - 1) : bs[j].busy => \E k \in DOMAIN r : g[k] = j
      BY <1>k, <2>6
  <2> HIDE DEF r, b, kept, as, a
  <2>9. q \in Seq(Buffer) /\ Len(q) = N - i /\ DOMAIN q = 1..(N - i) /\ \A k \in 1..(N - i) : q[k] = bs[i + k]
    <3> HIDE DEF bs, N
    <3>1. N = Len(bs)
        BY DEF N
    <3>2. i + 1 \in Nat \ {0} /\ N \in Nat /\ i + 1 <= N + 1 /\ N <= Len(bs) /\ N - (i + 1) + 1 = N - i
        BY <1>0, <2>4, <3>1
    <3>3. \A k \in 1..(N - i) : (i + 1) + k - 1 = i + k
        BY <1>0, <2>4
    <3> QED BY <1>0, <3>2, <3>3, PartOf
  <2> HIDE DEF q
  <2> DEFINE R == Len(r)
             Q == Len(q)
             G == [k \in 1..(R + 1 + Q) |-> IF k <= R THEN g[k] ELSE IF k = R + 1 THEN i ELSE i + (k - R - 1)]
  <2>10. /\ as \in Seq(Buffer) /\ R \in Nat /\ Q \in Nat /\ DOMAIN as = 1..(R + 1 + Q) /\ DOMAIN r = 1..R
         /\ (\A k \in 1..R : as[k] = r[k]) /\ as[R + 1] = b /\ \A k \in 1..Q : as[R + 1 + k] = q[k]
    <3>1. q \in Seq(Buffer) /\ b \in Buffer
        BY <2>5, <2>9
    <3> QED BY <2>2, <2>7, <3>1, JoinOf
  <2>11. Q = N - i
      BY <2>9
  <2> HIDE DEF R, Q, bs, N
  <2>12. \A k \in 1..(R + 1 + Q) : \/ k \in 1..R /\ G[k] = g[k]
                                   \/ k = R + 1 /\ G[k] = i
                                   \/ k > R + 1 /\ k - R - 1 \in 1..Q /\ G[k] = i + (k - R - 1) /\ R + 1 + (k - R - 1) = k
      BY <2>10
  <2> HIDE DEF G
  <2>13. \A k \in 1..R : g[k] \in 1..(i - 1) /\ as[k].id = bs[g[k]].id
      BY <2>8, <2>10
  <2>14. \A k \in 1..(R + 1 + Q) : G[k] \in 1..N /\ as[k].id = bs[G[k]].id
    <3> SUFFICES ASSUME NEW k \in 1..(R + 1 + Q) PROVE G[k] \in 1..N /\ as[k].id = bs[G[k]].id
        OBVIOUS
    <3>1. CASE k \in 1..R /\ G[k] = g[k]
      <4>1. g[k] \in 1..(i - 1) /\ as[k].id = bs[g[k]].id
          BY <2>13, <3>1
      <4>2. g[k] \in 1..N
          BY <1>0, <2>4, <4>1
      <4> QED BY <3>1, <4>1, <4>2
    <3>2. CASE k = R + 1 /\ G[k] = i
        BY <2>4, <2>5, <2>10, <3>2
    <3>3. CASE k > R + 1 /\ k - R - 1 \in 1..Q /\ G[k] = i + (k - R - 1) /\ R + 1 + (k - R - 1) = k
      <4>1. as[k] = q[k - R - 1] /\ q[k - R - 1] = bs[i + (k - R - 1)]
          BY <2>9, <2>10, <2>11, <3>3
      <4>2. i + (k - R - 1) \in 1..N
          BY <1>0, <2>4, <2>11, <3>3
      <4> QED BY <3>3, <4>1, <4>2
    <3> QED BY <2>12, <3>1, <3>2, <3>3
  <2>15. \A j, k \in 1..(R + 1 + Q) : G[j] = G[k] => j = k
    <3> SUFFICES ASSUME NEW j \in 1..(R + 1 + Q), NEW k \in 1..(R + 1 + Q), G[j] = G[k] PROVE j = k
        OBVIOUS
    <3>1. \A m, n \in 1..R : g[m] = g[n] => m = n
        BY <2>8, <2>10
    <3>2. ASSUME NEW m \in 1..R PROVE g[m] \in Int /\ g[m] < i
      <4>1. g[m] \in 1..(i - 1)
          BY <2>13
      <4> QED BY <2>6, <4>1
    <3>3. CASE j \in 1..R
      <4>1. G[j] = g[j] /\ G[j] < i
          BY <2>10, <2>12, <3>2, <3>3
      <4>2. k \in 1..R
        <5>1. G[k] < i
            BY <3>3, <4>1
        <5>2. CASE k > R + 1 /\ k - R - 1 \in 1..Q /\ G[k] = i + (k - R - 1)
            BY <2>6, <5>1, <5>2
        <5> QED BY <2>6, <2>12, <5>1, <5>2
      <4>3. G[k] = g[k]
          BY <2>10, <2>12, <4>2
      <4> QED BY <3>1, <3>3, <4>1, <4>2, <4>3
    <3>4. CASE k \in 1..R
      <4>1. G[k] = g[k] /\ G[k] < i
          BY <2>10, <2>12, <3>2, <3>4
      <4>2. j \in 1..R
        <5>1. G[j] < i
            BY <3>4, <4>1
        <5>2. CASE j > R + 1 /\ j - R - 1 \in 1..Q /\ G[j] = i + (j - R - 1)
            BY <2>6, <5>1, <5>2
        <5> QED BY <2>6, <2>12, <5>1, <5>2
      <4> QED BY <3>3, <4>2
    <3>5. CASE j \notin 1..R /\ k \notin 1..R
        BY <2>6, <2>10, <2>12, <3>5
    <3> QED BY <3>3, <3>4, <3>5
  <2>16. Distinct(bs) => Distinct(as)
    <3> SUFFICES ASSUME Distinct(bs), NEW j \in 1..(R + 1 + Q), NEW k \in 1..(R + 1 + Q), as[j].id = as[k].id PROVE j = k
        BY <2>10 DEF Distinct
    <3>1. G[j] \in 1..N /\ G[k] \in 1..N /\ bs[G[j]].id = bs[G[k]].id
        BY <2>14
    <3>2. G[j] = G[k]
        BY <1>0, <3>1 DEF Distinct
    <3> QED BY <2>15, <3>2
  <2>17. ASSUME NEW j \in 1..N, bs[j].busy PROVE \E k \in 1..(R + 1 + Q) : as[k] = bs[j]
    <3>1. CASE j \in 1..(i - 1)
      <4>1. PICK k \in 1..R : g[k] = j
          BY <2>8, <2>10, <2>17, <3>1
      <4>0. k \in DOMAIN r
          BY <2>10
      <4>2. as[k] = r[k] /\ r[k] = bs[g[k]]
          BY <2>8, <2>10, <4>0
      <4>a. k \in 1..(R + 1 + Q)
          BY <2>10
      <4>3. as[k] = bs[j]
          BY <4>1, <4>2
      <4> QED BY <4>a, <4>3
    <3>2. CASE j > i
      <4>1. j - i \in 1..Q /\ i + (j - i) = j /\ R + 1 + (j - i) \in 1..(R + 1 + Q)
          BY <1>0, <2>4, <2>10, <2>11, <3>2
      <4>2. as[R + 1 + (j - i)] = q[j - i] /\ q[j - i] = bs[j]
          BY <2>9, <2>10, <2>11, <4>1
      <4> QED BY <4>1, <4>2
    <3>3. j # i
        BY <2>4, <2>17
    <3>4. j \in 1..(i - 1) \/ j > i
        BY <1>0, <2>4, <3>3
    <3> QED BY <3>1, <3>2, <3>4
  <2>18. Distinct(bs) => \A j \in 1..N : bs[j].busy => bs[j].id # b.id
      BY <1>0, <2>4, <2>5 DEF Distinct
  <2>19. R + 1 \in 1..(R + 1 + Q)
      BY <2>10
  <2>20. Taken(bs, as, b)
      BY <1>0, <2>5, <2>10, <2>16, <2>17, <2>18, <2>19 DEF Taken
  <2> QED BY <2>2, <2>5, <2>20 DEF as, a, bs
<1> QED BY <1>1, <1>2

\* The releases of one wire are among those of another.
WireLess(m, l) ==
    \E g \in [Releases(m) -> Releases(l)] :
        /\ \A k \in Releases(m) : m.wire[k].id = l.wire[g[k]].id
        /\ \A j, k \in Releases(m) : g[j] = g[k] => j = k

LEMMA BuffersKept ==
    ASSUME NEW l, NEW m, BuffersInv(l), m.buffers = l.buffers, m.held = l.held, m.attached \in {l.attached, None},
           WireLess(m, l)
    PROVE  BuffersInv(m)
<1>1. PICK g \in [Releases(m) -> Releases(l)] :
        /\ \A k \in Releases(m) : m.wire[k].id = l.wire[g[k]].id
        /\ \A j, k \in Releases(m) : g[j] = g[k] => j = k
    BY DEF WireLess
<1>2. \A b : Busy(m, b) <=> Busy(l, b)
    BY DEF Busy
<1>3. \A k \in Releases(m) : g[k] \in Releases(l)
    BY <1>1
<1>4. \A k \in Releases(m) : m.wire[k].id \notin m.held /\ Busy(m, m.wire[k].id)
    BY <1>1, <1>2, <1>3 DEF BuffersInv
<1>5. \A j, k \in Releases(m) : m.wire[j].id = m.wire[k].id => j = k
    BY <1>1, <1>3 DEF BuffersInv
<1> QED BY <1>2, <1>4, <1>5 DEF BuffersInv

\* A wire with the same releases at the same places.
LEMMA SameReleases ==
    ASSUME NEW l, NEW m, Releases(m) \subseteq Releases(l), \A k \in Releases(m) : m.wire[k] = l.wire[k]
    PROVE  WireLess(m, l)
<1> DEFINE g == [k \in Releases(m) |-> k]
<1>1. g \in [Releases(m) -> Releases(l)] /\ \A k \in Releases(m) : g[k] = k
    OBVIOUS
<1> HIDE DEF g
<1> QED BY <1>1 DEF WireLess

\* Something else is sent.
LEMMA SentOther ==
    ASSUME NEW l \in Link, NEW m, NEW e \in Event, m.wire = Append(l.wire, e), e.event # "release"
    PROVE  WireLess(m, l)
<1>1. l.wire \in Seq(Event)
    BY DEF Link
<1> DEFINE n == Len(l.wire)
<1>2. n \in Nat /\ DOMAIN m.wire = 1..(n + 1) /\ DOMAIN l.wire = 1..n /\ m.wire[n + 1] = e
      /\ \A k \in 1..n : m.wire[k] = l.wire[k]
    BY <1>1, AppendOf
<1> HIDE DEF n
<1>3. \A k \in 1..(n + 1) : k = n + 1 \/ k \in 1..n
    BY <1>2
<1>4. Releases(m) \subseteq Releases(l) /\ \A k \in Releases(m) : m.wire[k] = l.wire[k]
    BY <1>2, <1>3 DEF Releases
<1> QED BY <1>4, SameReleases

LEMMA EventTypes ==
    /\ \A w \in Nat : /\ Configure(w) \in Event /\ Configure(w).event = "configure"
                     /\ Configure(w).w = w /\ Configure(w).late = FALSE
    /\ Names \in Event /\ Names.event = "names" /\ Closed \in Event /\ Closed.event = "closed"
    /\ \A b \in Nat : Release(b) \in Event /\ Release(b).event = "release" /\ Release(b).id = b
BY DEF Configure, Names, Closed, Release, Event

LEMMA NoneIsNoNumber == None \notin Nat
BY GeometryAssumption

-----------------------------------------------------------------------------

\* What attaching a buffer leaves alone.
SameCore(l, m) ==
    /\ m.on = l.on /\ m.asked = l.asked /\ m.configured = l.configured /\ m.width = l.width
    /\ m.made_on = l.made_on /\ m.config = l.config /\ m.buffers = l.buffers

Refused(l, m) == m.error = "unready" /\ m.wire = <<>> /\ m.phase = l.phase /\ m.held = l.held /\ m.attached = l.attached

Mapped(l, m, b) ==
    /\ m.error = "none" /\ m.phase = "mapped" /\ m.attached = b /\ m.held = {b} \cup ({l.attached} \ {None})
    /\ \/ l.held \ {l.attached, b} = {} /\ m.wire = l.wire
       \/ \E o \in l.held \ {l.attached, b} : m.wire = Append(l.wire, Release(o))

LEMMA AttachedCases ==
    ASSUME NEW l \in Link, NEW b \in Nat
    PROVE  LET m == Attached(l, b)
           IN  /\ m \in Link /\ SameCore(l, m)
               /\ l.error # "none" \/ l.phase = "closed" => m = l
               /\ l.error = "none" /\ l.phase \in {"initial", "created"} => Refused(l, m)
               /\ l.error = "none" /\ l.phase \in {"ready", "mapped"} => Mapped(l, m, b)
<1> DEFINE m == Attached(l, b)
           old == l.held \ {l.attached, b}
<1>1. CASE l.error # "none" \/ l.phase = "closed"
  <2>1. m = l
      BY <1>1 DEF Attached
  <2> HIDE DEF m
  <2> QED BY <1>1, <2>1 DEF SameCore, m
<1>2. CASE l.error = "none" /\ l.phase \in {"initial", "created"}
  <2>1. m = [l EXCEPT !.error = "unready", !.wire = <<>>]
      BY <1>2 DEF Attached, Failed
  <2>2. m \in Link
    <3>1. <<>> \in Seq(Event)
        OBVIOUS
    <3> HIDE DEF m
    <3> QED BY <2>1, <3>1 DEF Link
  <2> HIDE DEF m
  <2>3. SameCore(l, m) /\ Refused(l, m)
      BY <2>1 DEF Link, SameCore, Refused
  <2> QED BY <1>2, <2>2, <2>3 DEF m
<1>3. CASE l.error = "none" /\ l.phase \in {"ready", "mapped"}
  <2> DEFINE o == CHOOSE x \in old : TRUE
             wire == IF old = {} THEN l.wire ELSE Append(l.wire, Release(o))
             held == {b} \cup ({l.attached} \ {None})
  <2>1. m = [l EXCEPT !.phase = "mapped", !.attached = b, !.held = held, !.wire = wire]
      BY <1>3 DEF Attached
  <2>2. old # {} => o \in old /\ o \in Nat
      BY DEF Link
  <2> HIDE DEF o
  <2>3. wire \in Seq(Event) /\ held \in SUBSET Nat
    <3>1. l.wire \in Seq(Event) /\ l.attached \in Nat \cup {None}
        BY DEF Link
    <3>2. old # {} => Release(o) \in Event
        BY <2>2, EventTypes
    <3> HIDE DEF old
    <3> QED BY <3>1, <3>2
  <2>4. (old = {} /\ wire = l.wire) \/ (\E x \in old : wire = Append(l.wire, Release(x)))
      BY <2>2
  <2> HIDE DEF m, wire, held
  <2>5. m \in Link
      BY <2>1, <2>3 DEF Link
  <2>6. /\ SameCore(l, m) /\ m.error = l.error /\ m.phase = "mapped" /\ m.attached = b /\ m.held = held
        /\ m.wire = wire
      BY <2>1 DEF Link, SameCore
  <2>7. Mapped(l, m, b)
      BY <1>3, <2>4, <2>6 DEF Mapped, held
  <2> QED BY <1>3, <2>5, <2>6, <2>7 DEF m
<1>4. l.phase \in {"initial", "created", "ready", "mapped", "closed"}
    BY DEF Link
<1> QED BY <1>1, <1>2, <1>3, <1>4

\* What painting does.
Painted(s, t, as, b) ==
    LET l == s.link
        m == t.link
    IN  /\ Taken(l.buffers, as, b) /\ b.w = l.width /\ m.buffers = as
        /\ t.strip.ready = s.strip.ready /\ t.strip.rect = s.strip.rect /\ t.strip.dirty = s.strip.dirty
        /\ t.strip.cooling = s.strip.cooling /\ t.strip.torn = (s.strip.torn \/ b.id \in l.held)
        /\ m.on = l.on /\ m.asked = l.asked /\ m.configured = l.configured /\ m.width = l.width
        /\ m.made_on = l.made_on /\ m.config = l.config
        /\ l.error # "none" \/ l.phase = "closed" =>
            m.error = l.error /\ m.phase = l.phase /\ m.attached = l.attached /\ m.held = l.held /\ m.wire = l.wire
        /\ l.error = "none" /\ l.phase \in {"initial", "created"} => Refused(l, m)
        /\ l.error = "none" /\ l.phase \in {"ready", "mapped"} => Mapped(l, m, b.id)

LEMMA RenderedPaints ==
    ASSUME NEW s \in States, NEW visible
    PROVE  /\ Rendered(s, visible) \in States
           /\ ~(s.strip.ready /\ s.link.configured /\ visible) => Rendered(s, visible) = s
           /\ s.strip.ready /\ s.link.configured /\ visible => \E as, b : Painted(s, Rendered(s, visible), as, b)
<1>1. CASE ~(s.strip.ready /\ s.link.configured /\ visible)
    BY <1>1 DEF Rendered
<1>2. CASE s.strip.ready /\ s.link.configured /\ visible
  <2> DEFINE l == s.link
             as == Acquired(l)[1]
             b == Acquired(l)[2]
             k == [l EXCEPT !.buffers = as]
             m == Attached(k, b.id)
             p == [s.strip EXCEPT !.torn = @ \/ b.id \in l.held]
             t == Rendered(s, visible)
  <2>0. s = [link |-> s.link, strip |-> s.strip] /\ l \in Link /\ s.strip \in Strip
      BY DEF States
  <2>1. t = [link |-> m, strip |-> p]
      BY <1>2, <2>0 DEF Rendered
  <2>2. Taken(l.buffers, as, b) /\ b.w = l.width
      BY <2>0, AcquiredTakes
  <2>3. as \in Seq(Buffer) /\ b.id \in Nat
      BY <2>2 DEF Taken, Buffer
  <2> HIDE DEF as, b
  <2>4. k \in Link
      BY <2>0, <2>3 DEF Link
  <2>5. /\ k.error = l.error /\ k.phase = l.phase /\ k.on = l.on /\ k.asked = l.asked /\ k.attached = l.attached
        /\ k.held = l.held /\ k.wire = l.wire /\ k.configured = l.configured /\ k.width = l.width
        /\ k.made_on = l.made_on /\ k.config = l.config /\ k.buffers = as
      BY <2>0 DEF Link
  <2>6. /\ p \in Strip /\ p.ready = s.strip.ready /\ p.rect = s.strip.rect /\ p.dirty = s.strip.dirty
        /\ p.cooling = s.strip.cooling /\ p.torn = (s.strip.torn \/ b.id \in l.held)
      BY <2>0 DEF Strip
  <2> HIDE DEF k, p
  <2>7. /\ m \in Link /\ SameCore(k, m)
        /\ k.error # "none" \/ k.phase = "closed" => m = k
        /\ k.error = "none" /\ k.phase \in {"initial", "created"} => Refused(k, m)
        /\ k.error = "none" /\ k.phase \in {"ready", "mapped"} => Mapped(k, m, b.id)
      BY <2>3, <2>4, AttachedCases
  <2> HIDE DEF m
  <2>8. t \in States /\ t.link = m /\ t.strip = p
      BY <2>1, <2>6, <2>7 DEF States
  <2> HIDE DEF t
  <2>9. Refused(k, m) => Refused(l, m)
      BY <2>5 DEF Refused
  <2>10. Mapped(k, m, b.id) => Mapped(l, m, b.id)
      BY <2>5 DEF Mapped
  <2>11. Painted(s, t, as, b)
      BY <2>2, <2>5, <2>6, <2>7, <2>8, <2>9, <2>10 DEF Painted, SameCore
  <2> QED BY <1>2, <2>8, <2>11 DEF t
<1> QED BY <1>1, <1>2

\* What no request but an attach touches.
SameBuffers(l, m) == m.buffers = l.buffers /\ m.held = l.held

\* What unmap_surface does.
Reset(l, m) ==
    /\ m.attached = None /\ m.phase = "created" /\ DOMAIN m.wire = DOMAIN l.wire
    /\ \A k \in DOMAIN l.wire :
        /\ l.wire[k].event # "configure" => m.wire[k] = l.wire[k]
        /\ l.wire[k].event = "configure" => m.wire[k].event = "configure" /\ m.wire[k].w = l.wire[k].w /\ m.wire[k].late

LEMMA UnmappedResets ==
    ASSUME NEW l \in Link
    PROVE  LET m == Unmapped(l)
           IN  /\ m \in Link /\ SameBuffers(l, m) /\ m.configured = FALSE /\ m.error = l.error /\ m.asked = l.asked
               /\ m.width = l.width /\ m.made_on = l.made_on /\ m.config = l.config /\ m.on = l.on
               /\ l.error # "none" => m.attached = l.attached /\ m.phase = l.phase /\ m.wire = l.wire
               /\ l.error = "none" => Reset(l, m)
<1> DEFINE k == [l EXCEPT !.configured = FALSE]
           m == Unmapped(l)
<1>1. CASE l.error # "none"
  <2>1. m = k
      BY <1>1 DEF Unmapped
  <2>2. m \in Link
      BY <2>1 DEF Link
  <2> HIDE DEF m
  <2> QED BY <1>1, <2>1, <2>2 DEF Link, SameBuffers, m
<1>2. CASE l.error = "none"
  <2> DEFINE wire == [i \in DOMAIN l.wire |-> IF l.wire[i].event = "configure" THEN [l.wire[i] EXCEPT !.late = TRUE]
                                              ELSE l.wire[i]]
  <2>1. m = [k EXCEPT !.attached = None, !.phase = "created", !.wire = wire]
      BY <1>2 DEF Unmapped, Link
  <2>2. l.wire \in Seq(Event) /\ DOMAIN l.wire = 1..Len(l.wire) /\ Len(l.wire) \in Nat
      BY DEF Link
  <2>3. \A i \in DOMAIN l.wire :
          /\ wire[i] \in Event
          /\ l.wire[i].event # "configure" => wire[i] = l.wire[i]
          /\ l.wire[i].event = "configure" => wire[i].event = "configure" /\ wire[i].w = l.wire[i].w /\ wire[i].late
    <3> SUFFICES ASSUME NEW i \in DOMAIN l.wire, NEW e, e = l.wire[i]
                 PROVE  LET d == IF e.event = "configure" THEN [e EXCEPT !.late = TRUE] ELSE e
                        IN  /\ d \in Event
                            /\ e.event # "configure" => d = e
                            /\ e.event = "configure" => d.event = "configure" /\ d.w = e.w /\ d.late
        OBVIOUS
    <3>1. e \in Event
        BY <2>2
    <3>2. CASE e.event = "configure"
      <4>1. e \in [event : {"configure"}, w : Nat, late : BOOLEAN]
          BY <3>1, <3>2 DEF Event
      <4> QED BY <3>2, <4>1 DEF Event
    <3> QED BY <3>1, <3>2
  <2>4. DOMAIN wire = DOMAIN l.wire /\ wire = [i \in 1..Len(l.wire) |-> wire[i]]
      BY <2>2
  <2> HIDE DEF wire
  <2>5. wire \in Seq(Event)
    <3>1. \A i \in 1..Len(l.wire) : wire[i] \in Event
        BY <2>2, <2>3
    <3>2. wire \in [1..Len(l.wire) -> Event]
        BY <2>4, <3>1
    <3> QED BY <2>2, <3>2
  <2>6. k \in Link
      BY DEF Link
  <2>7. m \in Link
    <3> HIDE DEF k, m
    <3> QED BY <2>1, <2>5, <2>6 DEF Link
  <2>8. /\ SameBuffers(l, m) /\ m.configured = FALSE /\ m.error = l.error /\ m.asked = l.asked
        /\ m.width = l.width /\ m.made_on = l.made_on /\ m.config = l.config /\ m.on = l.on
        /\ m.attached = None /\ m.phase = "created" /\ m.wire = wire
    <3> HIDE DEF m
    <3> QED BY <2>1 DEF Link, SameBuffers
  <2> HIDE DEF m
  <2>9. Reset(l, m)
      BY <2>3, <2>4, <2>8 DEF Reset
  <2> QED BY <1>2, <2>7, <2>8, <2>9 DEF m
<1> QED BY <1>1, <1>2

\* What a commit without a buffer does.
Asks(l, m) ==
    /\ m.asked = l.config.w /\ m.phase = (IF l.phase = "created" THEN "initial" ELSE l.phase)
    /\ m.wire = Append(l.wire, Configure(l.config.w))

LEMMA CommittedAsks ==
    ASSUME NEW l \in Link
    PROVE  LET m == Committed(l)
           IN  /\ m \in Link /\ SameBuffers(l, m) /\ m.configured = l.configured /\ m.error = l.error
               /\ m.attached = l.attached /\ m.width = l.width /\ m.made_on = l.made_on /\ m.config = l.config /\ m.on = l.on
               /\ IF l.error # "none" \/ l.phase = "closed" \/ (l.phase # "created" /\ l.asked = l.config.w)
                  THEN m.wire = l.wire /\ m.phase = l.phase /\ m.asked = l.asked
                  ELSE Asks(l, m)
<1> DEFINE m == Committed(l)
           c == l.error # "none" \/ l.phase = "closed" \/ (l.phase # "created" /\ l.asked = l.config.w)
           wire == Append(l.wire, Configure(l.config.w))
<1>1. CASE c
  <2>1. m = l
      BY <1>1 DEF Committed
  <2> HIDE DEF m
  <2> QED BY <1>1, <2>1 DEF SameBuffers, m
<1>2. CASE ~c
  <2>1. m = [l EXCEPT !.asked = l.config.w, !.phase = IF @ = "created" THEN "initial" ELSE @, !.wire = wire]
      BY <1>2 DEF Committed, Link
  <2>2. l.config.w \in Nat /\ l.wire \in Seq(Event)
      BY DEF Link, Layer
  <2>3. wire \in Seq(Event)
    <3>1. Configure(l.config.w) \in Event
        BY <2>2, EventTypes
    <3> QED BY <2>2, <3>1, AppendOf
  <2> HIDE DEF wire, m
  <2>4. m \in Link
      BY <2>1, <2>2, <2>3 DEF Link
  <2>5. /\ SameBuffers(l, m) /\ m.configured = l.configured /\ m.error = l.error
        /\ m.attached = l.attached /\ m.width = l.width /\ m.made_on = l.made_on /\ m.config = l.config /\ m.on = l.on
        /\ m.asked = l.config.w /\ m.phase = (IF l.phase = "created" THEN "initial" ELSE l.phase) /\ m.wire = wire
      BY <2>1 DEF Link, SameBuffers
  <2> QED BY <1>2, <2>4, <2>5 DEF Asks, wire, m
<1> QED BY <1>1, <1>2


\* What create_layer_surface does, and what it is refused.
Rebuilt(l, m) ==
    /\ m.phase = "created" /\ m.error = "none"
    /\ \A k \in DOMAIN m.wire : m.wire[k].event \notin {"configure", "closed"}

LEMMA CreatedRebuilds ==
    ASSUME NEW l \in Link, NEW pick \in Outputs, l.config.out \in Outputs
    PROVE  LET m == CreatedLayerSurface(l, pick)
           IN  /\ m \in Link /\ SameBuffers(l, m) /\ m.configured = FALSE /\ m.asked = l.asked
               /\ m.attached = l.attached /\ m.width = l.width /\ m.made_on = l.config.out /\ m.config = l.config
               /\ WireLess(m, l)
               /\ l.error # "none" => m.error = l.error
               /\ l.error = "none" /\ l.attached # None => m.error = "constructed" /\ m.wire = <<>>
               /\ l.error = "none" /\ l.attached = None => Rebuilt(l, m)
<1> DEFINE out == IF l.known THEN l.config.out ELSE pick
           g == GotLayerSurface(l, out)
           m == CreatedLayerSurface(l, pick)
           A == {e \in Range(l.wire) : e.event \notin {"configure", "closed"}}
           wire == Among(l.wire, A)
<1>1. m = [g EXCEPT !.configured = FALSE, !.made_on = l.config.out]
    BY DEF CreatedLayerSurface
<1>2. out \in Outputs
    OBVIOUS
<1>w. l.wire \in Seq(Event)
    BY DEF Link
<1>3. wire \in Seq(Event) /\ \E f : Picks(wire, l.wire, A, f)
  <2> HIDE DEF A
  <2> QED BY <1>w, AmongPicks
<1> HIDE DEF out
<1>4. /\ g \in Link /\ SameBuffers(l, g) /\ g.asked = l.asked /\ g.attached = l.attached /\ g.width = l.width
      /\ g.config = l.config /\ WireLess(g, l)
      /\ l.error # "none" => g.error = l.error
      /\ l.error = "none" /\ l.attached # None => g.error = "constructed" /\ g.wire = <<>>
      /\ l.error = "none" /\ l.attached = None => Rebuilt(l, g)
  <2>1. CASE l.error # "none"
    <3>1. g = l
        BY <2>1 DEF GotLayerSurface
    <3> HIDE DEF g
    <3>2. WireLess(g, l)
        BY <3>1, SameReleases
    <3> QED BY <2>1, <3>1, <3>2 DEF SameBuffers
  <2>2. CASE l.error = "none" /\ l.attached # None
    <3>1. g = [l EXCEPT !.error = "constructed", !.wire = <<>>]
        BY <2>2 DEF GotLayerSurface, Failed
    <3> HIDE DEF g
    <3>2. <<>> \in Seq(Event)
        OBVIOUS
    <3>3. g \in Link
        BY <3>1, <3>2 DEF Link
    <3>4. SameBuffers(l, g) /\ g.asked = l.asked /\ g.attached = l.attached /\ g.width = l.width /\ g.config = l.config
          /\ g.error = "constructed" /\ g.wire = <<>>
        BY <3>1 DEF Link, SameBuffers
    <3>5. WireLess(g, l)
      <4>1. DOMAIN g.wire = {}
          BY <3>4
      <4>2. Releases(g) = {}
          BY <4>1 DEF Releases
      <4> QED BY <4>2, SameReleases
    <3> QED BY <2>2, <3>3, <3>4, <3>5
  <2>3. CASE l.error = "none" /\ l.attached = None
    <3>1. g = [l EXCEPT !.phase = "created", !.on = out, !.wire = wire]
        BY <2>3 DEF GotLayerSurface, Link
    <3>2. PICK f : Picks(wire, l.wire, A, f)
        BY <1>3
    <3>3. \A k \in DOMAIN wire : f[k] \in DOMAIN l.wire /\ wire[k] = l.wire[f[k]] /\ wire[k].event \notin {"configure", "closed"}
        BY <3>2 DEF Picks
    <3>4. \A j, k \in DOMAIN wire : f[j] = f[k] => j = k
        BY <3>2 DEF Picks
    <3> HIDE DEF g, wire
    <3>5. g \in Link
        BY <1>2, <1>3, <3>1 DEF Link
    <3>6. SameBuffers(l, g) /\ g.asked = l.asked /\ g.attached = l.attached /\ g.width = l.width /\ g.config = l.config
          /\ g.error = "none" /\ g.wire = wire /\ g.phase = "created"
        BY <2>3, <3>1 DEF Link, SameBuffers
    <3>7. Rebuilt(l, g)
        BY <3>3, <3>6 DEF Rebuilt
    <3>8. WireLess(g, l)
      <4> DEFINE h == [k \in Releases(g) |-> f[k]]
      <4>1. \A k \in Releases(g) : k \in DOMAIN wire /\ f[k] \in Releases(l) /\ g.wire[k].id = l.wire[f[k]].id
          BY <3>3, <3>6 DEF Releases
      <4>2. h \in [Releases(g) -> Releases(l)] /\ \A k \in Releases(g) : h[k] = f[k]
          BY <4>1
      <4> HIDE DEF h
      <4> QED BY <3>4, <4>1, <4>2 DEF WireLess
    <3> QED BY <2>3, <3>5, <3>6, <3>7, <3>8
  <2> QED BY <2>1, <2>2, <2>3
<1> HIDE DEF g, m
<1>5. m \in Link
    BY <1>1, <1>4 DEF Link
<1>6. /\ m.configured = FALSE /\ m.made_on = l.config.out /\ m.error = g.error /\ m.phase = g.phase /\ m.wire = g.wire
      /\ m.asked = g.asked /\ m.attached = g.attached /\ m.width = g.width /\ m.config = g.config /\ SameBuffers(g, m)
    BY <1>1, <1>4 DEF Link, SameBuffers
<1>7. WireLess(m, l)
  <2>1. Releases(m) = Releases(g)
      BY <1>6 DEF Releases
  <2> QED BY <1>4, <1>6, <2>1 DEF WireLess
<1>8. Rebuilt(l, g) => Rebuilt(l, m)
    BY <1>6 DEF Rebuilt
<1>9. SameBuffers(l, m)
    BY <1>4, <1>6 DEF SameBuffers
<1> QED BY <1>4, <1>5, <1>6, <1>7, <1>8, <1>9 DEF m

-----------------------------------------------------------------------------
(* No buffer the compositor may read is painted *)

Safe == {s \in States : BuffersInv(s.link) /\ ~s.strip.torn}

LEMMA DeliveredSafe == ASSUME NEW s \in Safe, s.link.wire # <<>> PROVE Delivered(s) \in Safe
<1> DEFINE t == Delivered(s)
           l == s.link
           m == t.link
           e == Head(l.wire)
<1>0. s \in States /\ l \in Link /\ l.wire \in Seq(Event) /\ l.wire # <<>> /\ BuffersInv(l) /\ ~s.strip.torn
    BY DEF Safe, States, Link
<1>1. t \in States /\ m.wire = Tail(l.wire) /\ Heard(s, t, e)
    BY <1>0, DeliveredHeard
<1>2. /\ e = l.wire[1] /\ 1 \in DOMAIN l.wire /\ Len(l.wire) \in Nat \ {0} /\ DOMAIN l.wire = 1..Len(l.wire)
      /\ DOMAIN m.wire = 1..(Len(l.wire) - 1) /\ \A i \in 1..(Len(l.wire) - 1) : m.wire[i] = l.wire[i + 1]
  <2> HIDE DEF t, m
  <2> QED BY <1>0, <1>1, TailOf
<1> HIDE DEF t, m, e
<1>3. m.held = l.held /\ m.attached = l.attached /\ ~t.strip.torn
    BY <1>0, <1>1 DEF Heard, SameLink, l, m
<1>4. \A k \in Releases(m) : k \in Int /\ k # 0 /\ k + 1 \in Releases(l) /\ m.wire[k] = l.wire[k + 1]
    BY <1>2 DEF Releases
<1>5. CASE e.event # "release"
  <2>1. m.buffers = l.buffers
      BY <1>1, <1>5 DEF Heard, m
  <2> DEFINE g == [k \in Releases(m) |-> k + 1]
  <2>2. g \in [Releases(m) -> Releases(l)] /\ \A k \in Releases(m) : g[k] = k + 1
      BY <1>4
  <2> HIDE DEF g
  <2>3. WireLess(m, l)
    <3>1. \A k \in Releases(m) : m.wire[k].id = l.wire[g[k]].id
        BY <1>4, <2>2
    <3>2. \A j, k \in Releases(m) : g[j] = g[k] => j = k
        BY <1>4, <2>2
    <3> QED BY <2>2, <3>1, <3>2 DEF WireLess
  <2>4. BuffersInv(m)
    <3> HIDE DEF l
    <3> QED BY <1>0, <1>3, <2>1, <2>3, BuffersKept
  <2> QED BY <1>1, <1>3, <2>4 DEF Safe, t, m
<1>6. CASE e.event = "release"
  <2>1. /\ DOMAIN m.buffers = DOMAIN l.buffers
        /\ \A i \in DOMAIN l.buffers : /\ m.buffers[i].id = l.buffers[i].id
                                       /\ m.buffers[i].busy = (l.buffers[i].busy /\ l.buffers[i].id # e.id)
      BY <1>1, <1>6 DEF Heard, m
  <2>2. 1 \in Releases(l) /\ l.wire[1].id = e.id
      BY <1>2, <1>6 DEF Releases
  <2>3. ASSUME NEW b, Busy(l, b), b # e.id PROVE Busy(m, b)
    <3>1. PICK i \in DOMAIN l.buffers : l.buffers[i].id = b /\ l.buffers[i].busy
        BY <2>3 DEF Busy
    <3>2. i \in DOMAIN m.buffers /\ m.buffers[i].id = b /\ m.buffers[i].busy
        BY <2>1, <2>3, <3>1
    <3> QED BY <3>2 DEF Busy
  <2> HIDE DEF l
  <2>4. e.id \notin l.held
      BY <1>0, <2>2 DEF BuffersInv
  <2>5. \A b \in m.held : Busy(m, b)
      BY <1>0, <1>3, <2>3, <2>4 DEF BuffersInv
  <2>6. \A k \in Releases(m) : m.wire[k].id \notin m.held /\ Busy(m, m.wire[k].id)
    <3> SUFFICES ASSUME NEW k \in Releases(m) PROVE m.wire[k].id \notin m.held /\ Busy(m, m.wire[k].id)
        OBVIOUS
    <3>1. k + 1 \in Releases(l) /\ k + 1 # 1 /\ m.wire[k] = l.wire[k + 1]
        BY <1>4
    <3>2. l.wire[k + 1].id # l.wire[1].id
        BY <1>0, <2>2, <3>1 DEF BuffersInv
    <3>3. l.wire[k + 1].id \notin l.held /\ Busy(l, l.wire[k + 1].id)
        BY <1>0, <3>1 DEF BuffersInv
    <3> QED BY <1>3, <2>2, <2>3, <3>1, <3>2, <3>3
  <2>7. \A j, k \in Releases(m) : m.wire[j].id = m.wire[k].id => j = k
    <3> SUFFICES ASSUME NEW j \in Releases(m), NEW k \in Releases(m), m.wire[j].id = m.wire[k].id PROVE j = k
        OBVIOUS
    <3>1. j + 1 \in Releases(l) /\ k + 1 \in Releases(l) /\ l.wire[j + 1].id = l.wire[k + 1].id /\ j \in Int /\ k \in Int
        BY <1>4
    <3>2. j + 1 = k + 1
        BY <1>0, <3>1 DEF BuffersInv
    <3> QED BY <3>1, <3>2
  <2>8. \A i, j \in DOMAIN m.buffers : m.buffers[i].id = m.buffers[j].id => i = j
      BY <1>0, <2>1 DEF BuffersInv
  <2>9. m.attached # None => m.attached \in m.held
      BY <1>0, <1>3 DEF BuffersInv
  <2>10. BuffersInv(m)
      BY <2>5, <2>6, <2>7, <2>8, <2>9 DEF BuffersInv
  <2> QED BY <1>1, <1>3, <2>10 DEF Safe, t, m
<1> QED BY <1>5, <1>6 DEF t

LEMMA RenderedSafe == ASSUME NEW s \in Safe, NEW visible PROVE Rendered(s, visible) \in Safe
<1> DEFINE t == Rendered(s, visible)
           l == s.link
           m == t.link
<1>0. s \in States /\ l \in Link /\ l.wire \in Seq(Event) /\ BuffersInv(l) /\ ~s.strip.torn
    BY DEF Safe, States, Link
<1>1. t \in States
    BY <1>0, RenderedPaints
<1>2. CASE ~(s.strip.ready /\ s.link.configured /\ visible)
    BY <1>0, <1>2, RenderedPaints
<1>3. CASE s.strip.ready /\ s.link.configured /\ visible
  <2>1. PICK as, b : Painted(s, t, as, b)
      BY <1>0, <1>3, RenderedPaints
  <2> HIDE DEF t
  <2> DEFINE bs == l.buffers
  <2>2. Taken(bs, as, b) /\ m.buffers = as
      BY <2>1 DEF Painted
  <2>d. Distinct(bs)
      BY <1>0 DEF BuffersInv, Distinct
  <2> HIDE DEF l, m
  <2>3. Distinct(as) /\ \A i \in DOMAIN bs : bs[i].busy => bs[i].id # b.id
      BY <2>2, <2>d DEF Taken
  <2>4. ~Busy(l, b.id)
      BY <2>3 DEF Busy
  <2>5. \A x : Busy(l, x) => Busy(m, x)
    <3> SUFFICES ASSUME NEW x, NEW i \in DOMAIN bs, bs[i].id = x, bs[i].busy PROVE Busy(m, x)
        BY DEF Busy
    <3>1. PICK j \in DOMAIN as : as[j] = bs[i]
        BY <2>2 DEF Taken
    <3> QED BY <2>2, <3>1 DEF Busy
  <2>6. Busy(m, b.id)
    <3>1. PICK j \in DOMAIN as : as[j] = b
        BY <2>2 DEF Taken
    <3>2. b.busy
        BY <2>2 DEF Taken
    <3> QED BY <2>2, <3>1, <3>2 DEF Busy
  <2>7. b.id \notin l.held /\ ~t.strip.torn
    <3>1. b.id \notin l.held
        BY <1>0, <2>4 DEF BuffersInv
    <3> QED BY <1>0, <2>1, <3>1 DEF Painted, l
  <2>8. \A i, j \in DOMAIN m.buffers : m.buffers[i].id = m.buffers[j].id => i = j
      BY <2>2, <2>3 DEF Distinct
  <2>9. CASE m.attached = l.attached /\ m.held = l.held /\ (m.wire = l.wire \/ m.wire = <<>>)
    <3>1. \A k \in Releases(m) : k \in Releases(l) /\ m.wire[k] = l.wire[k]
      <4>1. CASE m.wire = l.wire
          BY <4>1 DEF Releases
      <4>2. CASE m.wire = <<>>
        <5>1. DOMAIN m.wire = {}
            BY <4>2
        <5> QED BY <5>1 DEF Releases
      <4> QED BY <2>9, <4>1, <4>2
    <3>2. \A k \in Releases(m) : m.wire[k].id \notin m.held /\ Busy(m, m.wire[k].id)
        BY <1>0, <2>5, <2>9, <3>1 DEF BuffersInv
    <3>3. \A j, k \in Releases(m) : m.wire[j].id = m.wire[k].id => j = k
        BY <1>0, <3>1 DEF BuffersInv
    <3>4. BuffersInv(m)
        BY <1>0, <2>5, <2>8, <2>9, <3>2, <3>3 DEF BuffersInv
    <3> QED BY <1>1, <2>7, <3>4 DEF Safe, m, t
  <2>10. CASE Mapped(l, m, b.id)
    <3>1. m.attached = b.id /\ m.held = {b.id} \cup ({l.attached} \ {None})
        BY <2>10 DEF Mapped
    <3>2. l.attached # None => l.attached \in l.held
        BY <1>0 DEF BuffersInv
    <3>3. \A x \in m.held : x = b.id \/ x \in l.held
        BY <3>1, <3>2
    <3>4. \A x \in m.held : Busy(m, x)
        BY <1>0, <2>5, <2>6, <3>3 DEF BuffersInv
    <3>5. \A k \in Releases(l) : /\ l.wire[k].id \notin m.held /\ Busy(m, l.wire[k].id) /\ l.wire[k].id \notin l.held
        BY <1>0, <2>4, <2>5, <3>3 DEF BuffersInv
    <3>6. CASE m.wire = l.wire
      <4>1. Releases(m) = Releases(l)
          BY <3>6 DEF Releases
      <4>2. \A k \in Releases(m) : m.wire[k].id \notin m.held /\ Busy(m, m.wire[k].id)
          BY <3>5, <3>6, <4>1
      <4>3. \A j, k \in Releases(m) : m.wire[j].id = m.wire[k].id => j = k
          BY <1>0, <3>6, <4>1 DEF BuffersInv
      <4>4. BuffersInv(m)
          BY <2>8, <3>1, <3>4, <4>2, <4>3 DEF BuffersInv
      <4> QED BY <1>1, <2>7, <4>4 DEF Safe, m, t
    <3>7. ASSUME NEW o \in l.held \ {l.attached, b.id}, m.wire = Append(l.wire, Release(o))
          PROVE  BuffersInv(m)
      <4> DEFINE n == Len(l.wire)
      <4>1. o \in Nat
          BY <1>0 DEF Link
      <4>2. /\ n \in Nat /\ DOMAIN m.wire = 1..(n + 1) /\ DOMAIN l.wire = 1..n /\ m.wire[n + 1].event = "release"
            /\ m.wire[n + 1].id = o /\ \A k \in 1..n : m.wire[k] = l.wire[k]
        <5>1. Release(o) \in Event /\ Release(o).event = "release" /\ Release(o).id = o
            BY <4>1, EventTypes
        <5> QED BY <1>0, <3>7, <5>1, AppendOf
      <4> HIDE DEF n
      <4>3. \A k \in Releases(m) : k = n + 1 \/ (k \in Releases(l) /\ m.wire[k] = l.wire[k])
        <5>1. \A k \in 1..(n + 1) : k = n + 1 \/ k \in 1..n
            BY <4>2
        <5> QED BY <4>2, <5>1 DEF Releases
      <4>4. o \notin m.held /\ Busy(m, o)
        <5>1. Busy(l, o)
            BY <1>0 DEF BuffersInv
        <5> QED BY <2>5, <3>1, <5>1
      <4>5. \A k \in Releases(m) : m.wire[k].id \notin m.held /\ Busy(m, m.wire[k].id)
          BY <3>5, <4>2, <4>3, <4>4
      <4>6. \A j, k \in Releases(m) : m.wire[j].id = m.wire[k].id => j = k
        <5> SUFFICES ASSUME NEW j \in Releases(m), NEW k \in Releases(m), m.wire[j].id = m.wire[k].id PROVE j = k
            OBVIOUS
        <5>1. \A i \in Releases(l) : l.wire[i].id # o
            BY <3>5
        <5>2. CASE j \in Releases(l) /\ k \in Releases(l) /\ m.wire[j] = l.wire[j] /\ m.wire[k] = l.wire[k]
            BY <1>0, <5>2 DEF BuffersInv
        <5> QED BY <4>2, <4>3, <5>1, <5>2
      <4> QED BY <2>8, <3>1, <3>4, <4>5, <4>6 DEF BuffersInv
    <3>8. CASE \E o \in l.held \ {l.attached, b.id} : m.wire = Append(l.wire, Release(o))
        BY <1>1, <2>7, <3>7, <3>8 DEF Safe, m, t
    <3> QED BY <2>10, <3>6, <3>8 DEF Mapped
  <2>11. l.phase \in {"initial", "created", "ready", "mapped", "closed"}
      BY <1>0 DEF Link
  <2>12. CASE l.error # "none" \/ l.phase = "closed"
    <3>1. m.attached = l.attached /\ m.held = l.held /\ m.wire = l.wire
        BY <2>1, <2>12 DEF Painted, l, m
    <3> QED BY <2>9, <3>1
  <2>13. CASE l.error = "none" /\ l.phase \in {"initial", "created"}
    <3>1. Refused(l, m)
        BY <2>1, <2>13 DEF Painted, l, m
    <3> QED BY <2>9, <3>1 DEF Refused
  <2>14. CASE l.error = "none" /\ l.phase \in {"ready", "mapped"}
    <3>1. Mapped(l, m, b.id)
        BY <2>1, <2>14 DEF Painted, l, m
    <3> QED BY <2>10, <3>1
  <2> QED BY <2>11, <2>12, <2>13, <2>14 DEF t
<1> QED BY <1>2, <1>3

\* What remap_surface asks of a surface of the right monitor, and of another.
Recommits(l, m) ==
    /\ m.error = "none" /\ m.configured = l.configured
    /\ IF l.phase = "closed" \/ (l.phase # "created" /\ l.asked = l.config.w)
       THEN m.wire = l.wire /\ m.phase = l.phase /\ m.asked = l.asked
       ELSE Asks(l, m)

Renews(l, m) ==
    /\ m.error = "none" /\ m.configured = FALSE /\ m.phase = "initial" /\ m.asked = l.config.w
    /\ \E q \in Seq(Event) : /\ m.wire = Append(q, Configure(l.config.w))
                             /\ \A k \in DOMAIN q : q[k].event \notin {"configure", "closed"}

LEMMA RemappedAsks ==
    ASSUME NEW l \in Link, NEW pick \in Outputs, l.config.out \in Outputs
    PROVE  LET m == Remapped(l, pick)
           IN  /\ m \in Link /\ SameBuffers(l, m) /\ m.attached = l.attached /\ m.width = l.width
               /\ m.made_on = l.config.out /\ m.config = l.config /\ WireLess(m, l)
               /\ l.error # "none" => m.error = l.error
               /\ l.error = "none" /\ l.made_on = l.config.out => Recommits(l, m)
               /\ l.error = "none" /\ l.made_on # l.config.out /\ l.attached # None => m.error = "constructed"
               /\ l.error = "none" /\ l.made_on # l.config.out /\ l.attached = None => Renews(l, m)
<1> DEFINE k == IF l.config.out # l.made_on THEN CreatedLayerSurface(l, pick) ELSE l
           m == Remapped(l, pick)
<1>1. m = Committed(k)
    BY DEF Remapped
<1>2. /\ k \in Link /\ SameBuffers(l, k) /\ k.attached = l.attached /\ k.width = l.width /\ k.asked = l.asked
      /\ k.made_on = l.config.out /\ k.config = l.config /\ WireLess(k, l)
      /\ l.error # "none" => k.error = l.error
      /\ l.made_on = l.config.out => k = l
      /\ l.error = "none" /\ l.made_on # l.config.out /\ l.attached # None => k.error = "constructed"
      /\ l.error = "none" /\ l.made_on # l.config.out /\ l.attached = None => Rebuilt(l, k) /\ k.configured = FALSE
  <2>1. CASE l.config.out # l.made_on
    <3>1. k = CreatedLayerSurface(l, pick)
        BY <2>1
    <3> HIDE DEF k
    <3> QED BY <2>1, <3>1, CreatedRebuilds
  <2>2. CASE l.config.out = l.made_on
    <3>1. k = l
        BY <2>2
    <3> HIDE DEF k
    <3>2. WireLess(k, l)
        BY <3>1, SameReleases
    <3> QED BY <2>2, <3>1, <3>2 DEF SameBuffers
  <2> QED BY <2>1, <2>2
<1> HIDE DEF k
<1>3. /\ m \in Link /\ SameBuffers(k, m) /\ m.configured = k.configured /\ m.error = k.error
      /\ m.attached = k.attached /\ m.width = k.width /\ m.made_on = k.made_on /\ m.config = k.config
      /\ IF k.error # "none" \/ k.phase = "closed" \/ (k.phase # "created" /\ k.asked = k.config.w)
         THEN m.wire = k.wire /\ m.phase = k.phase /\ m.asked = k.asked
         ELSE Asks(k, m)
  <2> HIDE DEF m
  <2> QED BY <1>1, <1>2, CommittedAsks
<1> HIDE DEF m
<1>4. SameBuffers(l, m)
    BY <1>2, <1>3 DEF SameBuffers
<1>w. k.config.w \in Nat /\ Configure(k.config.w) \in Event /\ Configure(k.config.w).event # "release"
  <2>1. k.config.w \in Nat
      BY <1>2 DEF Link, Layer
  <2> QED BY <2>1, EventTypes
<1>5. WireLess(m, l)
  <2>1. CASE m.wire = k.wire
    <3>1. Releases(m) = Releases(k)
        BY <2>1 DEF Releases
    <3> QED BY <1>2, <2>1, <3>1 DEF WireLess
  <2>2. CASE Asks(k, m)
    <3>1. m.wire = Append(k.wire, Configure(k.config.w))
        BY <2>2 DEF Asks
    <3>2. \E f \in [Releases(m) -> Releases(k)] :
              /\ \A i \in Releases(m) : m.wire[i].id = k.wire[f[i]].id
              /\ \A i, j \in Releases(m) : f[j] = f[i] => j = i
      <4>1. WireLess(m, k)
          BY <1>2, <1>w, <3>1, SentOther
      <4> QED BY <4>1 DEF WireLess
    <3>3. PICK f \in [Releases(m) -> Releases(k)] :
              /\ \A i \in Releases(m) : m.wire[i].id = k.wire[f[i]].id
              /\ \A i, j \in Releases(m) : f[j] = f[i] => j = i
        BY <3>2
    <3>4. PICK g \in [Releases(k) -> Releases(l)] :
              /\ \A i \in Releases(k) : k.wire[i].id = l.wire[g[i]].id
              /\ \A i, j \in Releases(k) : g[j] = g[i] => j = i
        BY <1>2 DEF WireLess
    <3> DEFINE h == [i \in Releases(m) |-> g[f[i]]]
    <3>5. \A i \in Releases(m) : f[i] \in Releases(k) /\ g[f[i]] \in Releases(l) /\ h[i] = g[f[i]]
        BY <3>3, <3>4
    <3>6. h \in [Releases(m) -> Releases(l)]
        BY <3>5
    <3> HIDE DEF h
    <3> QED BY <3>3, <3>4, <3>5, <3>6 DEF WireLess
  <2> QED BY <1>3, <2>1, <2>2
<1>6. ASSUME l.error = "none", l.made_on = l.config.out PROVE Recommits(l, m)
  <2>1. k = l
      BY <1>2, <1>6
  <2> QED BY <1>3, <1>6, <2>1 DEF Recommits
<1>7. ASSUME l.error = "none", l.made_on # l.config.out, l.attached = None PROVE Renews(l, m)
  <2>1. k.phase = "created" /\ k.error = "none" /\ k.configured = FALSE
        /\ \A i \in DOMAIN k.wire : k.wire[i].event \notin {"configure", "closed"}
      BY <1>2, <1>7 DEF Rebuilt
  <2>2. Asks(k, m)
      BY <1>3, <2>1
  <2>3. k.wire \in Seq(Event)
      BY <1>2 DEF Link
  <2> QED BY <1>2, <1>3, <2>1, <2>2, <2>3 DEF Renews, Asks
<1> QED BY <1>2, <1>3, <1>4, <1>5, <1>6, <1>7 DEF m

LEMMA ConnectedIs ==
    ASSUME NEW out \in Outputs
    PROVE  LET l == Connected(out)
           IN  /\ l \in Link /\ l.error = "none" /\ l.phase = "initial" /\ l.asked = 0 /\ l.attached = None /\ l.held = {}
               /\ l.configured = FALSE /\ l.width = 0 /\ l.made_on = None /\ l.buffers = <<>> /\ l.on = out
               /\ l.wire = <<Names, Configure(0)>> /\ Configures(l) = {2} /\ ~l.wire[2].late /\ BuffersInv(l)
<1> DEFINE l == Connected(out)
           c == [w |-> 0, out |-> None, left |-> 0, top |-> 0]
           wire == <<Names, Configure(0)>>
<1>1. c \in Layer
    BY DEF Layer
<1>2. Names \in Event /\ Configure(0) \in Event /\ Names.event = "names" /\ Configure(0).event = "configure"
      /\ ~Configure(0).late
    BY EventTypes
<1>3. wire \in Seq(Event) /\ DOMAIN wire = {1, 2} /\ wire[1] = Names /\ wire[2] = Configure(0)
  <2>1. DOMAIN wire = 1..2 /\ Len(wire) = 2
      OBVIOUS
  <2> QED BY <1>2, <2>1
<1>4. <<>> \in Seq(Buffer)
    OBVIOUS
<1> HIDE DEF c, wire
<1>5. l = [error |-> "none", phase |-> "initial", on |-> out, asked |-> 0, attached |-> None, held |-> {}, wire |-> wire,
           configured |-> FALSE, width |-> 0, made_on |-> None, config |-> c, known |-> FALSE, buffers |-> <<>>]
    BY DEF Connected, c, wire
<1> HIDE DEF l
<1>6. l \in Link
    BY <1>1, <1>3, <1>4, <1>5 DEF Link
<1>7. Configures(l) = {2} /\ Releases(l) = {}
    BY <1>2, <1>3, <1>5 DEF Configures, Releases
<1>8. /\ l.error = "none" /\ l.phase = "initial" /\ l.asked = 0 /\ l.attached = None /\ l.held = {}
      /\ l.configured = FALSE /\ l.width = 0 /\ l.made_on = None /\ l.buffers = <<>> /\ l.on = out /\ l.wire = wire
    BY <1>5
<1>9. BuffersInv(l)
  <2>1. DOMAIN l.buffers = {}
      BY <1>8
  <2> QED BY <1>7, <1>8, <2>1 DEF BuffersInv
<1>10. ~l.wire[2].late
    BY <1>2, <1>3, <1>8
<1> QED BY <1>6, <1>7, <1>8, <1>9, <1>10 DEF l, wire

LEMMA UnmappedBuffers == ASSUME NEW l \in Link, BuffersInv(l) PROVE BuffersInv(Unmapped(l))
<1> DEFINE m == Unmapped(l)
<1>1. /\ SameBuffers(l, m)
      /\ l.error # "none" => m.attached = l.attached /\ m.wire = l.wire
      /\ l.error = "none" => Reset(l, m)
    BY UnmappedResets
<1> HIDE DEF m
<1>2. WireLess(m, l)
  <2>1. CASE l.error # "none"
    <3>1. Releases(m) = Releases(l)
        BY <1>1, <2>1 DEF Releases
    <3> QED BY <1>1, <2>1, <3>1, SameReleases
  <2>2. CASE l.error = "none"
    <3>1. DOMAIN m.wire = DOMAIN l.wire
          /\ \A k \in DOMAIN l.wire : /\ l.wire[k].event # "configure" => m.wire[k] = l.wire[k]
                                      /\ l.wire[k].event = "configure" => m.wire[k].event = "configure"
        BY <1>1, <2>2 DEF Reset
    <3>2. \A k \in Releases(m) : k \in Releases(l) /\ m.wire[k] = l.wire[k]
        BY <3>1 DEF Releases
    <3> QED BY <3>2, SameReleases
  <2> QED BY <2>1, <2>2
<1>3. m.attached \in {l.attached, None}
    BY <1>1 DEF Reset
<1> QED BY <1>1, <1>2, <1>3, BuffersKept DEF SameBuffers, m

LEMMA RemappedBuffers ==
    ASSUME NEW l \in Link, NEW pick \in Outputs, l.config.out \in Outputs, BuffersInv(l)
    PROVE  BuffersInv(Remapped(l, pick))
<1> DEFINE m == Remapped(l, pick)
<1>1. SameBuffers(l, m) /\ m.attached = l.attached /\ WireLess(m, l)
    BY RemappedAsks
<1> HIDE DEF m
<1> QED BY <1>1, BuffersKept DEF SameBuffers, m

-----------------------------------------------------------------------------
(* The terminal and the types of the whole *)

Geom == [x : Int, y : Int, w : Nat \ {0}, h : Nat \ {0}]
Terminals == [shown : BOOLEAN, geom : Shapes \cup Geom, tabs : Nat, moved : BOOLEAN]
Places == [size : Size \cup {None}, tabs : Nat, band : Nat]

\* A strip has a rectangle only with a surface that was configured for a monitor.
Sound == {s \in Safe : s.strip.rect # None => s.strip.ready /\ s.link.config.out \in Outputs}

Typed ==
    /\ focus \in Outputs /\ size \in Size \cup {None} /\ term \in Terminals /\ placed \in Places
    /\ State \in Sound

LEMMA TopType ==
    ASSUME NEW out \in Outputs
    PROVE  Top(out) \in Int /\ Left(out) \in Int /\ Monitors[out] \in Monitor
<1>1. Monitors[out] \in Monitor
    BY StripAssumption
<1>2. Usable(Monitors[out]) \in [x : Int, y : Int, w : Nat \ {0}, h : Nat \ {0}]
    BY <1>1, UsableType
<1> QED BY <1>1, <1>2 DEF Top, Left

LEMMA TerminalOf ==
    ASSUME NEW b \in Geom
    PROVE  /\ Terminal(b, TRUE) \in Geom /\ Terminal(b, TRUE).x = b.x /\ Terminal(b, TRUE).y = b.y + Band
           /\ Terminal(b, FALSE) = b
<1>1. Band \in Nat
    BY GeometryAssumption
<1>2. AtLeast1(b.h - Band) \in Nat \ {0}
    BY <1>1 DEF AtLeast1, Geom
<1> DEFINE h == AtLeast1(b.h - Band)
<1>3. Terminal(b, TRUE) = [b EXCEPT !.y = @ + Band, !.h = h] /\ Terminal(b, FALSE) = b
    BY DEF Terminal
<1>4. h \in Nat \ {0}
    BY <1>2
<1> HIDE DEF h
<1> DEFINE y == b.y + Band
           c == [b EXCEPT !.y = y, !.h = h]
<1>5. y \in Int
    BY <1>1 DEF Geom
<1>6. Terminal(b, TRUE) = c
    BY <1>3 DEF Geom
<1> HIDE DEF y
<1>7. c \in Geom /\ c.x = b.x /\ c.y = y
    BY <1>4, <1>5 DEF Geom
<1> QED BY <1>3, <1>6, <1>7 DEF y

LEMMA PlacedBase ==
    ASSUME focus \in Outputs, size \in Size \cup {None}, NEW band \in BOOLEAN
    PROVE  LET base == ComputeGeometry(Monitors[focus], [Percent EXCEPT !.override = size])
               geom == Terminal(base, band)
           IN  /\ base.x \in Int /\ base.y \in Int /\ Top(focus) <= base.y
               /\ geom \in Geom /\ geom.x = base.x
               /\ band => geom.y = base.y + Band
<1> DEFINE m == Monitors[focus]
           c == [Percent EXCEPT !.override = size]
           base == ComputeGeometry(m, c)
           u == Usable(m)
           d == SizeOn(u, c)
<1>1. m \in Monitor
    BY TopType
<1>2. c \in Policy
    BY StripAssumption DEF Policy
<1>3. u \in [x : Int, y : Int, w : Nat \ {0}, h : Nat \ {0}] /\ u.y = Top(focus)
    BY <1>1, UsableType DEF Top
<1> HIDE DEF m, c
<1>4. d \in [w : 1..u.w, h : 1..u.h]
    BY <1>2, <1>3, SizeRange
<1>5. base = PlacedAt(u, d, c.edge) /\ c.edge \in Edges
    BY <1>2 DEF ComputeGeometry, Policy
<1> HIDE DEF u, d, base
<1>6. /\ base.w = d.w /\ base.h = d.h
      /\ u.x <= base.x /\ base.x + base.w <= u.x + u.w
      /\ u.y <= base.y /\ base.y + base.h <= u.y + u.h
    BY <1>3, <1>4, <1>5, PlacedAtInside
<1>7. d.w \in Nat \ {0} /\ d.h \in Nat \ {0}
    BY <1>3, <1>4
<1>8. base = [x |-> base.x, y |-> base.y, w |-> d.w, h |-> d.h] /\ base.x \in Int /\ base.y \in Int
  <2> DEFINE a == (u.w - d.w) \div 2
             b == (u.h - d.h) \div 2
  <2>1. u.w - d.w \in Int /\ u.h - d.h \in Int /\ u.x \in Int /\ u.y \in Int /\ u.w \in Int /\ u.h \in Int
      BY <1>3, <1>7
  <2>2. a \in Int /\ b \in Int
      BY <2>1
  <2> HIDE DEF a, b
  <2>3. base = [x |-> CASE c.edge = "left" -> u.x [] c.edge = "right" -> u.x + u.w - d.w [] OTHER -> u.x + a,
                y |-> CASE c.edge = "top" -> u.y [] c.edge = "bottom" -> u.y + u.h - d.h [] OTHER -> u.y + b,
                w |-> d.w, h |-> d.h]
      BY <1>5 DEF PlacedAt, a, b
  <2> QED BY <1>7, <2>1, <2>2, <2>3
<1>9. base \in Geom
    BY <1>7, <1>8 DEF Geom
<1>10. CASE band
  <2>1. Terminal(base, band) = Terminal(base, TRUE)
      BY <1>10
  <2> QED BY <1>3, <1>6, <1>8, <1>9, <2>1, TerminalOf DEF base, m, c
<1>11. CASE ~band
  <2>1. Terminal(base, band) = Terminal(base, FALSE)
      BY <1>11
  <2> QED BY <1>3, <1>6, <1>8, <1>9, <1>11, <2>1, TerminalOf DEF base, m, c
<1> QED BY <1>10, <1>11

-----------------------------------------------------------------------------
(* What the handlers do *)

Margins(rect) == [w |-> rect.w, out |-> focus, left |-> rect.x - Left(focus), top |-> rect.y - Top(focus)]

\* A link in which only the layer's configuration is another.
Layered(l, m, layer) ==
    /\ m.error = l.error /\ m.phase = l.phase /\ m.asked = l.asked /\ m.attached = l.attached
    /\ SameBuffers(l, m) /\ m.wire = l.wire /\ m.configured = l.configured /\ m.width = l.width
    /\ m.made_on = l.made_on /\ m.config = layer

\* A state in which only the picture is to be painted again.
Dirtied(s, t) ==
    /\ t.link = s.link /\ t.strip.dirty = TRUE /\ t.strip.ready = s.strip.ready /\ t.strip.rect = s.strip.rect
    /\ t.strip.cooling = s.strip.cooling /\ t.strip.torn = s.strip.torn

\* The steps of show_strip: the layer l is set, the surface is remapped (a), k events are read, the picture is painted.
Shows(s, rect, pick, t, l, a, k, d) ==
    /\ Layered(s.link, l, Margins(rect)) /\ a.link = Remapped(l, pick)
    /\ a.strip.rect = rect /\ a.strip.ready = s.strip.ready /\ a.strip.dirty = s.strip.dirty
    /\ a.strip.cooling = s.strip.cooling /\ a.strip.torn = s.strip.torn
    /\ k \in 0..Len(a.link.wire) /\ ("stall" \notin env => k = Len(a.link.wire))
    /\ Dirtied(Dispatched(a, k), d) /\ t = Rendered(d, TRUE)

Everything == States

LEMMA DispatchedStates ==
    ASSUME NEW s \in States, NEW n \in 0..Len(s.link.wire)
    PROVE  Dispatched(s, n) \in States /\ Len(Dispatched(s, n).link.wire) = Len(s.link.wire) - n
<1>1. Everything \subseteq States /\ s \in Everything /\ \A t \in Everything : t.link.wire # <<>> => Delivered(t) \in Everything
    BY DeliveredHeard DEF Everything
<1> HIDE DEF Everything
<1>2. Dispatched(s, n) \in Everything /\ Len(Dispatched(s, n).link.wire) = Len(s.link.wire) - n
    BY <1>1, DispatchedKeeps
<1> QED BY <1>2 DEF Everything

LEMMA DirtiedState ==
    ASSUME NEW s \in States
    PROVE  [s EXCEPT !.strip.dirty = TRUE] \in States /\ Dirtied(s, [s EXCEPT !.strip.dirty = TRUE])
<1> DEFINE p == [s.strip EXCEPT !.dirty = TRUE]
           t == [s EXCEPT !.strip.dirty = TRUE]
<1>1. s = [link |-> s.link, strip |-> s.strip] /\ s.link \in Link /\ s.strip \in Strip
    BY DEF States
<1>2. t = [link |-> s.link, strip |-> p]
  <2>1. DOMAIN s = {"link", "strip"}
      BY DEF States
  <2>2. t.link = s.link /\ t.strip = p
      BY <2>1
  <2>3. t = [x \in {"link", "strip"} |-> t[x]]
      BY <2>1
  <2> HIDE DEF t, p
  <2> QED BY <2>2, <2>3
<1>3. p \in Strip /\ p.dirty = TRUE /\ p.ready = s.strip.ready /\ p.rect = s.strip.rect
      /\ p.cooling = s.strip.cooling /\ p.torn = s.strip.torn
    BY <1>1 DEF Strip
<1> HIDE DEF p, t
<1> QED BY <1>1, <1>2, <1>3 DEF States, Dirtied, t

LEMMA ShownAs ==
    ASSUME focus \in Outputs, NEW s \in States, NEW rect \in Rect, NEW pick \in Outputs, NEW t \in ShownStrip(s, rect, pick)
    PROVE  \E l \in Link, a \in States, d \in States : \E k : Shows(s, rect, pick, t, l, a, k, d)
<1> DEFINE layer == Margins(rect)
           l == [s.link EXCEPT !.config = layer]
           m == Remapped(l, pick)
           p == [s.strip EXCEPT !.rect = rect]
           a == [link |-> m, strip |-> p]
           n == Len(a.link.wire)
<1>1. s = [link |-> s.link, strip |-> s.strip] /\ s.link \in Link /\ s.strip \in Strip
    BY DEF States
<1>2. layer \in Layer /\ layer.out \in Outputs
  <2>1. Left(focus) \in Int /\ Top(focus) \in Int /\ rect.x \in Int /\ rect.y \in Int /\ rect.w \in Nat
      BY TopType DEF Rect
  <2> DEFINE x == rect.x - Left(focus)
             y == rect.y - Top(focus)
  <2>2. x \in Int /\ y \in Int
      BY <2>1
  <2>3. layer = [w |-> rect.w, out |-> focus, left |-> x, top |-> y]
      BY DEF Margins
  <2> HIDE DEF x, y, layer
  <2> QED BY <2>1, <2>2, <2>3 DEF Layer
<1>3. [s EXCEPT !.link = Remapped([@ EXCEPT !.config = layer], pick), !.strip.rect = rect] = a
  <2> HIDE DEF layer
  <2>1. [s EXCEPT !.link = Remapped([@ EXCEPT !.config = layer], pick)] = [link |-> m, strip |-> s.strip]
      BY <1>1
  <2> DEFINE b == [s EXCEPT !.link = Remapped([@ EXCEPT !.config = layer], pick), !.strip.rect = rect]
  <2>2. DOMAIN b = {"link", "strip"} /\ b = [x \in {"link", "strip"} |-> b[x]]
      BY DEF States
  <2>3. b.link = m /\ b.strip = p
      BY DEF States
  <2> HIDE DEF b, m, p
  <2>4. b = [link |-> m, strip |-> p]
      BY <2>2, <2>3
  <2> QED BY <2>4 DEF b
<1>4. t \in {Rendered([Dispatched(a, k) EXCEPT !.strip.dirty = TRUE], TRUE) : k \in IF "stall" \in env THEN {0, n} ELSE {n}}
  <2> HIDE DEF a
  <2>1. ShownStrip(s, rect, pick) =
          {Rendered([Dispatched(a, k) EXCEPT !.strip.dirty = TRUE], TRUE) : k \in IF "stall" \in env THEN {0, n} ELSE {n}}
      BY <1>3 DEF ShownStrip, Margins
  <2> QED BY <2>1
<1> HIDE DEF layer
<1>5. l \in Link /\ Layered(s.link, l, layer)
    BY <1>1, <1>2 DEF Link, Layered, SameBuffers
<1>l. l.config = layer
    BY <1>5 DEF Layered
<1> HIDE DEF l
<1>6. m \in Link
    BY <1>2, <1>5, <1>l, RemappedAsks
<1>7. p \in Strip /\ p.rect = rect /\ p.ready = s.strip.ready /\ p.dirty = s.strip.dirty
      /\ p.cooling = s.strip.cooling /\ p.torn = s.strip.torn
    BY <1>1 DEF Strip
<1> HIDE DEF m, p
<1>8. a \in States /\ a.link = m /\ a.strip = p
    BY <1>6, <1>7 DEF States
<1> HIDE DEF a
<1>9. n \in Nat
    BY <1>8 DEF States, Link
<1>10. PICK k \in (IF "stall" \in env THEN {0, n} ELSE {n}) : t = Rendered([Dispatched(a, k) EXCEPT !.strip.dirty = TRUE], TRUE)
    BY <1>4
<1>11. k \in 0..n /\ ("stall" \notin env => k = n)
    BY <1>9, <1>10
<1>12. Dispatched(a, k) \in States
    BY <1>8, <1>11, DispatchedStates
<1>13. [Dispatched(a, k) EXCEPT !.strip.dirty = TRUE] \in States
       /\ Dirtied(Dispatched(a, k), [Dispatched(a, k) EXCEPT !.strip.dirty = TRUE])
    BY <1>12, DirtiedState
<1>14. Shows(s, rect, pick, t, l, a, k, [Dispatched(a, k) EXCEPT !.strip.dirty = TRUE])
    BY <1>5, <1>7, <1>8, <1>10, <1>11, <1>13 DEF Shows, layer, m
<1> QED BY <1>5, <1>8, <1>13, <1>14

LEMMA StateIs == State.link = link /\ State.strip = strip
BY DEF State

LEMMA BecomesIs == ASSUME NEW s \in States, Becomes(s) PROVE State' = s
BY DEF Becomes, States, State

LEMMA DeliveredSound == ASSUME NEW s \in Sound, s.link.wire # <<>> PROVE Delivered(s) \in Sound
<1> DEFINE t == Delivered(s)
           e == Head(s.link.wire)
<1>1. s \in Safe /\ s \in States
    BY DEF Sound, Safe
<1>2. t \in Safe /\ e \in Event /\ Heard(s, t, e)
    BY <1>1, DeliveredSafe, DeliveredHeard
<1> HIDE DEF t, e
<1>3. t.link.config = s.link.config
    BY <1>2 DEF Heard, SameLink
<1>4. t.strip.rect # None => t.strip.rect = s.strip.rect /\ t.strip.ready = s.strip.ready
  <2>1. e.event \in {"configure", "names", "release", "closed"}
      BY <1>2 DEF Event
  <2> QED BY <1>2, <2>1 DEF Heard
<1> QED BY <1>2, <1>3, <1>4 DEF Sound, t

LEMMA DispatchedSound ==
    ASSUME NEW s \in Sound, NEW n \in 0..Len(s.link.wire) PROVE Dispatched(s, n) \in Sound
<1>1. Sound \subseteq States /\ \A t \in Sound : t.link.wire # <<>> => Delivered(t) \in Sound
    BY DeliveredSound DEF Sound, Safe
<1> HIDE DEF Sound
<1> QED BY <1>1, DispatchedKeeps

LEMMA RenderedSound == ASSUME NEW s \in Sound, NEW visible PROVE Rendered(s, visible) \in Sound
<1> DEFINE t == Rendered(s, visible)
<1>1. s \in Safe /\ s \in States
    BY DEF Sound, Safe
<1>2. t \in Safe
    BY <1>1, RenderedSafe
<1>3. t = s \/ \E as, b : Painted(s, t, as, b)
    BY <1>1, RenderedPaints
<1> HIDE DEF t
<1>4. t.link.config = s.link.config /\ t.strip.rect = s.strip.rect /\ t.strip.ready = s.strip.ready
    BY <1>3 DEF Painted
<1> QED BY <1>2, <1>4 DEF Sound, t

LEMMA ShownSound ==
    ASSUME focus \in Outputs, NEW s \in Sound, s.strip.ready, NEW rect \in Rect, NEW pick \in Outputs,
           NEW t \in ShownStrip(s, rect, pick)
    PROVE  t \in Sound
<1>0. s \in States /\ BuffersInv(s.link) /\ ~s.strip.torn /\ s.link \in Link
    BY DEF Sound, Safe, States
<1>1. PICK l \in Link, a \in States, d \in States : \E k : Shows(s, rect, pick, t, l, a, k, d)
    BY <1>0, ShownAs
<1>2. PICK k : Shows(s, rect, pick, t, l, a, k, d)
    BY <1>1
<1>3. Layered(s.link, l, Margins(rect))
    BY <1>2 DEF Shows
<1>4. BuffersInv(l)
  <2>1. WireLess(l, s.link)
    <3>1. Releases(l) = Releases(s.link) /\ l.wire = s.link.wire
        BY <1>3 DEF Layered, Releases
    <3> QED BY <3>1, SameReleases
  <2> QED BY <1>0, <1>3, <2>1, BuffersKept DEF Layered, SameBuffers
<1>5. l.config = Margins(rect) /\ l.config.out \in Outputs
    BY <1>3 DEF Layered, Margins
<1>6. BuffersInv(Remapped(l, pick)) /\ Remapped(l, pick).config = l.config
    BY <1>4, <1>5, RemappedBuffers, RemappedAsks
<1>7. a \in Sound
    BY <1>0, <1>2, <1>5, <1>6 DEF Sound, Safe, Shows
<1>8. Dispatched(a, k) \in Sound
    BY <1>2, <1>7, DispatchedSound DEF Shows
<1>9. d \in Sound
    BY <1>2, <1>8 DEF Sound, Safe, Shows, Dirtied
<1> QED BY <1>2, <1>9, RenderedSound DEF Shows

\* What hide_strip leaves.
LEMMA HiddenIs ==
    ASSUME NEW s \in States
    PROVE  LET t == Hidden(s)
           IN  /\ t \in States /\ t.strip.rect = None /\ t.strip.ready = s.strip.ready /\ t.strip.dirty = s.strip.dirty
               /\ t.strip.torn = s.strip.torn /\ t.strip.cooling = s.strip.cooling
               /\ t.link = IF s.strip.ready THEN Unmapped(s.link) ELSE s.link
<1> DEFINE m == IF s.strip.ready THEN Unmapped(s.link) ELSE s.link
           p == [s.strip EXCEPT !.rect = None]
           t == Hidden(s)
<1>1. t = [link |-> m, strip |-> p]
  <2>1. t.link = m /\ t.strip = p
      BY DEF Hidden, States
  <2>2. DOMAIN t = {"link", "strip"} /\ t = [x \in {"link", "strip"} |-> t[x]]
      BY DEF Hidden, States
  <2> HIDE DEF t, m, p
  <2> QED BY <2>1, <2>2
<1>2. m \in Link
    BY UnmappedResets DEF States
<1>3. /\ p \in Strip /\ p.rect = None /\ p.ready = s.strip.ready /\ p.dirty = s.strip.dirty
      /\ p.torn = s.strip.torn /\ p.cooling = s.strip.cooling
    BY DEF States, Strip
<1> HIDE DEF t, p
<1>4. t.link = m /\ t.strip = p
    BY <1>1
<1>m. m = IF s.strip.ready THEN Unmapped(s.link) ELSE s.link
    OBVIOUS
<1> HIDE DEF m
<1>5. t \in States
    BY <1>1, <1>2, <1>3 DEF States
<1> QED BY <1>3, <1>4, <1>5, <1>m DEF t

LEMMA HiddenSound == ASSUME NEW s \in Sound PROVE Hidden(s) \in Sound
<1> DEFINE t == Hidden(s)
<1>1. s \in States /\ s.link \in Link /\ BuffersInv(s.link) /\ ~s.strip.torn
    BY DEF Sound, Safe, States
<1>2. t \in States /\ t.strip.rect = None /\ t.strip.torn = s.strip.torn
      /\ t.link = IF s.strip.ready THEN Unmapped(s.link) ELSE s.link
    BY <1>1, HiddenIs
<1> HIDE DEF t
<1>3. BuffersInv(t.link)
    BY <1>1, <1>2, UnmappedBuffers
<1> QED BY <1>1, <1>2, <1>3 DEF Sound, Safe, t

LEMMA EnsuredIs ==
    ASSUME NEW s \in States, NEW pick \in Outputs
    PROVE  LET t == Ensured(s, pick)
           IN  /\ t \in States /\ t.strip.ready /\ t.strip.rect = s.strip.rect /\ t.strip.dirty = s.strip.dirty
               /\ t.strip.torn = s.strip.torn /\ t.strip.cooling = s.strip.cooling
               /\ s.strip.ready => t = s
               /\ ~s.strip.ready => t.link = Connected(pick)
<1> DEFINE p == [s.strip EXCEPT !.ready = TRUE]
           m == Connected(pick)
           t == Ensured(s, pick)
<1>1. CASE s.strip.ready
  <2>1. t = s
      BY <1>1 DEF Ensured
  <2> QED BY <1>1, <2>1
<1>2. CASE ~s.strip.ready
  <2>1. t = [link |-> m, strip |-> p]
      BY <1>2 DEF Ensured
  <2>2. m \in Link
      BY ConnectedIs
  <2>3. /\ p \in Strip /\ p.ready /\ p.rect = s.strip.rect /\ p.dirty = s.strip.dirty
        /\ p.torn = s.strip.torn /\ p.cooling = s.strip.cooling
      BY DEF States, Strip
  <2> HIDE DEF t, m, p
  <2>4. t.link = m /\ t.strip = p /\ t \in States
      BY <2>1, <2>2, <2>3 DEF States
  <2> QED BY <1>2, <2>3, <2>4 DEF t, m
<1> QED BY <1>1, <1>2

LEMMA EnsuredSound ==
    ASSUME NEW s \in Sound, NEW pick \in Outputs
    PROVE  Ensured(s, pick) \in Sound /\ Ensured(s, pick).strip.ready
<1> DEFINE t == Ensured(s, pick)
<1>1. s \in States /\ ~s.strip.torn
    BY DEF Sound, Safe
<1>2. /\ t \in States /\ t.strip.ready /\ t.strip.rect = s.strip.rect /\ t.strip.torn = s.strip.torn
      /\ s.strip.ready => t = s
      /\ ~s.strip.ready => t.link = Connected(pick)
    BY <1>1, EnsuredIs
<1> HIDE DEF t
<1>3. CASE s.strip.ready
    BY <1>2, <1>3 DEF t
<1>4. CASE ~s.strip.ready
  <2>1. BuffersInv(t.link) /\ t.strip.rect = None
      BY <1>2, <1>4, ConnectedIs DEF Sound
  <2> QED BY <1>1, <1>2, <2>1 DEF Sound, Safe, t
<1> QED BY <1>3, <1>4

LEMMA TermType ==
    ASSUME term \in Terminals
    PROVE  /\ term.geom.x \in Int /\ term.geom.y \in Int /\ term.geom.w \in Nat \ {0} /\ term.geom.h \in Nat \ {0}
           /\ term.tabs \in Nat /\ term.shown \in BOOLEAN /\ term.moved \in BOOLEAN
<1>1. term.geom \in Shapes \cup Geom /\ term.tabs \in Nat /\ term.shown \in BOOLEAN /\ term.moved \in BOOLEAN
    BY DEF Terminals
<1>2. CASE term.geom \in Shapes
  <2> DEFINE g == term.geom
  <2>1. g.x \in Int /\ g.y \in Int /\ [w |-> g.w, h |-> g.h] \in Size
      BY <1>2, StripAssumption
  <2>2. g.w \in Nat \ {0} /\ g.h \in Nat \ {0}
      BY <2>1 DEF Size
  <2> QED BY <1>1, <2>1, <2>2
<1>3. CASE term.geom \in Geom
    BY <1>1, <1>3 DEF Geom
<1> QED BY <1>1, <1>2, <1>3

LEMMA WantedType ==
    ASSUME term \in Terminals, link.config.out \in Outputs
    PROVE  Wanted \in Rect /\ Wanted.w > 0
<1>1. /\ term.geom.x \in Int /\ term.geom.y \in Int /\ term.geom.w \in Nat \ {0}
      /\ Top(link.config.out) \in Int /\ Band \in Nat
    BY TermType, TopType, GeometryAssumption
<1> DEFINE y == IF term.geom.y - Band < Top(link.config.out) THEN Top(link.config.out) ELSE term.geom.y - Band
<1>2. y \in Int
    BY <1>1
<1>3. Wanted = [x |-> term.geom.x, w |-> term.geom.w, y |-> y]
    BY DEF Wanted
<1> HIDE DEF y
<1> QED BY <1>1, <1>2, <1>3 DEF Rect

\* What place_visible makes of the terminal and of the strip.
Puts(s, band, geom, rect) ==
    /\ band = (term.tabs >= 2 /\ CanHaveStrip)
    /\ term' \in Terminals /\ term'.shown /\ term'.geom = geom /\ term'.tabs = term.tabs /\ term'.moved = term.moved
    /\ placed' \in Places /\ placed'.tabs = term.tabs
    /\ rect.x = geom.x /\ rect.w = geom.w /\ (band => rect.y = geom.y - Band) /\ Top(focus) <= rect.y
    /\ ~band => State' = Hidden(s)
    /\ band => \E pick \in Outputs : \E t \in ShownStrip(Ensured(s, pick), rect, pick) : Becomes(t)

LEMMA PlacedPuts ==
    ASSUME focus \in Outputs, size \in Size \cup {None}, term \in Terminals, NEW s \in States, Placed(s)
    PROVE  \E band \in BOOLEAN, geom \in Geom, rect \in Rect : Puts(s, band, geom, rect)
<1> DEFINE base == ComputeGeometry(Monitors[focus], [Percent EXCEPT !.override = size])
           band == term.tabs >= 2 /\ CanHaveStrip
           geom == Terminal(base, band)
           rect == [x |-> base.x, y |-> base.y, w |-> geom.w]
<1>1. /\ term' = [term EXCEPT !.shown = TRUE, !.geom = geom]
      /\ placed' = [size |-> [w |-> geom.w, h |-> geom.h], tabs |-> term.tabs, band |-> IF band THEN Band ELSE 0]
      /\ band => \E pick \in Outputs : \E t \in ShownStrip(Ensured(s, pick), rect, pick) : Becomes(t)
      /\ ~band => Becomes(Hidden(s))
    BY DEF Placed
<1>2. band \in BOOLEAN
    OBVIOUS
<1>b. band = (term.tabs >= 2 /\ CanHaveStrip)
    OBVIOUS
<1> HIDE DEF band
<1>3. /\ base.x \in Int /\ base.y \in Int /\ Top(focus) <= base.y
      /\ geom \in Geom /\ geom.x = base.x
      /\ band => geom.y = base.y + Band
    BY <1>2, PlacedBase
<1> HIDE DEF geom, base
<1>4. rect \in Rect
    BY <1>3 DEF Rect, Geom
<1>r. rect.x = base.x /\ rect.y = base.y /\ rect.w = geom.w
    OBVIOUS
<1> HIDE DEF rect
<1>5. term' \in Terminals /\ term'.shown /\ term'.geom = geom /\ term'.tabs = term.tabs /\ term'.moved = term.moved
    BY <1>1, <1>3 DEF Terminals
<1>6. placed' \in Places /\ placed'.tabs = term.tabs
  <2>1. Band \in Nat
      BY GeometryAssumption
  <2> DEFINE b == IF band THEN Band ELSE 0
             z == [w |-> geom.w, h |-> geom.h]
  <2>2. b \in Nat /\ z \in Size
      BY <1>3, <2>1 DEF Geom, Size
  <2> HIDE DEF b, z
  <2>3. placed' = [size |-> z, tabs |-> term.tabs, band |-> b]
      BY <1>1 DEF b, z
  <2>4. term.tabs \in Nat
      BY DEF Terminals
  <2> QED BY <2>2, <2>3, <2>4 DEF Places
<1>7. band => rect.y = geom.y - Band
  <2>1. Band \in Int
      BY GeometryAssumption
  <2> QED BY <1>3, <1>r, <2>1
<1>8. ~band => State' = Hidden(s)
    BY <1>1, HiddenIs, BecomesIs
<1>9. Puts(s, band, geom, rect)
    BY <1>b, <1>1, <1>3, <1>r, <1>5, <1>6, <1>7, <1>8 DEF Puts
<1> QED BY <1>2, <1>3, <1>4, <1>9

LEMMA PlacedSound ==
    ASSUME Typed, Placed(State), UNCHANGED <<focus, size>>
    PROVE  Typed'
<1>1. focus \in Outputs /\ size \in Size \cup {None} /\ term \in Terminals /\ State \in Sound /\ State \in States
    BY DEF Typed, Sound, Safe
<1>2. PICK band \in BOOLEAN, geom \in Geom, rect \in Rect : Puts(State, band, geom, rect)
    BY <1>1, PlacedPuts
<1>3. State' \in Sound
  <2>1. CASE ~band
    <3>1. State' = Hidden(State)
        BY <1>2, <2>1 DEF Puts
    <3> QED BY <1>1, <3>1, HiddenSound
  <2>2. CASE band
    <3>1. PICK pick \in Outputs : \E t \in ShownStrip(Ensured(State, pick), rect, pick) : Becomes(t)
        BY <1>2, <2>2 DEF Puts
    <3>2. PICK t \in ShownStrip(Ensured(State, pick), rect, pick) : Becomes(t)
        BY <3>1
    <3>3. Ensured(State, pick) \in Sound /\ Ensured(State, pick).strip.ready
        BY <1>1, EnsuredSound
    <3>4. t \in Sound
        BY <1>1, <3>3, ShownSound
    <3>5. t \in States
        BY <3>4 DEF Sound, Safe
    <3>6. State' = t
        BY <3>2, <3>5, BecomesIs
    <3> QED BY <3>4, <3>6
  <2> QED BY <2>1, <2>2
<1> QED BY <1>1, <1>2, <1>3 DEF Typed, Puts

LEMMA TypedInit == Init => Typed
<1> SUFFICES ASSUME Init PROVE Typed
    OBVIOUS
<1>1. focus \in Outputs /\ size = None /\ link = Connected(focus)
      /\ strip = [ready |-> FALSE, rect |-> None, dirty |-> FALSE, cooling |-> FALSE, torn |-> FALSE]
    BY DEF Init
<1>2. strip \in Strip /\ strip.rect = None /\ ~strip.torn
    BY <1>1 DEF Strip
<1>3. link \in Link /\ BuffersInv(link)
    BY <1>1, ConnectedIs
<1>4. State \in Sound
    BY <1>2, <1>3 DEF Sound, Safe, States, State
<1>5. term \in Terminals /\ placed \in Places
    BY DEF Init, Terminals, Places
<1> QED BY <1>1, <1>4, <1>5 DEF Typed

\* A strip that is changed in its flags only, or gives its rectangle up.
LEMMA StripChanged ==
    ASSUME State \in Sound, NEW m, m = link, strip' \in Strip, link' = m, strip'.torn = strip.torn,
           strip'.rect = None \/ (strip'.rect = strip.rect /\ strip'.ready = strip.ready)
    PROVE  State' \in Sound
<1>1. State' = [link |-> link, strip |-> strip'] /\ link \in Link /\ BuffersInv(link)
      /\ (strip.rect # None => strip.ready /\ link.config.out \in Outputs) /\ ~strip.torn
    BY StateIs DEF Sound, Safe, States, State
<1> QED BY <1>1 DEF Sound, Safe, States

\* A link that is changed by the compositor.
LEMMA LinkChanged ==
    ASSUME State \in Sound, strip' = strip, link' \in Link, BuffersInv(link'), link'.config = link.config
    PROVE  State' \in Sound
<1>1. State' = [link |-> link', strip |-> strip] /\ strip \in Strip
      /\ (strip.rect # None => strip.ready /\ link.config.out \in Outputs) /\ ~strip.torn
    BY StateIs DEF Sound, Safe, States, State
<1> QED BY <1>1 DEF Sound, Safe, States

LEMMA ReleasedBuffers ==
    ASSUME NEW l \in Link, BuffersInv(l), NEW b \in l.held \ {l.attached}
    PROVE  LET m == [l EXCEPT !.held = @ \ {b}, !.wire = Append(@, Release(b))]
           IN  m \in Link /\ BuffersInv(m) /\ m.config = l.config
<1> DEFINE m == [l EXCEPT !.held = @ \ {b}, !.wire = Append(@, Release(b))]
           n == Len(l.wire)
           wire == Append(l.wire, Release(b))
<1>1. l.wire \in Seq(Event) /\ b \in Nat /\ l.held \subseteq Nat
    BY DEF Link
<1>2. Release(b) \in Event /\ Release(b).event = "release" /\ Release(b).id = b
    BY <1>1, EventTypes
<1>3. /\ wire \in Seq(Event) /\ n \in Nat /\ DOMAIN wire = 1..(n + 1) /\ DOMAIN l.wire = 1..n
      /\ wire[n + 1] = Release(b) /\ \A k \in 1..n : wire[k] = l.wire[k]
    BY <1>1, <1>2, AppendOf
<1> HIDE DEF wire, n
<1>4. m = [l EXCEPT !.held = l.held \ {b}, !.wire = wire]
    BY DEF wire, Link
<1> HIDE DEF m
<1>5. m \in Link /\ m.held = l.held \ {b} /\ m.wire = wire /\ m.attached = l.attached /\ m.buffers = l.buffers
      /\ m.config = l.config
    BY <1>1, <1>3, <1>4 DEF Link
<1>6. \A x : Busy(m, x) <=> Busy(l, x)
    BY <1>5 DEF Busy
<1>7. \A k \in Releases(m) : (k = n + 1 /\ m.wire[k].id = b) \/ (k \in Releases(l) /\ m.wire[k] = l.wire[k])
  <2>1. \A k \in 1..(n + 1) : k = n + 1 \/ k \in 1..n
      BY <1>3
  <2> QED BY <1>2, <1>3, <1>5, <2>1 DEF Releases
<1>8. \A k \in Releases(l) : l.wire[k].id \notin l.held /\ l.wire[k].id # b
    BY DEF BuffersInv
<1>9. \A k \in Releases(m) : m.wire[k].id \notin m.held /\ Busy(m, m.wire[k].id)
    BY <1>5, <1>6, <1>7, <1>8 DEF BuffersInv
<1>10. \A j, k \in Releases(m) : m.wire[j].id = m.wire[k].id => j = k
  <2> SUFFICES ASSUME NEW j \in Releases(m), NEW k \in Releases(m), m.wire[j].id = m.wire[k].id PROVE j = k
      OBVIOUS
  <2>1. CASE j \in Releases(l) /\ k \in Releases(l) /\ m.wire[j] = l.wire[j] /\ m.wire[k] = l.wire[k]
      BY <2>1 DEF BuffersInv
  <2> QED BY <1>7, <1>8, <2>1
<1>11. BuffersInv(m)
    BY <1>5, <1>6, <1>9, <1>10 DEF BuffersInv
<1> QED BY <1>5, <1>11 DEF m

\* A configure, or that the surface is closed, is sent.
LEMMA SentBuffers ==
    ASSUME NEW l \in Link, BuffersInv(l), NEW e \in Event, e.event # "release", NEW m,
           \/ m = [l EXCEPT !.wire = Append(@, e)]
           \/ m = [l EXCEPT !.phase = "closed", !.wire = Append(@, e)]
    PROVE  m \in Link /\ BuffersInv(m) /\ m.config = l.config
<1> DEFINE wire == Append(l.wire, e)
<1>1. wire \in Seq(Event)
  <2>1. l.wire \in Seq(Event)
      BY DEF Link
  <2> QED BY <2>1, AppendOf
<1>2. m = [l EXCEPT !.wire = wire] \/ m = [l EXCEPT !.phase = "closed", !.wire = wire]
    BY DEF Link
<1> HIDE DEF wire
<1>3. m \in Link /\ m.wire = wire /\ m.held = l.held /\ m.attached = l.attached /\ m.buffers = l.buffers /\ m.config = l.config
    BY <1>1, <1>2 DEF Link
<1>4. WireLess(m, l)
    BY <1>3, SentOther DEF wire
<1> QED BY <1>3, <1>4, BuffersKept

LEMMA TypedStep == Typed /\ [Next]_vars => Typed'
<1> SUFFICES ASSUME Typed, [Next]_vars PROVE Typed'
    OBVIOUS
<1>0. /\ focus \in Outputs /\ size \in Size \cup {None} /\ term \in Terminals /\ placed \in Places
      /\ State \in Sound /\ State \in States /\ link \in Link /\ strip \in Strip /\ BuffersInv(link) /\ ~strip.torn
      /\ strip.rect # None => strip.ready /\ link.config.out \in Outputs
    BY StateIs DEF Typed, Sound, Safe, States
<1>r. ASSUME UNCHANGED <<focus, size, term, placed>>, State' \in Sound PROVE Typed'
    BY <1>0, <1>r DEF Typed
<1>s. UNCHANGED <<link, strip>> => State' \in Sound
    BY <1>0 DEF State
<1>1. CASE UNCHANGED vars
    BY <1>1, <1>r, <1>s DEF vars
<1>2. CASE Shed
  <2>1. strip' \in Strip /\ strip'.torn = strip.torn /\ strip'.rect = None
      BY <1>0, <1>2 DEF Shed, Strip
  <2>2. State' \in Sound
      BY <1>0, <1>2, <2>1, StripChanged DEF Shed
  <2> QED BY <1>2, <1>r, <2>2 DEF Shed
<1>3. CASE Read
  <2>1. CASE strip.ready /\ link.wire # <<>>
    <3>1. PICK n \in DOMAIN link.wire : Becomes(Dispatched(State, n))
        BY <1>3, <2>1 DEF Read
    <3>2. n \in 0..Len(State.link.wire)
      <4>1. link.wire \in Seq(Event)
          BY <1>0 DEF Link
      <4> QED BY <4>1, StateIs
    <3>3. Dispatched(State, n) \in Sound
        BY <1>0, <3>2, DispatchedSound
    <3>4. State' = Dispatched(State, n)
        BY <3>1, <3>3, BecomesIs DEF Sound, Safe
    <3> QED BY <1>3, <1>r, <3>3, <3>4 DEF Read
  <2>2. CASE ~(strip.ready /\ link.wire # <<>>)
      BY <1>3, <1>r, <1>s, <2>2 DEF Read
  <2> QED BY <2>1, <2>2
<1>4. CASE Show \/ Reload
    BY <1>0, <1>4, PlacedSound DEF Show, Reload, Typed
<1>5. CASE Hide
  <2> DEFINE learned == LearnResize(placed.size, term.geom, placed.band)
  <2>1. learned \in Size \cup {None}
    <3>1. term.geom.w \in Nat \ {0} /\ term.geom.h \in Nat \ {0} /\ placed.band \in Nat
        BY <1>0, TermType DEF Places
    <3>2. term.geom.h + placed.band \in Nat \ {0}
        BY <3>1
    <3>3. learned = None \/ learned = [w |-> term.geom.w, h |-> term.geom.h + placed.band]
        BY DEF LearnResize
    <3> HIDE DEF learned
    <3> QED BY <3>1, <3>2, <3>3 DEF Size
  <2>2. size' \in Size \cup {None} /\ placed' \in Places
    <3>1. IF learned = None THEN UNCHANGED <<size, placed>>
          ELSE size' = learned /\ placed' = [placed EXCEPT !.size = [w |-> term.geom.w, h |-> term.geom.h]]
        BY <1>5 DEF Hide
    <3> HIDE DEF learned
    <3>2. [w |-> term.geom.w, h |-> term.geom.h] \in Size
        BY <1>0, TermType DEF Size
    <3> QED BY <1>0, <2>1, <3>1, <3>2 DEF Places
  <2>3. term' \in Terminals
      BY <1>0, <1>5 DEF Hide, Terminals
  <2>4. State' \in Sound
    <3>1. Becomes(Hidden(State)) /\ Hidden(State) \in Sound
        BY <1>0, <1>5, HiddenSound DEF Hide
    <3>2. State' = Hidden(State)
        BY <3>1, BecomesIs DEF Sound, Safe
    <3> QED BY <3>1, <3>2
  <2> QED BY <1>0, <1>5, <2>2, <2>3, <2>4 DEF Hide, Typed
<1>6. CASE Titled
  <2>1. strip' \in Strip /\ strip'.torn = strip.torn /\ strip'.rect = strip.rect /\ strip'.ready = strip.ready
      BY <1>0, <1>6 DEF Titled, Strip
  <2>2. State' \in Sound
      BY <1>0, <1>6, <2>1, StripChanged DEF Titled
  <2> QED BY <1>6, <1>r, <2>2 DEF Titled
<1>7. CASE NothingToDo
    BY <1>7, <1>r, <1>s DEF NothingToDo
<1>8. CASE Sample
  <2>1. CASE ~term.shown
      BY <1>8, <1>r, <1>s, <2>1 DEF Sample
  <2>2. CASE term.shown /\ (term.tabs >= 2) # (placed.tabs >= 2)
      BY <1>8, <2>2, PlacedSound DEF Sample
  <2>3. CASE term.shown /\ ~((term.tabs >= 2) # (placed.tabs >= 2))
    <3>1. term' \in Terminals /\ UNCHANGED <<focus, size, placed>>
        BY <1>0, <1>8, <2>3 DEF Sample, Terminals
    <3>2. CASE ~strip.ready \/ strip.rect = None \/ strip.rect = Wanted
        BY <1>0, <1>8, <1>s, <2>3, <3>1, <3>2 DEF Sample, Typed
    <3>3. CASE ~(~strip.ready \/ strip.rect = None \/ strip.rect = Wanted)
      <4>1. PICK pick \in Outputs : \E s \in ShownStrip(State, Wanted, pick) : Becomes(s)
          BY <1>8, <2>3, <3>3 DEF Sample
      <4>2. PICK s \in ShownStrip(State, Wanted, pick) : Becomes(s)
          BY <4>1
      <4>3. Wanted \in Rect
          BY <1>0, <3>3, WantedType
      <4>4. s \in Sound
          BY <1>0, <3>3, <4>2, <4>3, StateIs, ShownSound
      <4>5. State' = s
          BY <4>2, <4>4, BecomesIs DEF Sound, Safe
      <4> QED BY <1>0, <3>1, <4>4, <4>5 DEF Typed
    <3> QED BY <3>2, <3>3
  <2> QED BY <2>1, <2>2, <2>3
<1>9. CASE Paint
  <2>1. CASE strip.ready /\ strip.dirty
    <3> DEFINE p == [strip EXCEPT !.dirty = FALSE]
               s == [link |-> link, strip |-> p]
    <3>1. [State EXCEPT !.strip.dirty = FALSE] = s
      <4> DEFINE t == [State EXCEPT !.strip.dirty = FALSE]
      <4>1. t.link = link /\ t.strip = p
          BY DEF State
      <4>2. t = [x \in {"link", "strip"} |-> t[x]]
          BY DEF State
      <4> HIDE DEF t, p
      <4>3. t = [link |-> link, strip |-> p]
          BY <4>1, <4>2
      <4> QED BY <4>3 DEF t
    <3>2. p \in Strip /\ p.rect = strip.rect /\ p.ready = strip.ready /\ p.torn = strip.torn
        BY <1>0 DEF Strip
    <3> HIDE DEF p
    <3>3. s \in Sound
        BY <1>0, <3>2 DEF Sound, Safe, States
    <3>4. Becomes(Rendered(s, term.shown))
        BY <1>9, <2>1, <3>1 DEF Paint
    <3> HIDE DEF s
    <3>5. Rendered(s, term.shown) \in Sound
        BY <3>3, RenderedSound
    <3>6. State' = Rendered(s, term.shown)
        BY <3>4, <3>5, BecomesIs DEF Sound, Safe
    <3> QED BY <1>9, <1>r, <3>5, <3>6 DEF Paint
  <2>2. CASE ~(strip.ready /\ strip.dirty)
      BY <1>9, <1>r, <1>s, <2>2 DEF Paint
  <2> QED BY <2>1, <2>2
<1>10. CASE FocusMonitor
    BY <1>0, <1>s, <1>10 DEF FocusMonitor, Typed
<1>11. CASE Resize
    BY <1>0, <1>s, <1>11 DEF Resize, Typed, Terminals
<1>12. CASE OpenOrCloseTab
  <2>1. PICK n \in 1..2 : term' = [term EXCEPT !.tabs = n, !.moved = TRUE]
      BY <1>12 DEF OpenOrCloseTab
  <2>2. n \in Nat
      OBVIOUS
  <2>3. term' \in Terminals
      BY <1>0, <2>1, <2>2 DEF Terminals
  <2> QED BY <1>0, <1>s, <1>12, <2>3 DEF OpenOrCloseTab, Typed
<1>13. CASE Cooled
  <2>1. strip' \in Strip /\ strip'.torn = strip.torn /\ strip'.rect = strip.rect /\ strip'.ready = strip.ready
      BY <1>0, <1>13 DEF Cooled, Strip
  <2>2. State' \in Sound
      BY <1>0, <1>13, <2>1, StripChanged DEF Cooled
  <2> QED BY <1>13, <1>r, <2>2 DEF Cooled
<1>14. CASE ReleaseBuffer
  <2>1. PICK b \in link.held \ {link.attached} :
            link' = [link EXCEPT !.held = @ \ {b}, !.wire = Append(@, Release(b))]
      BY <1>14 DEF ReleaseBuffer
  <2>2. link' \in Link /\ BuffersInv(link') /\ link'.config = link.config
      BY <1>0, <2>1, ReleasedBuffers
  <2>3. State' \in Sound
      BY <1>0, <1>14, <2>2, LinkChanged DEF ReleaseBuffer, Compositor
  <2> QED BY <1>14, <1>r, <2>3 DEF ReleaseBuffer, Compositor
<1>15. CASE Reconfigure
  <2>1. link' = [link EXCEPT !.wire = Append(@, Configure(link.asked))] /\ link.asked \in Nat
      BY <1>0, <1>15 DEF Reconfigure, Link
  <2>2. link' \in Link /\ BuffersInv(link') /\ link'.config = link.config
    <3>1. Configure(link.asked) \in Event /\ Configure(link.asked).event # "release"
        BY <2>1, EventTypes
    <3> QED BY <1>0, <2>1, <3>1, SentBuffers
  <2>3. State' \in Sound
      BY <1>0, <1>15, <2>2, LinkChanged DEF Reconfigure, Compositor
  <2> QED BY <1>15, <1>r, <2>3 DEF Reconfigure, Compositor
<1>16. CASE CloseSurface
  <2>1. link' = [link EXCEPT !.phase = "closed", !.wire = Append(@, Closed)]
      BY <1>16 DEF CloseSurface
  <2>2. link' \in Link /\ BuffersInv(link') /\ link'.config = link.config
    <3>1. Closed \in Event /\ Closed.event # "release"
        BY EventTypes
    <3> QED BY <1>0, <2>1, <3>1, SentBuffers
  <2>3. State' \in Sound
      BY <1>0, <1>16, <2>2, LinkChanged DEF CloseSurface, Compositor
  <2> QED BY <1>16, <1>r, <2>3 DEF CloseSurface, Compositor
<1> QED BY <1>1, <1>2, <1>3, <1>4, <1>5, <1>6, <1>7, <1>8, <1>9, <1>10, <1>11, <1>12, <1>13, <1>14, <1>15, <1>16
        DEF Next, Loop

LEMMA TypedAlways == Spec => []Typed
<1>1. Init => Typed
    BY TypedInit
<1>2. Typed /\ [Next]_vars => Typed'
    BY TypedStep
<1> QED BY <1>1, <1>2, PTL DEF Spec

-----------------------------------------------------------------------------
(* No buffer is attached before its configure *)

LEMMA WireOf == ASSUME NEW l \in Link PROVE l.wire \in Seq(Event) /\ DOMAIN l.wire = 1..Len(l.wire) /\ Len(l.wire) \in Nat
BY DEF Link

\* The configures under way once the first event has been read.
LEMMA ShiftedConfigures ==
    ASSUME NEW l \in Link, NEW m, l.wire # <<>>, m.wire = Tail(l.wire)
    PROVE  /\ \A k \in Nat \ {0} : k \in Configures(m) <=> k + 1 \in Configures(l)
           /\ Configures(m) \subseteq Nat \ {0} /\ Configures(l) \subseteq Nat \ {0}
           /\ \A k \in Configures(m) : m.wire[k] = l.wire[k + 1]
           /\ 1 \in Configures(l) <=> Head(l.wire).event = "configure"
           /\ l.wire[1] = Head(l.wire)
<1> DEFINE n == Len(l.wire)
<1>1. /\ Head(l.wire) = l.wire[1] /\ 1 \in DOMAIN l.wire /\ n \in Nat \ {0} /\ DOMAIN l.wire = 1..n
      /\ DOMAIN m.wire = 1..(n - 1) /\ \A i \in 1..(n - 1) : m.wire[i] = l.wire[i + 1]
    BY WireOf, TailOf
<1> HIDE DEF n
<1>2. \A k \in Nat \ {0} : k \in DOMAIN m.wire <=> k + 1 \in DOMAIN l.wire
    BY <1>1
<1>3. \A k \in Nat \ {0} : k \in Configures(m) <=> k + 1 \in Configures(l)
    BY <1>1, <1>2 DEF Configures
<1>4. Configures(m) \subseteq Nat \ {0} /\ Configures(l) \subseteq Nat \ {0}
    BY <1>1 DEF Configures
<1>5. \A k \in Configures(m) : m.wire[k] = l.wire[k + 1]
    BY <1>1 DEF Configures
<1> QED BY <1>1, <1>3, <1>4, <1>5 DEF Configures

\* And once another has been sent.
LEMMA AddedConfigures ==
    ASSUME NEW l \in Link, NEW m, NEW e \in Event, m.wire = Append(l.wire, e)
    PROVE  LET n == Len(l.wire)
           IN  /\ n \in Nat /\ Configures(l) \subseteq 1..n /\ m.wire[n + 1] = e
               /\ Configures(m) = IF e.event = "configure" THEN Configures(l) \cup {n + 1} ELSE Configures(l)
               /\ \A k \in Configures(l) : m.wire[k] = l.wire[k]
<1> DEFINE n == Len(l.wire)
<1>1. /\ n \in Nat /\ DOMAIN m.wire = 1..(n + 1) /\ DOMAIN l.wire = 1..n /\ m.wire[n + 1] = e
      /\ \A k \in 1..n : m.wire[k] = l.wire[k]
    BY WireOf, AppendOf
<1> HIDE DEF n
<1>2. Configures(l) \subseteq 1..n
    BY <1>1 DEF Configures
<1>3. \A k \in Configures(l) : m.wire[k] = l.wire[k]
    BY <1>1, <1>2
<1>4. \A k \in 1..(n + 1) : k = n + 1 \/ k \in 1..n
    BY <1>1
<1>5. n + 1 \notin 1..n /\ n + 1 \in 1..(n + 1) /\ 1..n \subseteq 1..(n + 1)
    BY <1>1
<1>6. Configures(m) = IF e.event = "configure" THEN Configures(l) \cup {n + 1} ELSE Configures(l)
    BY <1>1, <1>4, <1>5 DEF Configures
<1> QED BY <1>1, <1>2, <1>3, <1>6 DEF n

LEMMA NoConfigures == ASSUME NEW l, l.wire = <<>> PROVE Configures(l) = {}
<1>1. DOMAIN l.wire = {}
    OBVIOUS
<1> QED BY <1>1 DEF Configures

LEMMA DeliveredPrompt ==
    ASSUME NEW s \in States, s.link.wire # <<>>, Prompt(s)
    PROVE  LET t == Delivered(s)
           IN  /\ Prompt(t) /\ (Alive(t) => Alive(s))
               /\ Configures(s.link) = {} => Configures(t.link) = {}
<1> DEFINE t == Delivered(s)
           l == s.link
           m == t.link
           e == Head(l.wire)
<1>0. l \in Link
    BY DEF States
<1>1. t \in States /\ m.wire = Tail(l.wire) /\ e \in Event /\ Heard(s, t, e)
    BY DeliveredHeard
<1>2. e.event \in {"configure", "names", "release", "closed"}
    BY <1>1 DEF Event
<1> HIDE DEF t
<1>3. /\ \A k \in Nat \ {0} : k \in Configures(m) <=> k + 1 \in Configures(l)
      /\ Configures(m) \subseteq Nat \ {0} /\ Configures(l) \subseteq Nat \ {0}
      /\ \A k \in Configures(m) : m.wire[k] = l.wire[k + 1]
      /\ 1 \in Configures(l) <=> e.event = "configure"
      /\ l.wire[1] = e
    BY <1>0, <1>1, ShiftedConfigures
<1> HIDE DEF e
<1>4. m.error = l.error
    BY <1>1 DEF Heard, SameLink
<1>5. Alive(t) => Alive(s)
    BY <1>1, <1>2, <1>4 DEF Alive, Heard
<1>6. Configures(l) = {} => Configures(m) = {}
    BY <1>3
<1>7. ASSUME Alive(t) PROVE /\ \A k \in Configures(m) : ~m.wire[k].late
                            /\ m.phase = "created" => Configures(m) = {}
                            /\ m.phase = "initial" => Configures(m) # {}
                            /\ m.configured => m.phase \in {"ready", "mapped", "closed"}
  <2>1. /\ \A k \in Configures(l) : ~l.wire[k].late
        /\ l.phase = "created" => Configures(l) = {}
        /\ l.phase = "initial" => Configures(l) # {}
        /\ l.configured => l.phase \in {"ready", "mapped", "closed"}
      BY <1>5, <1>7 DEF Prompt
  <2>2. \A k \in Configures(m) : ~m.wire[k].late
    <3>1. \A k \in Configures(m) : k \in Nat \ {0} /\ k + 1 \in Configures(l) /\ m.wire[k] = l.wire[k + 1]
        BY <1>3
    <3> QED BY <2>1, <3>1
  <2>3. CASE e.event = "configure"
    <3>1. ~e.late /\ l.phase # "created"
        BY <1>3, <2>1, <2>3
    <3>2. m.phase = (IF l.phase = "initial" THEN "ready" ELSE l.phase)
        BY <1>1, <2>3, <3>1 DEF Heard
    <3>3. l.phase \in {"initial", "created", "ready", "mapped", "closed"}
        BY <1>0 DEF Link
    <3> QED BY <2>2, <3>1, <3>2, <3>3
  <2>4. CASE e.event # "configure"
    <3>1. m.phase = l.phase /\ m.configured = l.configured
        BY <1>1, <2>4 DEF Heard
    <3>2. Configures(l) # {} => Configures(m) # {}
      <4> SUFFICES ASSUME NEW k \in Configures(l) PROVE Configures(m) # {}
          OBVIOUS
      <4>1. k \in Nat \ {0} /\ k # 1
          BY <1>3, <2>4
      <4>2. k - 1 \in Nat \ {0} /\ (k - 1) + 1 = k
          BY <4>1
      <4> QED BY <1>3, <4>2
    <3> QED BY <1>6, <2>1, <2>2, <3>1, <3>2
  <2> QED BY <2>3, <2>4
<1>8. m.error # "unready"
    BY <1>4 DEF Prompt
<1>9. Prompt(t)
    BY <1>7, <1>8 DEF Prompt
<1> QED BY <1>5, <1>6, <1>9 DEF t

LEMMA RenderedPrompt ==
    ASSUME NEW s \in States, NEW visible, Prompt(s)
    PROVE  LET t == Rendered(s, visible)
           IN  /\ Prompt(t) /\ (Alive(t) => Alive(s))
               /\ Configures(s.link) = {} => Configures(t.link) = {}
<1> DEFINE t == Rendered(s, visible)
           l == s.link
           m == t.link
<1>0. l \in Link
    BY DEF States
<1>1. CASE ~(s.strip.ready /\ s.link.configured /\ visible)
  <2>1. t = s
      BY <1>1, RenderedPaints
  <2> HIDE DEF t
  <2> QED BY <2>1 DEF t
<1>2. CASE s.strip.ready /\ s.link.configured /\ visible
  <2>1. PICK as, b : Painted(s, t, as, b)
      BY <1>2, RenderedPaints
  <2> HIDE DEF t
  <2>2. t.strip.ready = s.strip.ready /\ m.configured = l.configured
      BY <2>1 DEF Painted
  <2>3. CASE l.error # "none" \/ l.phase = "closed"
    <3>1. m.error = l.error /\ m.phase = l.phase /\ m.wire = l.wire
        BY <2>1, <2>3 DEF Painted
    <3>2. Configures(m) = Configures(l)
        BY <3>1 DEF Configures
    <3> QED BY <2>2, <3>1, <3>2 DEF Prompt, Alive, t
  <2>4. CASE l.error = "none" /\ l.phase # "closed"
    <3>0. Alive(s)
        BY <1>2, <2>4 DEF Alive
    <3>1. l.phase \in {"ready", "mapped"}
        BY <1>2, <2>4, <3>0 DEF Prompt
    <3>2. Mapped(l, m, b.id)
        BY <2>1, <2>4, <3>1 DEF Painted
    <3>3. Configures(m) = Configures(l) /\ \A k \in Configures(l) : m.wire[k] = l.wire[k]
      <4>1. CASE m.wire = l.wire
          BY <4>1 DEF Configures
      <4>2. ASSUME NEW o \in l.held \ {l.attached, b.id}, m.wire = Append(l.wire, Release(o))
            PROVE  Configures(m) = Configures(l) /\ \A k \in Configures(l) : m.wire[k] = l.wire[k]
        <5>1. Release(o) \in Event /\ Release(o).event = "release"
          <6>1. o \in Nat
              BY <1>0 DEF Link
          <6> QED BY <6>1, EventTypes
        <5> DEFINE e == Release(o)
        <5>2. e \in Event /\ e.event = "release" /\ m.wire = Append(l.wire, e)
            BY <4>2, <5>1
        <5> HIDE DEF e, m, l
        <5>3. /\ Configures(m) = IF e.event = "configure" THEN Configures(l) \cup {Len(l.wire) + 1} ELSE Configures(l)
              /\ \A k \in Configures(l) : m.wire[k] = l.wire[k]
            BY <1>0, <5>2, AddedConfigures
        <5> QED BY <5>2, <5>3
      <4> QED BY <3>2, <4>1, <4>2 DEF Mapped
    <3>4. m.error = "none" /\ m.phase = "mapped"
        BY <3>2 DEF Mapped
    <3>5. \A k \in Configures(m) : ~m.wire[k].late
        BY <3>0, <3>3 DEF Prompt
    <3>6. Prompt(t)
        BY <3>4, <3>5 DEF Prompt
    <3> QED BY <2>2, <3>0, <3>3, <3>6 DEF t
  <2> QED BY <2>3, <2>4
<1> QED BY <1>1, <1>2

LEMMA RemappedPrompt ==
    ASSUME NEW s \in States, NEW rect, NEW pick \in Outputs, NEW l \in Link, NEW a \in States, focus \in Outputs,
           Layered(s.link, l, Margins(rect)), a.link = Remapped(l, pick), a.strip.ready = s.strip.ready, Prompt(s)
    PROVE  Prompt(a)
<1> DEFINE m == Remapped(l, pick)
<1>0. /\ l.error = s.link.error /\ l.phase = s.link.phase /\ l.wire = s.link.wire /\ l.configured = s.link.configured
      /\ l.config = Margins(rect) /\ l.config.out \in Outputs /\ l.config.w \in Nat
    BY DEF Layered, Margins, Link, Layer
<1>1. /\ l.error # "none" => m.error = l.error
      /\ l.error = "none" /\ l.made_on = l.config.out => Recommits(l, m)
      /\ l.error = "none" /\ l.made_on # l.config.out /\ l.attached # None => m.error = "constructed"
      /\ l.error = "none" /\ l.made_on # l.config.out /\ l.attached = None => Renews(l, m)
      /\ m \in Link
    BY <1>0, RemappedAsks
<1>2. Configure(l.config.w) \in Event /\ Configure(l.config.w).event = "configure" /\ ~Configure(l.config.w).late
    BY <1>0, EventTypes
<1>c. Configures(l) = Configures(s.link)
    BY <1>0 DEF Configures
<1> HIDE DEF m
<1>3. CASE l.error # "none"
    BY <1>0, <1>1, <1>3 DEF Prompt, Alive, m
<1>4. CASE l.error = "none" /\ ~s.strip.ready
  <2>1. m.error # "unready"
      BY <1>1, <1>4 DEF Recommits, Renews
  <2> QED BY <1>4, <2>1 DEF Prompt, Alive, m
<1>5. CASE l.error = "none" /\ s.strip.ready
  <2>1. /\ \A k \in Configures(l) : ~l.wire[k].late
        /\ l.phase = "created" => Configures(l) = {}
        /\ l.phase = "initial" => Configures(l) # {}
        /\ l.configured => l.phase \in {"ready", "mapped", "closed"}
      BY <1>0, <1>5, <1>c DEF Prompt, Alive
  <2>2. ASSUME m.error = "none",
               /\ \A k \in Configures(m) : ~m.wire[k].late
               /\ m.phase = "created" => Configures(m) = {}
               /\ m.phase = "initial" => Configures(m) # {}
               /\ m.configured => m.phase \in {"ready", "mapped", "closed"}
        PROVE  Prompt(a)
      BY <2>2 DEF Prompt, m
  <2>3. CASE l.made_on = l.config.out
    <3>1. Recommits(l, m)
        BY <1>1, <1>5, <2>3
    <3>2. CASE l.phase = "closed" \/ (l.phase # "created" /\ l.asked = l.config.w)
      <4>1. m.wire = l.wire /\ m.phase = l.phase /\ m.configured = l.configured /\ m.error = "none"
          BY <3>1, <3>2 DEF Recommits
      <4>2. Configures(m) = Configures(l)
          BY <4>1 DEF Configures
      <4> QED BY <2>1, <2>2, <4>1, <4>2
    <3>3. CASE ~(l.phase = "closed" \/ (l.phase # "created" /\ l.asked = l.config.w))
      <4>1. Asks(l, m) /\ m.configured = l.configured /\ m.error = "none"
          BY <3>1, <3>3 DEF Recommits
      <4>2. m.wire = Append(l.wire, Configure(l.config.w))
            /\ m.phase = (IF l.phase = "created" THEN "initial" ELSE l.phase)
          BY <4>1 DEF Asks
      <4> DEFINE n == Len(l.wire)
      <4>3. /\ Configures(m) = Configures(l) \cup {n + 1} /\ m.wire[n + 1] = Configure(l.config.w)
            /\ \A k \in Configures(l) : m.wire[k] = l.wire[k]
          BY <1>2, <4>2, AddedConfigures
      <4> HIDE DEF n
      <4> QED BY <1>2, <2>1, <2>2, <4>1, <4>2, <4>3
    <3> QED BY <3>2, <3>3
  <2>4. CASE l.made_on # l.config.out /\ l.attached # None
      BY <1>1, <1>5, <2>4 DEF Prompt, Alive, m
  <2>5. CASE l.made_on # l.config.out /\ l.attached = None
    <3>1. Renews(l, m)
        BY <1>1, <1>5, <2>5
    <3>2. PICK q \in Seq(Event) : /\ m.wire = Append(q, Configure(l.config.w))
                                  /\ \A k \in DOMAIN q : q[k].event \notin {"configure", "closed"}
        BY <3>1 DEF Renews
    <3> DEFINE n == Len(q)
    <3>3. /\ n \in Nat /\ DOMAIN m.wire = 1..(n + 1) /\ DOMAIN q = 1..n /\ m.wire[n + 1] = Configure(l.config.w)
          /\ \A k \in 1..n : m.wire[k] = q[k]
        BY <1>2, <3>2, AppendOf
    <3> HIDE DEF n
    <3>4. \A k \in 1..(n + 1) : k = n + 1 \/ k \in 1..n
        BY <3>3
    <3>5. Configures(m) = {n + 1}
        BY <1>2, <3>2, <3>3, <3>4 DEF Configures
    <3>6. m.error = "none" /\ m.configured = FALSE /\ m.phase = "initial"
        BY <3>1 DEF Renews
    <3> QED BY <1>2, <2>2, <3>3, <3>5, <3>6
  <2> QED BY <2>3, <2>4, <2>5
<1> QED BY <1>3, <1>4, <1>5

\* Between two steps of the loop no configure is under way either.
Calm(s) == Prompt(s) /\ (Alive(s) => Configures(s.link) = {})

CalmStates == {s \in States : Calm(s)}
PromptStates == {s \in States : Prompt(s)}

LEMMA DispatchedCalm ==
    ASSUME NEW s \in States, NEW n \in 0..Len(s.link.wire)
    PROVE  /\ Prompt(s) => Prompt(Dispatched(s, n))
           /\ Calm(s) => Calm(Dispatched(s, n))
<1>1. \A t \in PromptStates : t.link.wire # <<>> => Delivered(t) \in PromptStates
    BY DeliveredHeard, DeliveredPrompt DEF PromptStates
<1>2. \A t \in CalmStates : t.link.wire # <<>> => Delivered(t) \in CalmStates
    BY DeliveredHeard, DeliveredPrompt DEF CalmStates, Calm
<1>3. PromptStates \subseteq States /\ CalmStates \subseteq States
    BY DEF PromptStates, CalmStates
<1>4. Prompt(s) => Prompt(Dispatched(s, n))
  <2> SUFFICES ASSUME Prompt(s) PROVE Prompt(Dispatched(s, n))
      OBVIOUS
  <2>1. s \in PromptStates
      BY DEF PromptStates
  <2> HIDE DEF PromptStates
  <2>2. Dispatched(s, n) \in PromptStates
      BY <1>1, <1>3, <2>1, DispatchedKeeps
  <2> QED BY <2>2 DEF PromptStates
<1>5. Calm(s) => Calm(Dispatched(s, n))
  <2> SUFFICES ASSUME Calm(s) PROVE Calm(Dispatched(s, n))
      OBVIOUS
  <2>1. s \in CalmStates
      BY DEF CalmStates
  <2> HIDE DEF CalmStates
  <2>2. Dispatched(s, n) \in CalmStates
      BY <1>2, <1>3, <2>1, DispatchedKeeps
  <2> QED BY <2>2 DEF CalmStates
<1> QED BY <1>4, <1>5

LEMMA RenderedCalm ==
    ASSUME NEW s \in States, NEW visible, Calm(s) PROVE Calm(Rendered(s, visible))
BY RenderedPrompt DEF Calm

LEMMA ShownCalm ==
    ASSUME focus \in Outputs, NEW s \in States, Prompt(s), "stall" \notin env, NEW rect \in Rect, NEW pick \in Outputs,
           NEW t \in ShownStrip(s, rect, pick)
    PROVE  Calm(t)
<1>1. PICK l \in Link, a \in States, d \in States : \E k : Shows(s, rect, pick, t, l, a, k, d)
    BY ShownAs
<1>2. PICK k : Shows(s, rect, pick, t, l, a, k, d)
    BY <1>1
<1>3. Prompt(a)
    BY <1>2, RemappedPrompt DEF Shows
<1>4. k \in 0..Len(a.link.wire) /\ k = Len(a.link.wire)
    BY <1>2 DEF Shows
<1>5. Prompt(Dispatched(a, k)) /\ Dispatched(a, k) \in States /\ Len(Dispatched(a, k).link.wire) = Len(a.link.wire) - k
    BY <1>3, <1>4, DispatchedCalm, DispatchedStates
<1>6. Dispatched(a, k).link.wire = <<>>
  <2> DEFINE b == Dispatched(a, k)
  <2>1. b.link.wire \in Seq(Event) /\ Len(a.link.wire) \in Nat
    <3> HIDE DEF b
    <3>1. b \in States
        BY <1>5 DEF b
    <3>2. b.link \in Link /\ a.link \in Link
        BY <3>1 DEF States
    <3> QED BY <3>2, WireOf
  <2>2. Len(b.link.wire) = 0
      BY <1>4, <1>5, <2>1
  <2> HIDE DEF b
  <2> QED BY <2>1, <2>2 DEF b
<1>7. Configures(Dispatched(a, k).link) = {}
    BY <1>6, NoConfigures
<1>8. d.link = Dispatched(a, k).link /\ d.strip.ready = Dispatched(a, k).strip.ready
    BY <1>2 DEF Shows, Dirtied
<1>9. Calm(d)
    BY <1>5, <1>7, <1>8 DEF Calm, Prompt, Alive
<1>10. t = Rendered(d, TRUE)
    BY <1>2 DEF Shows
<1> QED BY <1>9, <1>10, RenderedCalm

LEMMA HiddenCalm == ASSUME NEW s \in States, Calm(s) PROVE Calm(Hidden(s))
<1> DEFINE t == Hidden(s)
           l == s.link
           m == t.link
<1>0. l \in Link
    BY DEF States
<1>1. /\ t \in States /\ t.strip.ready = s.strip.ready
      /\ m = IF s.strip.ready THEN Unmapped(l) ELSE l
    BY HiddenIs
<1> HIDE DEF t
<1>2. CASE ~s.strip.ready
    BY <1>1, <1>2 DEF Calm, Prompt, Alive, t
<1>3. CASE s.strip.ready
  <2>1. m.configured = FALSE /\ m.error = l.error /\ (l.error = "none" => Reset(l, m))
      BY <1>0, <1>1, <1>3, UnmappedResets
  <2>2. CASE l.error # "none"
      BY <2>1, <2>2 DEF Calm, Prompt, Alive, t
  <2>3. CASE l.error = "none"
    <3>1. Configures(l) = {}
        BY <1>3, <2>3 DEF Calm, Alive
    <3>2. m.phase = "created" /\ DOMAIN m.wire = DOMAIN l.wire
          /\ \A k \in DOMAIN l.wire : l.wire[k].event # "configure" => m.wire[k] = l.wire[k]
        BY <2>1, <2>3 DEF Reset
    <3>3. Configures(m) = {}
        BY <3>1, <3>2 DEF Configures
    <3>4. m.error # "unready"
        BY <2>1, <2>3
    <3> QED BY <2>1, <3>2, <3>3, <3>4 DEF Calm, Prompt, t
  <2> QED BY <2>2, <2>3
<1> QED BY <1>2, <1>3

LEMMA EnsuredPrompt == ASSUME NEW s \in States, NEW pick \in Outputs, Prompt(s) PROVE Prompt(Ensured(s, pick))
<1>1. CASE s.strip.ready
    BY <1>1, EnsuredIs
<1>2. CASE ~s.strip.ready
  <2> DEFINE t == Ensured(s, pick)
             m == t.link
  <2>1. /\ m.error = "none" /\ m.phase = "initial" /\ m.configured = FALSE /\ Configures(m) = {2} /\ ~m.wire[2].late
    <3>1. m = Connected(pick)
        BY <1>2, EnsuredIs
    <3> HIDE DEF t
    <3> QED BY <3>1, ConnectedIs
  <2> HIDE DEF t
  <2> QED BY <2>1 DEF Prompt, t
<1> QED BY <1>1, <1>2

LEMMA PlacedCalm ==
    ASSUME Typed, Calm(State), "stall" \notin env, Placed(State)
    PROVE  Calm(State')
<1>1. focus \in Outputs /\ size \in Size \cup {None} /\ term \in Terminals /\ State \in States
    BY DEF Typed, Sound, Safe
<1>2. PICK band \in BOOLEAN, geom \in Geom, rect \in Rect : Puts(State, band, geom, rect)
    BY <1>1, PlacedPuts
<1>3. CASE ~band
    BY <1>1, <1>2, <1>3, HiddenCalm DEF Puts
<1>4. CASE band
  <2>1. PICK pick \in Outputs : \E t \in ShownStrip(Ensured(State, pick), rect, pick) : Becomes(t)
      BY <1>2, <1>4 DEF Puts
  <2>2. PICK t \in ShownStrip(Ensured(State, pick), rect, pick) : Becomes(t)
      BY <2>1
  <2>3. Ensured(State, pick) \in States /\ Prompt(Ensured(State, pick))
      BY <1>1, EnsuredIs, EnsuredPrompt DEF Calm
  <2>4. Calm(t)
      BY <1>1, <2>3, ShownCalm
  <2>5. t \in States
    <3>1. t \in States
      <4>1. PICK l \in Link, a \in States, d \in States : \E k : Shows(Ensured(State, pick), rect, pick, t, l, a, k, d)
          BY <1>1, <2>3, ShownAs
      <4> QED BY <4>1, RenderedPaints DEF Shows
    <3> QED BY <3>1
  <2> QED BY <2>2, <2>4, <2>5, BecomesIs
<1> QED BY <1>3, <1>4

LEMMA EnvStays == [Next]_vars => env' = env
BY DEF Next, vars, Loop, Shed, Read, Show, Hide, Reload, Titled, NothingToDo, Sample, Paint, Goes, FocusMonitor, Resize,
       OpenOrCloseTab, Cooled, ReleaseBuffer, Reconfigure, CloseSurface, Compositor

LEMMA PromptStep ==
    ASSUME Typed, Typed', [Next]_vars, env \cap {"stall", "reconfigure"} = {}, Calm(State)
    PROVE  Calm(State')
<1>0. /\ focus \in Outputs /\ term \in Terminals /\ State \in States /\ link \in Link /\ strip \in Strip
      /\ strip.rect # None => strip.ready /\ link.config.out \in Outputs
      /\ "stall" \notin env /\ "reconfigure" \notin env
    BY StateIs DEF Typed, Sound, Safe, States
<1>s. State' = [link |-> link', strip |-> strip'] /\ State'.link = link' /\ State'.strip = strip'
    BY DEF State
<1>p. /\ link.error # "unready"
      /\ strip.ready /\ link.error = "none" =>
            /\ Configures(link) = {}
            /\ link.phase # "initial"
            /\ link.configured => link.phase \in {"ready", "mapped", "closed"}
    BY StateIs DEF Calm, Prompt, Alive
<1>c. ASSUME link' = link, strip'.ready => strip.ready PROVE Calm(State')
    BY <1>s, <1>p, <1>c, StateIs DEF Calm, Prompt, Alive
<1>1. CASE UNCHANGED <<link, strip>>
    BY <1>1, <1>c
<1>2. CASE Shed
  <2>1. link' = link /\ ~strip'.ready
      BY <1>0, <1>2 DEF Shed, Strip
  <2> QED BY <1>c, <2>1
<1>3. CASE Read
  <2>1. CASE strip.ready /\ link.wire # <<>>
    <3>1. PICK n \in DOMAIN link.wire : Becomes(Dispatched(State, n))
        BY <1>3, <2>1 DEF Read
    <3>2. n \in 0..Len(State.link.wire)
      <4>1. link.wire \in Seq(Event)
          BY <1>0 DEF Link
      <4> QED BY <4>1, StateIs
    <3>3. Calm(Dispatched(State, n)) /\ Dispatched(State, n) \in States
        BY <1>0, <3>2, DispatchedCalm, DispatchedStates
    <3> QED BY <3>1, <3>3, BecomesIs
  <2>2. CASE ~(strip.ready /\ link.wire # <<>>)
      BY <1>1, <1>3, <2>2 DEF Read
  <2> QED BY <2>1, <2>2
<1>4. CASE Show \/ Reload
    BY <1>0, <1>4, PlacedCalm DEF Show, Reload
<1>5. CASE Hide
    BY <1>0, <1>5, HiddenCalm, HiddenIs, BecomesIs DEF Hide
<1>6. CASE Titled
  <2>1. strip'.ready = strip.ready
      BY <1>0, <1>6 DEF Titled, Strip
  <2> QED BY <1>6, <1>c, <2>1 DEF Titled
<1>8. CASE Sample
  <2>1. CASE ~term.shown
      BY <1>1, <1>8, <2>1 DEF Sample
  <2>2. CASE term.shown /\ (term.tabs >= 2) # (placed.tabs >= 2)
      BY <1>0, <1>8, <2>2, PlacedCalm DEF Sample
  <2>3. CASE term.shown /\ ~((term.tabs >= 2) # (placed.tabs >= 2))
    <3>2. CASE ~strip.ready \/ strip.rect = None \/ strip.rect = Wanted
        BY <1>1, <1>8, <2>3, <3>2 DEF Sample
    <3>3. CASE ~(~strip.ready \/ strip.rect = None \/ strip.rect = Wanted)
      <4>1. PICK pick \in Outputs : \E s \in ShownStrip(State, Wanted, pick) : Becomes(s)
          BY <1>8, <2>3, <3>3 DEF Sample
      <4>2. PICK s \in ShownStrip(State, Wanted, pick) : Becomes(s)
          BY <4>1
      <4>3. Wanted \in Rect
          BY <1>0, <3>3, WantedType
      <4>4. Calm(s) /\ s \in Sound
          BY <1>0, <3>3, <4>2, <4>3, StateIs, ShownSound, ShownCalm DEF Typed, Calm
      <4> QED BY <4>2, <4>4, BecomesIs DEF Sound, Safe
    <3> QED BY <3>2, <3>3
  <2> QED BY <2>1, <2>2, <2>3
<1>9. CASE Paint
  <2>1. CASE strip.ready /\ strip.dirty
    <3> DEFINE s == [State EXCEPT !.strip.dirty = FALSE]
    <3>1. s \in States /\ s.link = link /\ s.strip.ready = strip.ready
      <4> DEFINE p == [strip EXCEPT !.dirty = FALSE]
      <4>1. s.link = link /\ s.strip = p
          BY DEF State
      <4>2. s = [x \in {"link", "strip"} |-> s[x]]
          BY DEF State
      <4>4. p \in Strip /\ p.ready = strip.ready
          BY <1>0 DEF Strip
      <4> HIDE DEF s, p
      <4>3. s = [link |-> link, strip |-> p]
          BY <4>1, <4>2
      <4> QED BY <1>0, <4>1, <4>3, <4>4 DEF States
    <3>2. Becomes(Rendered(s, term.shown))
        BY <1>9, <2>1 DEF Paint
    <3> HIDE DEF s
    <3>3. Calm(s)
        BY <3>1, StateIs DEF Calm, Prompt, Alive
    <3>4. Calm(Rendered(s, term.shown)) /\ Rendered(s, term.shown) \in States
        BY <3>1, <3>3, RenderedCalm, RenderedPaints
    <3> QED BY <3>2, <3>4, BecomesIs
  <2>2. CASE ~(strip.ready /\ strip.dirty)
      BY <1>1, <1>9, <2>2 DEF Paint
  <2> QED BY <2>1, <2>2
<1>13. CASE Cooled
  <2>1. strip'.ready = strip.ready
      BY <1>0, <1>13 DEF Cooled, Strip
  <2> QED BY <1>13, <1>c, <2>1 DEF Cooled
<1>14. CASE ReleaseBuffer
  <2>1. PICK b \in link.held \ {link.attached} :
            link' = [link EXCEPT !.held = @ \ {b}, !.wire = Append(@, Release(b))]
      BY <1>14 DEF ReleaseBuffer
  <2>2. b \in Nat
      BY <1>0 DEF Link
  <2>3. Release(b) \in Event /\ Release(b).event = "release"
      BY <2>2, EventTypes
  <2>4. link'.wire = Append(link.wire, Release(b)) /\ link'.phase = link.phase /\ link'.error = link.error
        /\ link'.configured = link.configured
      BY <1>0, <2>1 DEF Link
  <2>5. Configures(link') = Configures(link)
      BY <1>0, <2>3, <2>4, AddedConfigures
  <2>6. strip' = strip /\ strip.ready /\ link.error = "none"
      BY <1>14 DEF ReleaseBuffer, Compositor
  <2> QED BY <1>s, <1>p, <2>4, <2>5, <2>6 DEF Calm, Prompt, Alive
<1>15. CASE Reconfigure
    BY <1>0, <1>15 DEF Reconfigure, Unasked
<1>16. CASE CloseSurface
  <2>1. link' = [link EXCEPT !.phase = "closed", !.wire = Append(@, Closed)]
      BY <1>16 DEF CloseSurface
  <2>3. Closed \in Event /\ Closed.event = "closed"
      BY EventTypes
  <2>4. link'.wire = Append(link.wire, Closed) /\ link'.phase = "closed" /\ link'.error = link.error
        /\ link'.configured = link.configured
      BY <1>0, <2>1 DEF Link
  <2>5. Configures(link') = Configures(link)
      BY <1>0, <2>3, <2>4, AddedConfigures
  <2>6. strip' = strip /\ strip.ready /\ link.error = "none"
      BY <1>16 DEF CloseSurface, Compositor
  <2> QED BY <1>s, <1>p, <2>4, <2>5, <2>6 DEF Calm, Prompt, Alive
<1>17. CASE NothingToDo \/ FocusMonitor \/ Resize \/ OpenOrCloseTab \/ UNCHANGED vars
    BY <1>1, <1>17 DEF NothingToDo, FocusMonitor, Resize, OpenOrCloseTab, vars
<1> QED BY <1>2, <1>3, <1>4, <1>5, <1>6, <1>8, <1>9, <1>13, <1>14, <1>15, <1>16, <1>17 DEF Next, Loop

PromptnessInv == env \cap {"stall", "reconfigure"} = {} => Calm(State)

LEMMA CalmInit == Init => Calm(State)
<1> SUFFICES ASSUME Init PROVE Calm(State)
    OBVIOUS
<1>1. link = Connected(focus) /\ focus \in Outputs /\ strip.ready = FALSE
    BY DEF Init
<1>2. link.error = "none"
    BY <1>1, ConnectedIs
<1> QED BY <1>1, <1>2, StateIs DEF Calm, Prompt, Alive

\* WaylandCore: no buffer is attached before the configure that the surface was remapped for has come
\* (unmap_surface, wayland_core.cpp 469), but where one the compositor sent of its own accord, or one
\* that is late, is taken for it; and a buffer the compositor may read is never painted (acquire_buffer).
THEOREM PaintsOnlyWhatItMay == Spec => []PaintsWhatItMay
<1>1. Init => PromptnessInv
    BY CalmInit DEF PromptnessInv
<1>2. Typed /\ Typed' /\ PromptnessInv /\ [Next]_vars => PromptnessInv'
    BY PromptStep, EnvStays DEF PromptnessInv
<1>3. Typed /\ PromptnessInv => PaintsWhatItMay
    BY StateIs DEF Typed, Sound, Safe, PromptnessInv, Calm, Prompt, PaintsWhatItMay
<1> QED BY <1>1, <1>2, <1>3, TypedAlways, PTL DEF Spec

-----------------------------------------------------------------------------
(* What was asked for last is what comes *)

LEMMA UpToDateIs == ASSUME NEW s PROVE UpToDate(s) <=> (Alive(s) => Surface(s.link, s.strip.dirty))
BY DEF UpToDate

LEMMA ActivePhases == Active = {"initial", "ready", "mapped"}
BY DEF Active

LEMMA DeliveredUpToDate ==
    ASSUME NEW s \in States, s.link.wire # <<>>, UpToDate(s)
    PROVE  UpToDate(Delivered(s))
<1> DEFINE t == Delivered(s)
           l == s.link
           m == t.link
           e == Head(l.wire)
<1>0. l \in Link
    BY DEF States
<1>1. t \in States /\ m.wire = Tail(l.wire) /\ e \in Event /\ Heard(s, t, e)
    BY DeliveredHeard
<1>2. e.event \in {"configure", "names", "release", "closed"}
    BY <1>1 DEF Event
<1>t. /\ Len(l.wire) \in Nat \ {0} /\ DOMAIN l.wire = 1..Len(l.wire) /\ DOMAIN m.wire = 1..(Len(l.wire) - 1)
      /\ \A i \in 1..(Len(l.wire) - 1) : m.wire[i] = l.wire[i + 1]
  <2>1. l.wire # <<>>
      OBVIOUS
  <2> HIDE DEF t, l
  <2> QED BY <1>0, <1>1, <2>1, WireOf, TailOf
<1> HIDE DEF t
<1>3. /\ \A k \in Nat \ {0} : k \in Configures(m) <=> k + 1 \in Configures(l)
      /\ Configures(m) \subseteq Nat \ {0} /\ Configures(l) \subseteq Nat \ {0}
      /\ \A k \in Configures(m) : m.wire[k] = l.wire[k + 1]
      /\ 1 \in Configures(l) <=> e.event = "configure"
      /\ l.wire[1] = e
    BY <1>0, <1>1, ShiftedConfigures
<1> HIDE DEF e
<1> SUFFICES ASSUME Alive(t) PROVE Surface(m, t.strip.dirty)
    BY UpToDateIs DEF t
<1>4. /\ m.error = l.error /\ m.asked = l.asked /\ m.attached = l.attached /\ m.made_on = l.made_on
      /\ m.config = l.config
    BY <1>1 DEF Heard, SameLink
<1>5. Alive(s) /\ e.event # "closed"
    BY <1>1, <1>2, <1>4 DEF Alive, Heard
<1>6. Surface(l, s.strip.dirty)
    BY <1>5, UpToDateIs
<1> DEFINE dirty == s.strip.dirty
<1>7. /\ l.config.w > 0 /\ l.config.out \in Outputs /\ l.made_on = l.config.out
      /\ l.phase \in Active => l.asked = l.config.w /\ Tells(l)
      /\ l.phase = "initial" => \E k \in Configures(l) : ~l.wire[k].late
      /\ l.phase \in {"ready", "mapped"} => l.configured
      /\ l.phase = "ready" => dirty
      /\ l.phase = "mapped" =>
            \/ dirty \/ Configures(l) # {}
            \/ \E i \in DOMAIN l.buffers : l.buffers[i].id = l.attached /\ l.buffers[i].w = l.width
      /\ l.phase = "closed" => \E k \in DOMAIN l.wire : l.wire[k].event = "closed"
    BY <1>6 DEF Surface
<1>8. /\ m.width \in Nat /\ l.width \in Nat /\ l.phase \in {"initial", "created", "ready", "mapped", "closed"}
      /\ m.phase = (IF e.event = "configure" /\ l.phase = "initial" /\ ~e.late THEN "ready" ELSE l.phase)
  <2>1. m \in Link
      BY <1>1 DEF States
  <2> QED BY <1>0, <1>1, <2>1 DEF Link, Heard
<1>a. ASSUME NEW k \in Nat \ {0}, k # 1 PROVE k - 1 \in Nat \ {0} /\ (k - 1) + 1 = k
    BY <1>a
<1>9. m.phase = "closed" => \E k \in DOMAIN m.wire : m.wire[k].event = "closed"
  <2> SUFFICES ASSUME m.phase = "closed" PROVE \E k \in DOMAIN m.wire : m.wire[k].event = "closed"
      OBVIOUS
  <2>1. PICK k \in DOMAIN l.wire : l.wire[k].event = "closed"
      BY <1>7, <1>8
  <2>2. k # 1
      BY <1>3, <1>5, <2>1
  <2>3. k - 1 \in 1..(Len(l.wire) - 1) /\ (k - 1) + 1 = k
      BY <1>t, <2>2
  <2>4. k - 1 \in DOMAIN m.wire /\ m.wire[k - 1] = l.wire[k]
      BY <1>t, <2>3
  <2> QED BY <2>1, <2>4
<1>10. ASSUME l.phase \in Active PROVE Tells(m)
  <2>1. l.asked = l.config.w /\ Tells(l)
      BY <1>7, <1>10
  <2>2. ASSUME NEW k \in Configures(m), \A j \in Configures(m) : j <= k PROVE m.wire[k].w = m.asked
    <3>1. k \in Nat \ {0} /\ k + 1 \in Configures(l) /\ m.wire[k] = l.wire[k + 1]
        BY <1>3
    <3>2. ASSUME NEW j \in Configures(l) PROVE j <= k + 1
      <4>1. CASE j = 1
          BY <3>1, <4>1
      <4>2. CASE j # 1
        <5>1. j \in Nat \ {0}
            BY <1>3
        <5>2. j - 1 \in Configures(m)
            BY <1>3, <1>a, <4>2, <5>1
        <5>3. j - 1 <= k
            BY <2>2, <5>2
        <5> QED BY <3>1, <5>1, <5>3
      <4> QED BY <4>1, <4>2
    <3> QED BY <1>4, <2>1, <3>1, <3>2 DEF Tells
  <2>3. ASSUME Configures(m) = {} PROVE m.width = m.asked
    <3>1. \A j \in Configures(l) : j = 1
        BY <1>3, <1>a, <2>3
    <3>2. CASE e.event = "configure"
      <4>1. 1 \in Configures(l) /\ \A j \in Configures(l) : j <= 1
          BY <1>3, <3>1, <3>2
      <4>2. e.w = l.asked
          BY <1>3, <2>1, <4>1 DEF Tells
      <4>3. e.w > 0
          BY <1>7, <2>1, <4>2
      <4>4. m.width = (IF e.w > 0 THEN e.w ELSE l.width)
          BY <1>1, <3>2 DEF Heard
      <4> QED BY <1>4, <4>2, <4>3, <4>4
    <3>3. CASE e.event # "configure"
      <4>1. Configures(l) = {}
          BY <1>3, <3>1, <3>3
      <4>2. m.width = l.width
          BY <1>1, <3>3 DEF Heard
      <4> QED BY <1>4, <2>1, <4>1, <4>2 DEF Tells
    <3> QED BY <3>2, <3>3
  <2> QED BY <2>2, <2>3 DEF Tells
<1>11. m.phase \in Active => l.phase \in Active
    BY <1>8, ActivePhases
<1>12. ASSUME m.phase = "initial" PROVE \E k \in Configures(m) : ~m.wire[k].late
  <2>1. l.phase = "initial" /\ (e.event = "configure" => e.late)
      BY <1>8, <1>12
  <2>2. PICK k \in Configures(l) : ~l.wire[k].late
      BY <1>7, <2>1
  <2>3. k # 1
      BY <1>3, <2>1, <2>2
  <2>4. k - 1 \in Nat \ {0} /\ (k - 1) + 1 = k
      BY <1>3, <1>a, <2>3
  <2>5. k - 1 \in Configures(m) /\ m.wire[k - 1] = l.wire[k]
      BY <1>3, <2>4
  <2> QED BY <2>2, <2>5
<1>13. CASE e.event = "configure"
  <2>1. m.configured /\ t.strip.dirty
      BY <1>1, <1>13 DEF Heard
  <2> QED BY <1>4, <1>7, <1>9, <1>10, <1>11, <1>12, <2>1 DEF Surface
<1>14. CASE e.event # "configure"
  <2>1. m.configured = l.configured /\ t.strip.dirty = dirty /\ m.width = l.width /\ m.phase = l.phase
      BY <1>1, <1>14 DEF Heard
  <2>2. Configures(l) # {} => Configures(m) # {}
    <3> SUFFICES ASSUME NEW k \in Configures(l) PROVE Configures(m) # {}
        OBVIOUS
    <3>1. k \in Nat \ {0} /\ k # 1
        BY <1>3, <1>14
    <3> QED BY <1>3, <1>a, <3>1
  <2>3. \A i \in DOMAIN l.buffers : i \in DOMAIN m.buffers /\ m.buffers[i].id = l.buffers[i].id /\ m.buffers[i].w = l.buffers[i].w
    <3>1. CASE e.event = "release"
        BY <1>1, <3>1 DEF Heard
    <3>2. CASE e.event # "release"
        BY <1>1, <3>2 DEF Heard
    <3> QED BY <3>1, <3>2
  <2>4. m.phase = "mapped" =>
            \/ t.strip.dirty \/ Configures(m) # {}
            \/ \E i \in DOMAIN m.buffers : m.buffers[i].id = m.attached /\ m.buffers[i].w = m.width
    <3> SUFFICES ASSUME NEW i \in DOMAIN l.buffers, l.buffers[i].id = l.attached /\ l.buffers[i].w = l.width
                 PROVE \E j \in DOMAIN m.buffers : m.buffers[j].id = m.attached /\ m.buffers[j].w = m.width
        BY <1>7, <2>1, <2>2
    <3>1. i \in DOMAIN m.buffers /\ m.buffers[i].id = m.attached /\ m.buffers[i].w = m.width
        BY <1>4, <2>1, <2>3
    <3> QED BY <3>1
  <2>5. /\ m.phase \in {"ready", "mapped"} => m.configured
        /\ m.phase = "ready" => t.strip.dirty
      BY <1>7, <2>1
  <2> QED BY <1>4, <1>7, <1>9, <1>10, <1>11, <1>12, <2>4, <2>5 DEF Surface
<1> QED BY <1>13, <1>14

\* What painting does to a surface that may be painted.
LEMMA RenderedUpToDate ==
    ASSUME NEW s \in States, NEW visible, Alive(s) => Surface(s.link, TRUE),
           Alive(s) /\ s.link.phase \in {"ready", "mapped"} => visible
    PROVE  UpToDate(Rendered(s, visible)) /\ (Alive(Rendered(s, visible)) => Alive(s))
<1> DEFINE t == Rendered(s, visible)
           l == s.link
           m == t.link
<1>0. l \in Link /\ l.phase \in {"initial", "created", "ready", "mapped", "closed"}
    BY DEF States, Link
<1>1. CASE ~(s.strip.ready /\ s.link.configured /\ visible)
  <2>1. t = s
      BY <1>1, RenderedPaints
  <2> HIDE DEF t
  <2>2. ASSUME Alive(s) PROVE Surface(l, s.strip.dirty)
    <3>1. Surface(l, TRUE)
        BY <2>2
    <3>2. l.phase \notin {"ready", "mapped"}
        BY <1>1, <2>2, <3>1 DEF Surface, Alive
    <3> QED BY <3>1, <3>2 DEF Surface
  <2> QED BY <2>1, <2>2, UpToDateIs DEF t
<1>2. CASE s.strip.ready /\ s.link.configured /\ visible
  <2>1. PICK as, b : Painted(s, t, as, b)
      BY <1>2, RenderedPaints
  <2> HIDE DEF t
  <2>2. /\ t.strip.ready = s.strip.ready /\ m.configured = l.configured /\ m.asked = l.asked /\ m.width = l.width
        /\ m.made_on = l.made_on /\ m.config = l.config /\ m.buffers = as /\ Taken(l.buffers, as, b) /\ b.w = l.width
      BY <2>1 DEF Painted
  <2>3. CASE l.error # "none"
    <3>1. m.error = l.error
        BY <2>1, <2>3 DEF Painted
    <3>2. ~Alive(t) /\ ~Alive(s)
        BY <2>3, <3>1 DEF Alive
    <3> QED BY <3>2, UpToDateIs DEF t
  <2>4. CASE l.error = "none" /\ l.phase = "closed"
    <3>1. m.error = l.error /\ m.phase = l.phase /\ m.wire = l.wire
        BY <2>1, <2>4 DEF Painted
    <3>2. Alive(s) /\ Surface(l, TRUE)
        BY <1>2, <2>4 DEF Alive
    <3>3. Surface(m, t.strip.dirty)
        BY <2>2, <2>4, <3>1, <3>2, ActivePhases DEF Surface
    <3> QED BY <3>2, <3>3, UpToDateIs DEF t
  <2>5. CASE l.error = "none" /\ l.phase \in {"initial", "created"}
    <3>1. m.error = "unready"
        BY <2>1, <2>5 DEF Painted, Refused
    <3>2. ~Alive(t)
        BY <3>1 DEF Alive
    <3> QED BY <3>2, UpToDateIs DEF t
  <2>6. CASE l.error = "none" /\ l.phase \in {"ready", "mapped"}
    <3>1. Alive(s) /\ Surface(l, TRUE)
        BY <1>2, <2>6 DEF Alive
    <3>2. Mapped(l, m, b.id)
        BY <2>1, <2>6 DEF Painted
    <3>3. m.phase = "mapped" /\ m.attached = b.id
        BY <3>2 DEF Mapped
    <3>4. Configures(m) = Configures(l) /\ \A k \in Configures(l) : m.wire[k] = l.wire[k]
      <4>1. CASE m.wire = l.wire
          BY <4>1 DEF Configures
      <4>2. ASSUME NEW o \in l.held \ {l.attached, b.id}, m.wire = Append(l.wire, Release(o))
            PROVE  Configures(m) = Configures(l) /\ \A k \in Configures(l) : m.wire[k] = l.wire[k]
        <5> DEFINE e == Release(o)
        <5>1. o \in Nat
            BY <1>0 DEF Link
        <5>2. e \in Event /\ e.event = "release" /\ m.wire = Append(l.wire, e)
            BY <4>2, <5>1, EventTypes
        <5> HIDE DEF e, m, l
        <5>3. /\ Configures(m) = IF e.event = "configure" THEN Configures(l) \cup {Len(l.wire) + 1} ELSE Configures(l)
              /\ \A k \in Configures(l) : m.wire[k] = l.wire[k]
            BY <1>0, <5>2, AddedConfigures
        <5> QED BY <5>2, <5>3
      <4> QED BY <3>2, <4>1, <4>2 DEF Mapped
    <3>5. \E i \in DOMAIN m.buffers : m.buffers[i].id = m.attached /\ m.buffers[i].w = m.width
      <4>1. PICK j \in DOMAIN as : as[j] = b
          BY <2>2 DEF Taken
      <4>2. j \in DOMAIN m.buffers /\ m.buffers[j] = b
          BY <2>2, <4>1
      <4> QED BY <2>2, <3>3, <4>2
    <3>6. l.asked = l.config.w /\ Tells(l) /\ l.config.w > 0 /\ l.config.out \in Outputs /\ l.made_on = l.config.out
        BY <2>6, <3>1, ActivePhases DEF Surface
    <3>7. Tells(m)
        BY <2>2, <3>4, <3>6 DEF Tells
    <3>8. Surface(m, t.strip.dirty)
        BY <1>2, <2>2, <3>3, <3>5, <3>6, <3>7 DEF Surface
    <3> QED BY <3>1, <3>8, UpToDateIs DEF t
  <2> QED BY <1>0, <2>3, <2>4, <2>5, <2>6
<1> QED BY <1>1, <1>2

\* The configure that was asked for last is the last under way.
LEMMA AskedTells ==
    ASSUME NEW q \in Seq(Event), NEW w \in Nat, NEW m, m.wire = Append(q, Configure(w)), m.asked = w
    PROVE  Tells(m) /\ \E k \in Configures(m) : ~m.wire[k].late
<1> DEFINE n == Len(q)
           e == Configure(w)
<1>1. e \in Event /\ e.event = "configure" /\ e.w = w /\ ~e.late
    BY EventTypes
<1> HIDE DEF e
<1>2. n \in Nat /\ DOMAIN m.wire = 1..(n + 1) /\ m.wire[n + 1] = e
  <2>1. m.wire = Append(q, e)
      BY DEF e
  <2> QED BY <1>1, <2>1, AppendOf
<1> HIDE DEF n
<1>3. n + 1 \in Configures(m) /\ \A j \in Configures(m) : j <= n + 1 /\ j \in Nat
    BY <1>1, <1>2 DEF Configures
<1>4. \A k \in Configures(m) : (\A j \in Configures(m) : j <= k) => k = n + 1
    BY <1>2, <1>3
<1> QED BY <1>1, <1>2, <1>3, <1>4 DEF Tells

\* Before it is shown the strip is up to date, or its connection is a new one.
Ready(s) == Alive(s) => UpToDate(s) \/ (s.link.made_on = None /\ s.link.attached = None)

LEMMA RemappedUpToDate ==
    ASSUME NEW s \in States, NEW rect \in Rect, rect.w > 0, NEW pick \in Outputs, NEW l \in Link, NEW a \in States,
           focus \in Outputs, Layered(s.link, l, Margins(rect)), a.link = Remapped(l, pick),
           a.strip.ready = s.strip.ready, a.strip.dirty = s.strip.dirty, Ready(s)
    PROVE  /\ UpToDate(a) /\ a.link.config = Margins(rect)
           /\ Alive(a) => Alive(s) /\ a.link.phase # "created" /\ a.link.attached = s.link.attached
           /\ Alive(a) /\ s.link.attached # None => s.link.made_on = focus
<1> DEFINE m == Remapped(l, pick)
           dirty == s.strip.dirty
<1>0. /\ l.error = s.link.error /\ l.phase = s.link.phase /\ l.wire = s.link.wire /\ l.configured = s.link.configured
      /\ l.asked = s.link.asked /\ l.attached = s.link.attached /\ l.width = s.link.width /\ l.made_on = s.link.made_on
      /\ l.buffers = s.link.buffers
      /\ l.config = Margins(rect) /\ l.config.out = focus /\ l.config.w = rect.w /\ l.config.w \in Nat
    BY DEF Layered, SameBuffers, Margins, Rect
<1>1. /\ l.error # "none" => m.error = l.error
      /\ l.error = "none" /\ l.made_on = l.config.out => Recommits(l, m)
      /\ l.error = "none" /\ l.made_on # l.config.out /\ l.attached # None => m.error = "constructed"
      /\ l.error = "none" /\ l.made_on # l.config.out /\ l.attached = None => Renews(l, m)
      /\ m \in Link /\ SameBuffers(l, m) /\ m.attached = l.attached /\ m.width = l.width
      /\ m.made_on = l.config.out /\ m.config = l.config
    BY <1>0, RemappedAsks
<1>2. s.link \in Link /\ a.link = m
    BY DEF States
<1> HIDE DEF m
<1>c. Configures(l) = Configures(s.link)
    BY <1>0 DEF Configures
<1>3. CASE ~(l.error = "none" /\ s.strip.ready)
  <2>1. ~Alive(a)
      BY <1>0, <1>1, <1>2, <1>3 DEF Alive
  <2> QED BY <1>0, <1>1, <1>2, <2>1, UpToDateIs
<1>4. CASE l.error = "none" /\ s.strip.ready
  <2>0. Alive(s)
      BY <1>0, <1>4 DEF Alive
  <2>s. ASSUME Surface(m, dirty) PROVE UpToDate(a)
      BY <1>2, <2>s, UpToDateIs
  <2>1. CASE l.made_on # l.config.out /\ l.attached # None
    <3>1. ~Alive(a)
        BY <1>1, <1>2, <1>4, <2>1 DEF Alive
    <3> QED BY <1>0, <1>1, <1>2, <3>1, UpToDateIs
  <2>2. CASE l.made_on # l.config.out /\ l.attached = None
    <3>1. Renews(l, m)
        BY <1>1, <1>4, <2>2
    <3>2. PICK q \in Seq(Event) : m.wire = Append(q, Configure(l.config.w))
        BY <3>1 DEF Renews
    <3>3. m.phase = "initial" /\ m.asked = l.config.w
        BY <3>1 DEF Renews
    <3>4. Tells(m) /\ \E k \in Configures(m) : ~m.wire[k].late
        BY <1>0, <3>2, <3>3, AskedTells
    <3>5. Surface(m, dirty)
        BY <1>0, <1>1, <3>3, <3>4 DEF Surface
    <3> QED BY <1>0, <1>1, <1>2, <2>0, <2>2, <2>s, <3>3, <3>5
  <2>3. CASE l.made_on = l.config.out
    <3>1. Recommits(l, m)
        BY <1>1, <1>4, <2>3
    <3>2. Surface(s.link, dirty)
      <4>1. s.link.made_on # None
          BY <1>0, <2>3, StripAssumption
      <4> QED BY <2>0, <4>1, UpToDateIs DEF Ready
    <3>3. /\ l.phase \in Active => Tells(s.link)
          /\ l.phase = "initial" => \E k \in Configures(l) : ~l.wire[k].late
          /\ l.phase \in {"ready", "mapped"} => l.configured
          /\ l.phase = "ready" => dirty
          /\ l.phase = "mapped" =>
                \/ dirty \/ Configures(l) # {}
                \/ \E i \in DOMAIN l.buffers : l.buffers[i].id = l.attached /\ l.buffers[i].w = l.width
          /\ l.phase = "closed" => \E k \in DOMAIN l.wire : l.wire[k].event = "closed"
        BY <1>0, <1>c, <3>2 DEF Surface
    <3>m. m.buffers = l.buffers /\ m.error = "none" /\ m.configured = l.configured
        BY <1>1, <3>1 DEF SameBuffers, Recommits
    <3>4. CASE l.phase = "closed" \/ (l.phase # "created" /\ l.asked = l.config.w)
      <4>1. m.wire = l.wire /\ m.phase = l.phase /\ m.asked = l.asked
          BY <3>1, <3>4 DEF Recommits
      <4>2. Configures(m) = Configures(l)
          BY <4>1 DEF Configures
      <4>3. m.phase \in Active => m.asked = m.config.w /\ Tells(m)
        <5> SUFFICES ASSUME m.phase \in Active PROVE m.asked = m.config.w /\ Tells(m)
            OBVIOUS
        <5>1. l.asked = l.config.w /\ Tells(s.link)
            BY <3>3, <3>4, <4>1, ActivePhases
        <5>2. Tells(m)
            BY <1>0, <1>1, <1>c, <4>1, <4>2, <5>1 DEF Tells
        <5> QED BY <1>1, <4>1, <5>1, <5>2
      <4>4. Surface(m, dirty)
          BY <1>0, <1>1, <3>3, <3>m, <4>1, <4>2, <4>3 DEF Surface
      <4>5. m.phase # "created"
          BY <3>4, <4>1
      <4> QED BY <1>0, <1>1, <1>2, <2>0, <2>3, <2>s, <4>4, <4>5
    <3>5. CASE ~(l.phase = "closed" \/ (l.phase # "created" /\ l.asked = l.config.w))
      <4>1. Asks(l, m)
          BY <3>1, <3>5 DEF Recommits
      <4>2. /\ m.asked = l.config.w /\ m.phase = (IF l.phase = "created" THEN "initial" ELSE l.phase)
            /\ m.wire = Append(l.wire, Configure(l.config.w))
          BY <4>1 DEF Asks
      <4>3. Tells(m) /\ \E k \in Configures(m) : ~m.wire[k].late
          BY <1>0, <4>2, WireOf, AskedTells
      <4>4. m.phase # "closed" /\ m.phase # "created"
          BY <3>5, <4>2
      <4>5. /\ m.phase \in {"ready", "mapped"} => m.configured
            /\ m.phase = "ready" => dirty
            /\ m.phase = "mapped" => Configures(m) # {}
          BY <3>3, <3>m, <4>2, <4>3
      <4>6. Surface(m, dirty)
          BY <1>0, <1>1, <4>2, <4>3, <4>4, <4>5 DEF Surface
      <4> QED BY <1>0, <1>1, <1>2, <2>0, <2>3, <2>s, <4>4, <4>6
    <3> QED BY <3>4, <3>5
  <2> QED BY <2>1, <2>2, <2>3
<1> QED BY <1>3, <1>4

-----------------------------------------------------------------------------
(* The strip is on its terminal *)

\* Where the strip is meant to be: at r, or nowhere, configured as c; and whether it has a buffer.
Sits(s, r, c, up) ==
    Alive(s) =>
        /\ s.strip.rect = r /\ s.link.config = c
        /\ r = None => s.link.phase \notin Active
        /\ r # None => s.link.phase # "created"
        /\ up => s.link.attached # None

LEMMA DeliveredSits ==
    ASSUME NEW s \in States, s.link.wire # <<>>, NEW r, NEW c, NEW up, Sits(s, r, c, up)
    PROVE  Sits(Delivered(s), r, c, up) /\ (Alive(Delivered(s)) => Alive(s))
<1> DEFINE t == Delivered(s)
           l == s.link
           m == t.link
           e == Head(l.wire)
<1>1. t \in States /\ e \in Event /\ Heard(s, t, e)
    BY DeliveredHeard
<1>2. e.event \in {"configure", "names", "release", "closed"}
    BY <1>1 DEF Event
<1> HIDE DEF t, e
<1>4. m.error = l.error /\ m.attached = l.attached /\ m.config = l.config
    BY <1>1 DEF Heard, SameLink
<1>5. Alive(t) => Alive(s) /\ t.strip.rect = s.strip.rect
    BY <1>1, <1>2, <1>4 DEF Alive, Heard
<1>6. m.phase = l.phase \/ (l.phase = "initial" /\ m.phase = "ready")
    BY <1>1, <1>2 DEF Heard
<1> QED BY <1>4, <1>5, <1>6, ActivePhases DEF Sits, t

LEMMA DispatchedKeepsAll ==
    ASSUME NEW s \in States, NEW n \in 0..Len(s.link.wire), NEW r, NEW c, NEW up, Sits(s, r, c, up), UpToDate(s)
    PROVE  LET t == Dispatched(s, n)
           IN  t \in States /\ Sits(t, r, c, up) /\ UpToDate(t) /\ (Alive(t) => Alive(s))
<1> DEFINE A == {t \in States : Sits(t, r, c, up) /\ UpToDate(t) /\ (Alive(t) => Alive(s))}
<1>1. A \subseteq States /\ s \in A
    OBVIOUS
<1>2. \A t \in A : t.link.wire # <<>> => Delivered(t) \in A
  <2> SUFFICES ASSUME NEW t \in States, Sits(t, r, c, up), UpToDate(t), Alive(t) => Alive(s), t.link.wire # <<>>
               PROVE  Delivered(t) \in A
      OBVIOUS
  <2>1. Delivered(t) \in States
      BY DeliveredHeard
  <2>2. UpToDate(Delivered(t))
      BY DeliveredUpToDate
  <2>3. Sits(Delivered(t), r, c, up) /\ (Alive(Delivered(t)) => Alive(t))
      BY DeliveredSits
  <2> QED BY <2>1, <2>2, <2>3
<1> HIDE DEF A
<1>3. Dispatched(s, n) \in A
    BY <1>1, <1>2, DispatchedKeeps
<1> QED BY <1>3 DEF A

LEMMA RenderedSits ==
    ASSUME NEW s \in States, NEW visible, NEW r, NEW c, NEW up, Sits(s, r, c, up)
    PROVE  LET t == Rendered(s, visible)
           IN  /\ t \in States /\ Sits(t, r, c, up) /\ (Alive(t) => Alive(s))
               /\ Alive(t) /\ s.link.configured /\ visible /\ s.link.phase \in {"ready", "mapped"} => t.link.attached # None
<1> DEFINE t == Rendered(s, visible)
           l == s.link
           m == t.link
<1>0. l \in Link /\ l.phase \in {"initial", "created", "ready", "mapped", "closed"} /\ t \in States
    BY RenderedPaints DEF States, Link
<1>1. CASE ~(s.strip.ready /\ s.link.configured /\ visible)
  <2>1. t = s
      BY <1>1, RenderedPaints
  <2> HIDE DEF t
  <2> QED BY <1>0, <1>1, <2>1 DEF t, Alive
<1>2. CASE s.strip.ready /\ s.link.configured /\ visible
  <2>1. PICK as, b : Painted(s, t, as, b)
      BY <1>2, RenderedPaints
  <2> HIDE DEF t
  <2>2. /\ t.strip.ready = s.strip.ready /\ t.strip.rect = s.strip.rect /\ m.config = l.config /\ b \in Buffer
      BY <2>1 DEF Painted, Taken
  <2>b. b.id # None
      BY <2>2, NoneIsNoNumber DEF Buffer
  <2>3. CASE l.error # "none" \/ l.phase = "closed"
    <3>1. m.error = l.error /\ m.phase = l.phase /\ m.attached = l.attached
        BY <2>1, <2>3 DEF Painted
    <3> QED BY <1>0, <2>2, <2>3, <3>1 DEF Alive, Sits, t
  <2>5. CASE l.error = "none" /\ l.phase \in {"initial", "created"}
    <3>1. m.error = "unready"
        BY <2>1, <2>5 DEF Painted, Refused
    <3>2. ~Alive(t)
        BY <3>1 DEF Alive
    <3> QED BY <1>0, <3>2 DEF Sits, t
  <2>6. CASE l.error = "none" /\ l.phase \in {"ready", "mapped"}
    <3>2. Mapped(l, m, b.id)
        BY <2>1, <2>6 DEF Painted
    <3>3. m.phase = "mapped" /\ m.attached = b.id /\ m.error = "none"
        BY <3>2 DEF Mapped
    <3>4. Alive(s)
        BY <1>2, <2>6 DEF Alive
    <3> QED BY <1>0, <2>2, <2>6, <2>b, <3>3, <3>4, ActivePhases DEF Sits, t
  <2> QED BY <1>0, <2>3, <2>5, <2>6
<1> QED BY <1>1, <1>2

LEMMA NoneIsNoRect == ASSUME NEW rect \in Rect PROVE rect # None
BY StripAssumption DEF Rect

LEMMA ShownSits ==
    ASSUME focus \in Outputs, NEW s \in States, Ready(s), NEW rect \in Rect, rect.w > 0, NEW pick \in Outputs,
           NEW t \in ShownStrip(s, rect, pick)
    PROVE  /\ t \in States /\ UpToDate(t) /\ Sits(t, rect, Margins(rect), "stall" \notin env) /\ (Alive(t) => Alive(s))
           /\ Alive(t) /\ s.link.attached # None => s.link.made_on = focus
<1>1. PICK l \in Link, a \in States, d \in States : \E k : Shows(s, rect, pick, t, l, a, k, d)
    BY ShownAs
<1>2. PICK k : Shows(s, rect, pick, t, l, a, k, d)
    BY <1>1
<1>r. rect # None
    BY NoneIsNoRect
<1>3. /\ UpToDate(a) /\ a.link.config = Margins(rect)
      /\ Alive(a) => Alive(s) /\ a.link.phase # "created" /\ a.link.attached = s.link.attached
      /\ Alive(a) /\ s.link.attached # None => s.link.made_on = focus
  <2>1. /\ Layered(s.link, l, Margins(rect)) /\ a.link = Remapped(l, pick)
        /\ a.strip.ready = s.strip.ready /\ a.strip.dirty = s.strip.dirty
      BY <1>2 DEF Shows
  <2> QED BY <2>1, RemappedUpToDate
<1>4. k \in 0..Len(a.link.wire) /\ a.strip.rect = rect
    BY <1>2 DEF Shows
<1>5. Sits(a, rect, Margins(rect), FALSE)
    BY <1>3, <1>4, <1>r DEF Sits
<1> DEFINE b == Dispatched(a, k)
<1>6. b \in States /\ Sits(b, rect, Margins(rect), FALSE) /\ UpToDate(b) /\ (Alive(b) => Alive(a))
    BY <1>3, <1>4, <1>5, DispatchedKeepsAll
<1>w. "stall" \notin env => b.link.wire = <<>>
  <2> SUFFICES ASSUME "stall" \notin env PROVE b.link.wire = <<>>
      OBVIOUS
  <2>1. k = Len(a.link.wire) /\ Len(b.link.wire) = Len(a.link.wire) - k
      BY <1>2, <1>4, DispatchedStates DEF Shows
  <2> HIDE DEF b
  <2>2. a.link \in Link /\ b.link \in Link
      BY <1>6 DEF States
  <2>3. Len(a.link.wire) \in Nat /\ b.link.wire \in Seq(Event)
      BY <2>2, WireOf
  <2>4. Len(b.link.wire) = 0
      BY <2>1, <2>3
  <2> QED BY <2>3, <2>4
<1>7. d.link = b.link /\ d.strip.ready = b.strip.ready /\ d.strip.rect = b.strip.rect /\ d.strip.dirty = TRUE
      /\ t = Rendered(d, TRUE)
    BY <1>2 DEF Shows, Dirtied
<1> HIDE DEF b
<1>8. Alive(d) <=> Alive(b)
    BY <1>7 DEF Alive
<1>9. Sits(d, rect, Margins(rect), FALSE)
    BY <1>6, <1>7, <1>8 DEF Sits
<1>10. Alive(d) => Surface(d.link, TRUE)
  <2>1. Alive(d) => Surface(b.link, b.strip.dirty)
      BY <1>6, <1>8, UpToDateIs
  <2> QED BY <1>7, <2>1 DEF Surface
<1>11. UpToDate(t) /\ (Alive(t) => Alive(d))
    BY <1>7, <1>10, RenderedUpToDate
<1>12. /\ t \in States /\ Sits(t, rect, Margins(rect), FALSE)
       /\ Alive(t) /\ d.link.configured /\ d.link.phase \in {"ready", "mapped"} => t.link.attached # None
    BY <1>7, <1>9, RenderedSits
<1>13. ASSUME "stall" \notin env, Alive(t) PROVE t.link.attached # None
  <2>1. d.link.wire = <<>> /\ Surface(d.link, TRUE) /\ Alive(d)
      BY <1>7, <1>10, <1>11, <1>13, <1>w
  <2>2. Configures(d.link) = {} /\ DOMAIN d.link.wire = {}
      BY <2>1, NoConfigures
  <2>3. d.link.phase # "initial" /\ d.link.phase # "closed"
      BY <2>1, <2>2 DEF Surface
  <2>4. d.link.phase # "created"
      BY <1>9, <1>r, <2>1 DEF Sits
  <2>5. d.link.phase \in {"ready", "mapped"}
    <3>1. d.link \in Link
        BY DEF States
    <3> QED BY <2>3, <2>4, <3>1 DEF Link
  <2>6. d.link.configured
      BY <2>1, <2>5 DEF Surface
  <2> QED BY <1>12, <1>13, <2>5, <2>6
<1>14. Sits(t, rect, Margins(rect), "stall" \notin env)
    BY <1>12, <1>13 DEF Sits
<1> QED BY <1>3, <1>6, <1>8, <1>11, <1>12, <1>14

LEMMA HiddenSits ==
    ASSUME NEW s \in States, UpToDate(s)
    PROVE  LET t == Hidden(s)
           IN  /\ t \in States /\ UpToDate(t) /\ (Alive(t) => Alive(s) /\ t.strip.rect = None /\ t.link.phase \notin Active)
<1> DEFINE t == Hidden(s)
           l == s.link
           m == t.link
<1>0. l \in Link
    BY DEF States
<1>1. /\ t \in States /\ t.strip.ready = s.strip.ready /\ t.strip.rect = None
      /\ m = IF s.strip.ready THEN Unmapped(l) ELSE l
    BY HiddenIs
<1> HIDE DEF t
<1>2. CASE Alive(t)
  <2>1. /\ m.error = l.error /\ m.made_on = l.made_on /\ m.config = l.config
        /\ l.error = "none" => Reset(l, m)
      BY <1>0, <1>1, <1>2, UnmappedResets DEF Alive
  <2>2. Alive(s) /\ m.phase = "created"
      BY <1>1, <1>2, <2>1 DEF Alive, Reset
  <2>3. Surface(l, s.strip.dirty)
      BY <2>2, UpToDateIs
  <2>4. Surface(m, t.strip.dirty)
      BY <2>1, <2>2, <2>3, ActivePhases DEF Surface
  <2> QED BY <1>1, <2>2, <2>4, UpToDateIs, ActivePhases DEF t
<1>3. CASE ~Alive(t)
    BY <1>1, <1>3, UpToDateIs DEF t
<1> QED BY <1>2, <1>3

Up == "stall" \notin env /\ strip.rect # None

LEMMA SitsNow == RectInv => Sits(State, strip.rect, link.config, Up)
BY StateIs DEF RectInv, Sits, Alive, Up

LEMMA WantedKept ==
    ASSUME term'.geom = term.geom, link'.config.out = link.config.out
    PROVE  Wanted' = Wanted
BY DEF Wanted, Top

\* A step that leaves the strip where it is.
LEMMA KeptRect ==
    ASSUME RectInv, env' = env, Sits(State', strip.rect, link.config, Up), Alive(State') => Alive(State),
           term'.shown = term.shown, placed'.tabs = placed.tabs, "focus" \notin env => focus' = focus,
           pc' \in {"paint", "read"} /\ ~term'.moved => pc \in {"paint", "read"} /\ ~term.moved /\ term'.geom = term.geom
    PROVE  RectInv'
<1> SUFFICES ASSUME strip'.ready /\ link'.error = "none"
             PROVE /\ strip'.rect # None <=> term'.shown /\ placed'.tabs >= 2
                   /\ strip'.rect = None => link'.phase \notin Active
                   /\ strip'.rect # None =>
                       /\ link'.phase # "created"
                       /\ strip'.rect.w = link'.config.w
                       /\ strip'.rect.x = Left(link'.config.out) + link'.config.left
                       /\ strip'.rect.y = Top(link'.config.out) + link'.config.top
                       /\ "stall" \notin env => link'.attached # None
                       /\ "focus" \notin env => link'.config.out = focus'
                       /\ pc' \in {"paint", "read"} /\ ~term'.moved =>
                           /\ strip'.rect.x = term'.geom.x /\ strip'.rect.w = term'.geom.w
                           /\ ~({"focus", "stall"} \subseteq env) => strip'.rect = Wanted'
    BY DEF RectInv, Left, Top, Active
<1>1. State'.link = link' /\ State'.strip = strip'
    BY DEF State
<1>2. Alive(State') /\ Alive(State)
    BY <1>1 DEF Alive
<1>3. /\ strip'.rect = strip.rect /\ link'.config = link.config
      /\ strip.rect = None => link'.phase \notin Active
      /\ strip.rect # None => link'.phase # "created"
      /\ Up => link'.attached # None
    BY <1>1, <1>2 DEF Sits
<1>4. strip.ready /\ link.error = "none"
    BY <1>2, StateIs DEF Alive
<1>5. pc' \in {"paint", "read"} /\ ~term'.moved => Wanted' = Wanted
    BY <1>3, WantedKept
<1> QED BY <1>3, <1>4, <1>5 DEF RectInv, Up

\* A strip that has just been shown at rect.
LEMMA ShownRect ==
    ASSUME focus \in Outputs, NEW rect \in Rect, Sits(State', rect, Margins(rect), "stall" \notin env), env' = env,
           focus' = focus, Alive(State') => term'.shown /\ placed'.tabs >= 2,
           rect.x = term'.geom.x, rect.w = term'.geom.w,
           Alive(State') /\ link'.config.out = focus /\ ~({"focus", "stall"} \subseteq env) => rect = Wanted'
    PROVE  RectInv'
<1> SUFFICES ASSUME strip'.ready /\ link'.error = "none"
             PROVE /\ strip'.rect # None <=> term'.shown /\ placed'.tabs >= 2
                   /\ strip'.rect = None => link'.phase \notin Active
                   /\ strip'.rect # None =>
                       /\ link'.phase # "created"
                       /\ strip'.rect.w = link'.config.w
                       /\ strip'.rect.x = Left(link'.config.out) + link'.config.left
                       /\ strip'.rect.y = Top(link'.config.out) + link'.config.top
                       /\ "stall" \notin env => link'.attached # None
                       /\ "focus" \notin env => link'.config.out = focus'
                       /\ pc' \in {"paint", "read"} /\ ~term'.moved =>
                           /\ strip'.rect.x = term'.geom.x /\ strip'.rect.w = term'.geom.w
                           /\ ~({"focus", "stall"} \subseteq env) => strip'.rect = Wanted'
    BY DEF RectInv, Left, Top, Active
<1>1. State'.link = link' /\ State'.strip = strip'
    BY DEF State
<1>2. Alive(State')
    BY <1>1 DEF Alive
<1>r. rect # None
    BY NoneIsNoRect
<1>3. /\ strip'.rect = rect /\ link'.config = Margins(rect)
      /\ link'.phase # "created"
      /\ "stall" \notin env => link'.attached # None
    BY <1>1, <1>2, <1>r DEF Sits
<1>4. /\ link'.config.w = rect.w /\ link'.config.out = focus /\ link'.config.left = rect.x - Left(focus)
      /\ link'.config.top = rect.y - Top(focus)
    BY <1>3 DEF Margins
<1>5. rect.x \in Int /\ rect.y \in Int /\ Left(focus) \in Int /\ Top(focus) \in Int
    BY TopType DEF Rect
<1>6. rect.x = Left(focus) + (rect.x - Left(focus)) /\ rect.y = Top(focus) + (rect.y - Top(focus))
    BY <1>5
<1> QED BY <1>2, <1>r, <1>3, <1>4, <1>6

LEMMA PlacedRect ==
    ASSUME Typed, UpToDate(State), RectInv, env' = env, focus' = focus, Placed(State)
    PROVE  UpToDate(State') /\ RectInv' /\ TabsInv'
<1>1. focus \in Outputs /\ size \in Size \cup {None} /\ term \in Terminals /\ State \in States /\ State \in Sound
    BY DEF Typed, Sound, Safe
<1>2. PICK band \in BOOLEAN, geom \in Geom, rect \in Rect : Puts(State, band, geom, rect)
    BY <1>1, PlacedPuts
<1>3. /\ band = (term.tabs >= 2 /\ CanHaveStrip)
      /\ term'.shown /\ term'.geom = geom /\ term'.tabs = term.tabs /\ placed'.tabs = term.tabs
      /\ rect.x = geom.x /\ rect.w = geom.w /\ (band => rect.y = geom.y - Band) /\ Top(focus) <= rect.y
    BY <1>2 DEF Puts
<1>4. TabsInv'
    BY <1>3 DEF TabsInv
<1>5. CASE ~band
  <2>1. State' = Hidden(State)
      BY <1>2, <1>5 DEF Puts
  <2>2. /\ UpToDate(State')
        /\ Alive(State') => Alive(State) /\ State'.strip.rect = None /\ State'.link.phase \notin Active
      BY <1>1, <2>1, HiddenSits
  <2>3. State'.link = link' /\ State'.strip = strip'
      BY DEF State
  <2>4. strip'.ready /\ link'.error = "none" => strip'.rect = None /\ link'.phase \notin Active /\ strip.ready
      BY <2>2, <2>3, StateIs DEF Alive
  <2>5. strip'.ready /\ link'.error = "none" => ~(placed'.tabs >= 2)
      BY <1>3, <1>5, <2>4 DEF CanHaveStrip
  <2> QED BY <1>4, <2>2, <2>4, <2>5 DEF RectInv, Active
<1>6. CASE band
  <2>1. PICK pick \in Outputs : \E t \in ShownStrip(Ensured(State, pick), rect, pick) : Becomes(t)
      BY <1>2, <1>6 DEF Puts
  <2>2. PICK t \in ShownStrip(Ensured(State, pick), rect, pick) : Becomes(t)
      BY <2>1
  <2>3. Ensured(State, pick) \in States /\ Ready(Ensured(State, pick))
    <3>1. CASE strip.ready
      <4>1. Ensured(State, pick) = State
          BY <1>1, <3>1, EnsuredIs, StateIs
      <4> QED BY <1>1, <4>1 DEF Ready
    <3>2. CASE ~strip.ready
      <4> DEFINE e == Ensured(State, pick)
      <4>1. e \in States /\ e.link = Connected(pick)
          BY <1>1, <3>2, EnsuredIs, StateIs
      <4> HIDE DEF e
      <4>2. e.link.made_on = None /\ e.link.attached = None
          BY <4>1, ConnectedIs
      <4> QED BY <4>1, <4>2 DEF Ready, e
    <3> QED BY <3>1, <3>2
  <2>w. rect.w > 0
      BY <1>3 DEF Geom
  <2>4. /\ t \in States /\ UpToDate(t) /\ Sits(t, rect, Margins(rect), "stall" \notin env)
      BY <1>1, <2>3, <2>w, ShownSits
  <2>5. State' = t
      BY <2>2, <2>4, BecomesIs
  <2>6. placed'.tabs >= 2
      BY <1>3, <1>6
  <2>7. link'.config.out = focus => rect = Wanted'
    <3> SUFFICES ASSUME link'.config.out = focus PROVE rect = Wanted'
        OBVIOUS
    <3>1. Wanted' = [x |-> geom.x, w |-> geom.w, y |-> IF geom.y - Band < Top(focus) THEN Top(focus) ELSE geom.y - Band]
        BY <1>3 DEF Wanted, Top
    <3>2. rect.y \in Int /\ Top(focus) \in Int /\ rect = [x |-> rect.x, y |-> rect.y, w |-> rect.w]
        BY <1>1, TopType DEF Rect
    <3>3. (IF geom.y - Band < Top(focus) THEN Top(focus) ELSE geom.y - Band) = rect.y
        BY <1>3, <1>6, <3>2
    <3> DEFINE y == IF geom.y - Band < Top(focus) THEN Top(focus) ELSE geom.y - Band
    <3>4. Wanted' = [x |-> geom.x, w |-> geom.w, y |-> y]
        BY <3>1
    <3>5. y = rect.y
        BY <3>3
    <3> HIDE DEF y
    <3> QED BY <1>3, <3>2, <3>4, <3>5
  <2>8. RectInv'
      BY <1>1, <1>3, <2>4, <2>5, <2>6, <2>7, ShownRect
  <2> QED BY <1>4, <2>4, <2>5, <2>8
<1> QED BY <1>5, <1>6

LEMMA SampledRect ==
    ASSUME Typed, UpToDate(State), RectInv, TabsInv, Sample, env' = env
    PROVE  UpToDate(State') /\ RectInv' /\ TabsInv'
<1>1. focus \in Outputs /\ size \in Size \cup {None} /\ term \in Terminals /\ State \in States /\ State \in Sound
      /\ (strip.rect # None => strip.ready /\ link.config.out \in Outputs)
    BY StateIs DEF Typed, Sound, Safe
<1>2. pc' = "paint" /\ focus' = focus
    BY DEF Sample, Goes
<1>3. ASSUME UNCHANGED <<link, strip>> PROVE UpToDate(State') /\ State' = State
    BY <1>3 DEF State
<1>4. CASE ~term.shown
  <2>1. UNCHANGED <<term, placed, link, strip>>
      BY <1>4 DEF Sample
  <2>2. TabsInv'
      BY <1>4, <2>1 DEF TabsInv
  <2>3. RectInv'
      BY <1>2, <1>4, <2>1 DEF RectInv, Left, Top, Active, Wanted
  <2> QED BY <1>3, <2>1, <2>2, <2>3
<1>5. CASE term.shown /\ (term.tabs >= 2) # (placed.tabs >= 2)
  <2>1. Placed(State)
      BY <1>5 DEF Sample
  <2> QED BY <1>2, <2>1, PlacedRect
<1>6. CASE term.shown /\ ~((term.tabs >= 2) # (placed.tabs >= 2))
  <2>1. term' = [term EXCEPT !.moved = FALSE] /\ UNCHANGED placed
      BY <1>6 DEF Sample
  <2>2. /\ term'.shown = term.shown /\ term'.tabs = term.tabs /\ term'.geom = term.geom /\ placed'.tabs = placed.tabs
      BY <1>1, <2>1 DEF Terminals
  <2>3. TabsInv'
      BY <1>6, <2>2 DEF TabsInv
  <2>4. CASE ~strip.ready \/ strip.rect = None \/ strip.rect = Wanted
    <3>1. UNCHANGED <<link, strip>>
        BY <1>6, <2>4 DEF Sample
    <3>2. strip.ready => strip.rect = None \/ (strip.rect = Wanted' /\ strip.rect.x = term'.geom.x /\ strip.rect.w = term'.geom.w)
      <4>1. Wanted' = Wanted /\ Wanted.x = term'.geom.x /\ Wanted.w = term'.geom.w
          BY <2>2, <3>1, WantedKept DEF Wanted
      <4> QED BY <2>4, <4>1
    <3>3. RectInv'
        BY <1>2, <2>2, <3>1, <3>2 DEF RectInv, Left, Top, Active
    <3> QED BY <1>3, <2>3, <3>1, <3>3
  <2>5. CASE ~(~strip.ready \/ strip.rect = None \/ strip.rect = Wanted)
    <3>1. PICK pick \in Outputs : \E s \in ShownStrip(State, Wanted, pick) : Becomes(s)
        BY <1>6, <2>5 DEF Sample
    <3>2. PICK t \in ShownStrip(State, Wanted, pick) : Becomes(t)
        BY <3>1
    <3> DEFINE rect == Wanted
    <3>3. rect \in Rect /\ rect.w > 0
        BY <1>1, <2>5, WantedType
    <3>4. Ready(State)
        BY DEF Ready
    <3>5. /\ t \in States /\ UpToDate(t) /\ Sits(t, rect, Margins(rect), "stall" \notin env) /\ (Alive(t) => Alive(State))
          /\ Alive(t) /\ link.attached # None => link.made_on = focus
      <4> HIDE DEF rect
      <4>1. t \in ShownStrip(State, rect, pick)
          BY <3>2 DEF rect
      <4> QED BY <1>1, <3>3, <3>4, <4>1, ShownSits, StateIs
    <3>6. State' = t
        BY <3>2, <3>5, BecomesIs
    <3>7. Alive(State') => term'.shown /\ placed'.tabs >= 2
        BY <1>6, <2>2, <2>5, <3>5, <3>6, StateIs DEF RectInv, Alive
    <3>8. Alive(State') /\ link'.config.out = focus /\ ~({"focus", "stall"} \subseteq env) => rect = Wanted'
      <4> SUFFICES ASSUME Alive(State'), link'.config.out = focus, ~({"focus", "stall"} \subseteq env) PROVE rect = Wanted'
          OBVIOUS
      <4>1. Alive(State) /\ strip.ready /\ link.error = "none"
          BY <3>5, <3>6, StateIs DEF Alive
      <4>2. link.config.out = focus
        <5>1. CASE "focus" \notin env
            BY <2>5, <4>1, <5>1 DEF RectInv
        <5>2. CASE "stall" \notin env
          <6>1. link.attached # None
              BY <2>5, <4>1, <5>2 DEF RectInv
          <6>2. link.made_on = focus
              BY <3>5, <3>6, <6>1
          <6>3. link.made_on = link.config.out
              BY <4>1, StateIs DEF UpToDate, Surface
          <6> QED BY <6>2, <6>3
        <5> QED BY <5>1, <5>2
      <4> QED BY <2>2, <4>2, WantedKept
    <3>x. rect.x = term'.geom.x /\ rect.w = term'.geom.w
        BY <2>2 DEF Wanted
    <3> HIDE DEF rect
    <3>9. RectInv'
        BY <1>1, <1>2, <3>3, <3>5, <3>6, <3>7, <3>8, <3>x, ShownRect
    <3> QED BY <2>3, <3>5, <3>6, <3>9
  <2> QED BY <2>4, <2>5
<1> QED BY <1>4, <1>5, <1>6

\* The strip is where it should be, or is being brought there.
InPlace == UpToDate(State) /\ RectInv /\ TabsInv

LEMMA InPlaceInit == Init => InPlace
<1> SUFFICES ASSUME Init PROVE InPlace
    OBVIOUS
<1>1. strip.ready = FALSE /\ term.shown = FALSE
    BY DEF Init
<1> QED BY <1>1, StateIs, UpToDateIs DEF InPlace, RectInv, TabsInv, Alive

\* What the compositor sends does not move the strip.
LEMMA SentFollows ==
    ASSUME Typed, InPlace, NEW e \in Event, strip' = strip, strip.ready, link.error = "none",
           link'.wire = Append(link.wire, e), link'.error = link.error, link'.on = link.on, link'.asked = link.asked,
           link'.attached = link.attached, link'.configured = link.configured, link'.width = link.width,
           link'.made_on = link.made_on, link'.config = link.config, link'.buffers = link.buffers,
           \/ link'.phase = link.phase
           \/ link'.phase = "closed" /\ e.event = "closed",
           e.event = "configure" => e.w = link.asked
    PROVE  UpToDate(State') /\ Sits(State', strip.rect, link.config, Up) /\ (Alive(State') => Alive(State))
<1> DEFINE n == Len(link.wire)
<1>0. link \in Link
    BY StateIs DEF Typed, Sound, Safe, States
<1>s. State'.link = link' /\ State'.strip = strip'
    BY DEF State
<1>1. Alive(State) /\ Alive(State')
    BY <1>s, StateIs DEF Alive
<1>2. Surface(link, strip.dirty)
    BY <1>1, StateIs, UpToDateIs DEF InPlace
<1>3. /\ n \in Nat /\ DOMAIN link'.wire = 1..(n + 1) /\ DOMAIN link.wire = 1..n /\ link'.wire[n + 1] = e
      /\ \A k \in 1..n : link'.wire[k] = link.wire[k]
    BY <1>0, WireOf, AppendOf
<1>4. /\ Configures(link) \subseteq 1..n
      /\ \A k \in Configures(link) : link'.wire[k] = link.wire[k]
      /\ Configures(link') = IF e.event = "configure" THEN Configures(link) \cup {n + 1} ELSE Configures(link)
    BY <1>0, AddedConfigures
<1> HIDE DEF n
<1>5. Configures(link) \subseteq Configures(link')
    BY <1>4
<1>6. link'.phase = "closed" => \E k \in DOMAIN link'.wire : link'.wire[k].event = "closed"
  <2> SUFFICES ASSUME link'.phase = "closed" PROVE \E k \in DOMAIN link'.wire : link'.wire[k].event = "closed"
      OBVIOUS
  <2>1. CASE e.event = "closed"
    <3>1. n + 1 \in DOMAIN link'.wire
        BY <1>3
    <3> QED BY <1>3, <2>1, <3>1
  <2>2. CASE e.event # "closed"
    <3>1. PICK k \in 1..n : link.wire[k].event = "closed"
        BY <1>2, <1>3, <2>2 DEF Surface
    <3>2. k \in DOMAIN link'.wire
        BY <1>3
    <3> QED BY <1>3, <3>1, <3>2
  <2> QED BY <2>1, <2>2
<1>7. Tells(link) => Tells(link')
  <2> SUFFICES ASSUME Tells(link) PROVE Tells(link')
      OBVIOUS
  <2>1. CASE e.event = "configure"
    <3>1. n + 1 \in Configures(link')
        BY <1>4, <2>1
    <3>2. \A k \in Configures(link') : k \in 1..(n + 1)
        BY <1>3 DEF Configures
    <3>3. \A k \in Configures(link') : (\A j \in Configures(link') : j <= k) => k = n + 1
        BY <1>3, <3>1, <3>2
    <3> QED BY <1>3, <2>1, <3>1, <3>3 DEF Tells
  <2>2. CASE e.event # "configure"
    <3>1. Configures(link') = Configures(link)
        BY <1>4, <2>2
    <3> QED BY <1>4, <3>1 DEF Tells
  <2> QED BY <2>1, <2>2
<1>8. link'.phase \in Active => link'.phase = link.phase
    BY ActivePhases
<1>9. link'.phase = "initial" => \E k \in Configures(link') : ~link'.wire[k].late
  <2> SUFFICES ASSUME link'.phase = "initial" PROVE \E k \in Configures(link') : ~link'.wire[k].late
      OBVIOUS
  <2>1. PICK k \in Configures(link) : ~link.wire[k].late
      BY <1>2, <1>8, ActivePhases DEF Surface
  <2> QED BY <1>4, <1>5, <2>1
<1>10. Surface(link', strip'.dirty)
    BY <1>2, <1>5, <1>6, <1>7, <1>8, <1>9, ActivePhases DEF Surface
<1>11. Sits(State, strip.rect, link.config, Up)
    BY SitsNow DEF InPlace
<1>12. Sits(State', strip.rect, link.config, Up)
    BY <1>1, <1>8, <1>11, <1>s, StateIs, ActivePhases DEF Sits
<1> QED BY <1>1, <1>10, <1>12, <1>s, UpToDateIs

\* What leaves the link alone, and the strip in its place.
LEMMA IdleFollows ==
    ASSUME InPlace, link' = link, strip'.ready = strip.ready, strip'.rect = strip.rect, strip.dirty => strip'.dirty
    PROVE  UpToDate(State') /\ Sits(State', strip.rect, link.config, Up) /\ (Alive(State') => Alive(State))
<1>s. State'.link = link' /\ State'.strip = strip'
    BY DEF State
<1>1. Alive(State') <=> Alive(State)
    BY <1>s, StateIs DEF Alive
<1>2. Alive(State) => Surface(link, strip.dirty)
    BY StateIs, UpToDateIs DEF InPlace
<1>3. Alive(State) => Surface(link, strip'.dirty)
    BY <1>2 DEF Surface
<1>4. Sits(State, strip.rect, link.config, Up)
    BY SitsNow DEF InPlace
<1> QED BY <1>1, <1>3, <1>4, <1>s, StateIs, UpToDateIs DEF Sits

LEMMA PaintFollows ==
    ASSUME Typed, InPlace, Paint, strip.ready, strip.dirty
    PROVE  UpToDate(State') /\ Sits(State', strip.rect, link.config, Up) /\ (Alive(State') => Alive(State))
<1> DEFINE s == [State EXCEPT !.strip.dirty = FALSE]
<1>0. link \in Link /\ strip \in Strip /\ term \in Terminals
    BY StateIs DEF Typed, Sound, Safe, States
<1>1. s \in States /\ s.link = link /\ s.strip.ready = strip.ready /\ s.strip.rect = strip.rect
  <2> DEFINE p == [strip EXCEPT !.dirty = FALSE]
  <2>1. s.link = link /\ s.strip = p
      BY DEF State
  <2>2. s = [x \in {"link", "strip"} |-> s[x]]
      BY DEF State
  <2>3. p \in Strip /\ p.ready = strip.ready /\ p.rect = strip.rect
      BY <1>0 DEF Strip
  <2> HIDE DEF s, p
  <2>4. s = [link |-> link, strip |-> p]
      BY <2>1, <2>2
  <2> QED BY <1>0, <2>1, <2>3, <2>4 DEF States
<1>2. Becomes(Rendered(s, term.shown))
    BY DEF Paint
<1> HIDE DEF s
<1> DEFINE t == Rendered(s, term.shown)
<1>3. Alive(s) <=> Alive(State)
    BY <1>1, StateIs DEF Alive
<1>4. Alive(s) => Surface(s.link, TRUE)
  <2>1. Alive(s) => Surface(link, strip.dirty)
      BY <1>3, StateIs, UpToDateIs DEF InPlace
  <2> QED BY <1>1, <2>1
<1>5. Alive(s) /\ s.link.phase \in {"ready", "mapped"} => term.shown
  <2>1. Alive(s) => strip.ready /\ link.error = "none"
      BY <1>1 DEF Alive
  <2> QED BY <1>1, <2>1 DEF InPlace, RectInv, Active
<1>6. UpToDate(t) /\ (Alive(t) => Alive(s))
    BY <1>1, <1>4, <1>5, RenderedUpToDate
<1>7. Sits(s, strip.rect, link.config, Up)
  <2>1. Sits(State, strip.rect, link.config, Up)
      BY SitsNow DEF InPlace
  <2> QED BY <1>1, <1>3, <2>1, StateIs DEF Sits
<1>8. t \in States /\ Sits(t, strip.rect, link.config, Up)
    BY <1>1, <1>7, RenderedSits
<1> HIDE DEF t
<1>9. State' = t
    BY <1>2, <1>8, BecomesIs DEF t
<1> QED BY <1>3, <1>6, <1>8, <1>9

LEMMA InPlaceStep ==
    ASSUME Typed, [Next]_vars, InPlace
    PROVE  InPlace'
<1>0. /\ focus \in Outputs /\ term \in Terminals /\ State \in States /\ link \in Link /\ strip \in Strip
      /\ UpToDate(State) /\ RectInv /\ TabsInv /\ env' = env
    BY EnvStays, StateIs DEF Typed, Sound, Safe, States, InPlace
<1>s. State'.link = link' /\ State'.strip = strip'
    BY DEF State
<1>i. ASSUME UpToDate(State'), Sits(State', strip.rect, link.config, Up), Alive(State') => Alive(State),
             term'.shown = term.shown, placed'.tabs = placed.tabs, term'.moved \/ term' = term,
             "focus" \notin env => focus' = focus,
             pc' \in {"paint", "read"} /\ ~term'.moved => pc \in {"paint", "read"}
      PROVE  InPlace'
  <2>1. RectInv'
      BY <1>0, <1>i, KeptRect
  <2>2. TabsInv'
      BY <1>0, <1>i DEF TabsInv
  <2>3. UpToDate(State)'
      BY <1>i
  <2> QED BY <2>1, <2>2, <2>3 DEF InPlace
<1>1. CASE NothingToDo \/ FocusMonitor \/ Resize \/ OpenOrCloseTab \/ Cooled \/ Titled \/ UNCHANGED vars
  <2>1. /\ link' = link /\ strip'.ready = strip.ready /\ strip'.rect = strip.rect
        /\ strip.dirty => strip'.dirty
      BY <1>0, <1>1 DEF NothingToDo, FocusMonitor, Resize, OpenOrCloseTab, Cooled, Titled, vars, Strip
  <2>2. UpToDate(State') /\ Sits(State', strip.rect, link.config, Up) /\ (Alive(State') => Alive(State))
      BY <2>1, IdleFollows
  <2>3. /\ term'.shown = term.shown /\ placed'.tabs = placed.tabs /\ (term'.moved \/ term' = term)
        /\ "focus" \notin env => focus' = focus
        /\ pc' \in {"paint", "read"} /\ ~term'.moved => pc \in {"paint", "read"}
      BY <1>0, <1>1 DEF NothingToDo, FocusMonitor, Resize, OpenOrCloseTab, Cooled, Titled, vars, Terminals, Goes, Unasked
  <2> QED BY <1>i, <2>2, <2>3
<1>2. CASE Shed
  <2>1. strip'.ready = FALSE /\ term' = term /\ placed' = placed
      BY <1>0, <1>2 DEF Shed, Strip
  <2>2. UpToDate(State)' /\ RectInv' /\ TabsInv'
      BY <1>0, <1>s, <2>1, UpToDateIs DEF Alive, RectInv, TabsInv
  <2> QED BY <2>2 DEF InPlace
<1>3. CASE Read
  <2>0. /\ pc' = "act" /\ term' = term /\ placed' = placed /\ focus' = focus
      BY <1>3 DEF Read, Goes
  <2>1. CASE strip.ready /\ link.wire # <<>>
    <3>1. PICK n \in DOMAIN link.wire : Becomes(Dispatched(State, n))
        BY <1>3, <2>1 DEF Read
    <3>2. n \in 0..Len(State.link.wire)
      <4>1. link.wire \in Seq(Event)
          BY <1>0 DEF Link
      <4> QED BY <4>1, StateIs
    <3> DEFINE t == Dispatched(State, n)
    <3>3. Sits(State, strip.rect, link.config, Up)
        BY <1>0, SitsNow
    <3>4. t \in States /\ Sits(t, strip.rect, link.config, Up) /\ UpToDate(t) /\ (Alive(t) => Alive(State))
        BY <1>0, <3>2, <3>3, DispatchedKeepsAll
    <3> HIDE DEF t
    <3>5. State' = t
        BY <3>1, <3>4, BecomesIs DEF t
    <3> QED BY <1>i, <2>0, <3>4, <3>5
  <2>2. CASE ~(strip.ready /\ link.wire # <<>>)
    <3>1. link' = link /\ strip' = strip
        BY <1>3, <2>2 DEF Read
    <3>2. UpToDate(State') /\ Sits(State', strip.rect, link.config, Up) /\ (Alive(State') => Alive(State))
        BY <3>1, IdleFollows
    <3> QED BY <1>i, <2>0, <3>2
  <2> QED BY <2>1, <2>2
<1>4. CASE Show \/ Reload
  <2>1. Placed(State) /\ focus' = focus
      BY <1>4 DEF Show, Reload
  <2> QED BY <1>0, <2>1, PlacedRect DEF InPlace
<1>5. CASE Hide
  <2>1. Becomes(Hidden(State)) /\ term'.shown = FALSE
      BY <1>0, <1>5 DEF Hide, Terminals
  <2> DEFINE t == Hidden(State)
  <2>2. /\ t \in States /\ UpToDate(t)
        /\ Alive(t) => t.strip.rect = None /\ t.link.phase \notin Active
      BY <1>0, HiddenSits
  <2> HIDE DEF t
  <2>3. State' = t
      BY <2>1, <2>2, BecomesIs DEF t
  <2>4. UpToDate(State)'
      BY <2>2, <2>3
  <2>5. strip'.ready /\ link'.error = "none" => strip'.rect = None /\ link'.phase \notin Active
      BY <1>s, <2>2, <2>3 DEF Alive
  <2>6. RectInv' /\ TabsInv'
      BY <2>1, <2>5 DEF RectInv, TabsInv, Active
  <2> QED BY <2>4, <2>6 DEF InPlace
<1>6. CASE Sample
    BY <1>0, <1>6, SampledRect DEF InPlace
<1>7. CASE Paint
  <2>0. /\ pc = "paint" /\ term' = term /\ placed' = placed /\ focus' = focus
      BY <1>7 DEF Paint, Goes
  <2>1. CASE strip.ready /\ strip.dirty
    <3>1. UpToDate(State') /\ Sits(State', strip.rect, link.config, Up) /\ (Alive(State') => Alive(State))
        BY <1>7, <2>1, PaintFollows
    <3> QED BY <1>i, <2>0, <3>1
  <2>2. CASE ~(strip.ready /\ strip.dirty)
    <3>1. link' = link /\ strip' = strip
        BY <1>7, <2>2 DEF Paint
    <3>2. UpToDate(State') /\ Sits(State', strip.rect, link.config, Up) /\ (Alive(State') => Alive(State))
        BY <3>1, IdleFollows
    <3> QED BY <1>i, <2>0, <3>2
  <2> QED BY <2>1, <2>2
<1>8. CASE ReleaseBuffer \/ Reconfigure \/ CloseSurface
  <2>0. /\ strip.ready /\ link.error = "none" /\ UNCHANGED <<term, placed, focus, strip, pc>>
      BY <1>8 DEF ReleaseBuffer, Reconfigure, CloseSurface, Compositor
  <2>a. /\ link.asked \in Nat /\ link.held \subseteq Nat
      BY <1>0 DEF Link
  <2>1. \E e \in Event :
            /\ link'.wire = Append(link.wire, e)
            /\ link'.error = link.error /\ link'.on = link.on /\ link'.asked = link.asked
            /\ link'.attached = link.attached /\ link'.configured = link.configured /\ link'.width = link.width
            /\ link'.made_on = link.made_on /\ link'.config = link.config /\ link'.buffers = link.buffers
            /\ \/ link'.phase = link.phase
               \/ link'.phase = "closed" /\ e.event = "closed"
            /\ e.event = "configure" => e.w = link.asked
    <3>1. CASE ReleaseBuffer
      <4>1. PICK b \in link.held \ {link.attached} :
                link' = [link EXCEPT !.held = @ \ {b}, !.wire = Append(@, Release(b))]
          BY <3>1 DEF ReleaseBuffer
      <4>2. Release(b) \in Event /\ Release(b).event = "release"
          BY <2>a, EventTypes
      <4> QED BY <1>0, <4>1, <4>2 DEF Link
    <3>2. CASE Reconfigure
      <4>1. link' = [link EXCEPT !.wire = Append(@, Configure(link.asked))]
          BY <3>2 DEF Reconfigure
      <4>2. Configure(link.asked) \in Event /\ Configure(link.asked).w = link.asked
          BY <2>a, EventTypes
      <4> QED BY <1>0, <4>1, <4>2 DEF Link
    <3>3. CASE CloseSurface
      <4>1. link' = [link EXCEPT !.phase = "closed", !.wire = Append(@, Closed)]
          BY <3>3 DEF CloseSurface
      <4>2. Closed \in Event /\ Closed.event = "closed"
          BY EventTypes
      <4> QED BY <1>0, <4>1, <4>2 DEF Link
    <3> QED BY <1>8, <3>1, <3>2, <3>3
  <2>2. UpToDate(State') /\ Sits(State', strip.rect, link.config, Up) /\ (Alive(State') => Alive(State))
      BY <2>0, <2>1, SentFollows
  <2> QED BY <1>i, <2>0, <2>2
<1> QED BY <1>1, <1>2, <1>3, <1>4, <1>5, <1>6, <1>7, <1>8 DEF Next, Loop

LEMMA InPlaceFits ==
    ASSUME Typed, InPlace
    PROVE  StripFits
<1> SUFFICES ASSUME pc = "read", link.error = "none", strip.ready, link.wire = <<>>, ~strip.dirty, ~term.moved
             PROVE  IF term.shown /\ term.tabs >= 2 THEN OnScreen(Due) ELSE link.phase # "mapped"
    BY DEF StripFits
<1>0. link \in Link
    BY StateIs DEF Typed, Sound, Safe, States
<1>1. Surface(link, FALSE)
  <2>1. Alive(State)
      BY StateIs DEF Alive
  <2>2. Surface(link, strip.dirty)
      BY <2>1, StateIs, UpToDateIs DEF InPlace
  <2> QED BY <2>2 DEF Surface
<1>2. Configures(link) = {} /\ DOMAIN link.wire = {}
    BY NoConfigures
<1>3. strip.rect # None <=> term.shown /\ term.tabs >= 2
    BY DEF InPlace, RectInv, TabsInv
<1>4. CASE strip.rect = None
    BY <1>3, <1>4 DEF InPlace, RectInv, Active
<1>5. CASE strip.rect # None
  <2>0. /\ link.phase # "created" /\ strip.rect.x = term.geom.x /\ strip.rect.w = term.geom.w
        /\ ~({"focus", "stall"} \subseteq env) => strip.rect = Wanted
        /\ strip.rect.w = link.config.w
        /\ strip.rect.x = Left(link.config.out) + link.config.left
        /\ strip.rect.y = Top(link.config.out) + link.config.top
      BY <1>5 DEF InPlace, RectInv
  <2>1. Due.x = strip.rect.x /\ Due.w = strip.rect.w /\ Due.y = strip.rect.y
    <3>1. CASE {"focus", "stall"} \subseteq env
        BY <2>0, <3>1 DEF Due, Wanted
    <3>2. CASE ~({"focus", "stall"} \subseteq env)
        BY <2>0, <3>2 DEF Due
    <3> QED BY <3>1, <3>2
  <2>2. link.phase = "mapped"
      BY <1>0, <1>1, <1>2, <2>0 DEF Surface, Link
  <2>3. link.asked = link.config.w /\ link.width = link.asked
      BY <1>1, <1>2, <2>2, ActivePhases DEF Surface, Tells
  <2>4. \E i \in DOMAIN link.buffers : link.buffers[i].id = link.attached /\ link.buffers[i].w = link.width
      BY <1>1, <1>2, <2>2 DEF Surface
  <2>5. OnScreen(Due)
      BY <2>0, <2>1, <2>2, <2>3, <2>4 DEF OnScreen
  <2> QED BY <1>3, <1>5, <2>5
<1> QED BY <1>4, <1>5

\* place_visible, show_strip and sync_strip_to_window: once a turn of the loop is over the strip is on
\* the screen where its terminal is, as wide as the terminal and painted, and without a second tab, or
\* with the terminal hidden, there is none; whatever was toggled, resized, reloaded or told late.
THEOREM StripIsOnItsTerminal == Spec => []StripFits
<1>1. Init => InPlace
    BY InPlaceInit
<1>2. Typed /\ InPlace /\ [Next]_vars => InPlace'
    BY InPlaceStep
<1>3. Typed /\ InPlace => StripFits
    BY InPlaceFits
<1> QED BY <1>1, <1>2, <1>3, TypedAlways, PTL DEF Spec
=============================================================================
