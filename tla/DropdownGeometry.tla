-------------------------- MODULE DropdownGeometry --------------------------
(***************************************************************************)
(* The dropdown's placement policy, a function of the monitor and the      *)
(* configuration; what a manual resize teaches it; and the tabs of its     *)
(* strip.                                                                  *)
(***************************************************************************)
EXTENDS Integers

CONSTANTS
    Band,          \* TabStrip::kHeight
    MinTab,        \* kMinTabWidth
    Epsilon,       \* kResizeEpsilonPx
    None           \* nothing learned, no override, no tab

ASSUME GeometryAssumption ==
    /\ Band \in Nat \ {0} /\ MinTab \in Nat \ {0} /\ Epsilon \in Nat \ {0}
    /\ None \notin Nat /\ None \notin [w : Int, h : Int]

Edges == {"top", "bottom", "left", "right"}
Size == [w : Nat \ {0}, h : Nat \ {0}]
Monitor == [x : Int, y : Int, w : Int, h : Int, top : Nat, bottom : Nat]
Policy == [edge : Edges, width : Int, height : Int, override : Size \cup {None}]

AtLeast1(n) == IF n < 1 THEN 1 ELSE n
Within(n, hi) == IF n < 1 THEN 1 ELSE IF n > hi THEN hi ELSE n
Difference(a, b) == IF a < b THEN b - a ELSE a - b

PercentOf(total, percent) == AtLeast1((total * Within(percent, 100)) \div 100)

Usable(m) ==
    [x |-> m.x, y |-> m.y + m.top, w |-> AtLeast1(m.w), h |-> AtLeast1(m.h - m.top - m.bottom)]

SizeOn(u, c) ==
    IF c.override = None THEN [w |-> PercentOf(u.w, c.width), h |-> PercentOf(u.h, c.height)]
    ELSE [w |-> Within(c.override.w, u.w), h |-> Within(c.override.h, u.h)]

\* The edge pins one axis, the other is centred.
PlacedAt(u, s, edge) ==
    [x |-> CASE edge = "left" -> u.x [] edge = "right" -> u.x + u.w - s.w
             [] OTHER -> u.x + ((u.w - s.w) \div 2),
     y |-> CASE edge = "top" -> u.y [] edge = "bottom" -> u.y + u.h - s.h
             [] OTHER -> u.y + ((u.h - s.h) \div 2),
     w |-> s.w, h |-> s.h]

ComputeGeometry(m, c) == PlacedAt(Usable(m), SizeOn(Usable(m), c), c.edge)

\* place_visible: the strip takes the top of the terminal.
Terminal(base, strip) ==
    IF strip THEN [base EXCEPT !.y = @ + Band, !.h = AtLeast1(@ - Band)] ELSE base

\* learn_resize, of a window that floats
LearnResize(placed, seen, band) ==
    IF Difference(seen.w, placed.w) < Epsilon /\ Difference(seen.h, placed.h) < Epsilon THEN None
    ELSE [w |-> seen.w, h |-> seen.h + band]

\* TabStrip::layout and hit_test: the tabs 1..n, each from the end of the one before.
TabWidth(n, total) == IF total \div n < MinTab THEN MinTab ELSE total \div n
Hit(i, x, n, total) == (i - 1) * TabWidth(n, total) <= x /\ x < i * TabWidth(n, total)
=============================================================================
