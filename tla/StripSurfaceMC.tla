--------------------------- MODULE StripSurfaceMC ---------------------------
(* A wide monitor with a bar, and a small one right of it.  The user makes the *)
(* terminal narrower, drags it under the bar, or moves it by less than counts  *)
(* as a resize.                                                                *)
EXTENDS StripSurface
CONSTANTS o1, o2
MCMonitors ==
    (o1 :> [x |-> 0, y |-> 0, w |-> 20, h |-> 20, top |-> 2, bottom |-> 0])
    @@ (o2 :> [x |-> 20, y |-> 0, w |-> 10, h |-> 10, top |-> 0, bottom |-> 1])
MCPercent == [edge |-> "top", width |-> 80, height |-> 50, override |-> None]
MCShapes == {[x |-> 2, y |-> 5, w |-> 6, h |-> 7], [x |-> 3, y |-> 2, w |-> 15, h |-> 7]}
MCEnvironments ==
    {{"tabs", "resize", "title"}, {"tabs", "resize", "stall"}, {"tabs", "stall", "reconfigure"},
     {"tabs", "reload", "close"}, {"tabs", "focus", "reload"}, {"tabs", "focus", "resize"},
     {"tabs", "focus", "resize", "stall"}}
=============================================================================
