---------------------------- MODULE StripSurface ----------------------------
(***************************************************************************)
(* The dropdown's tab strip: the daemon's second connection, a WaylandCore *)
(* with one layer surface, its buffers and its configures, and the code    *)
(* that keeps the strip on the terminal: place_visible, show_strip,        *)
(* hide_strip, sync_strip_to_window, render_strip and shed_wayland.        *)
(*                                                                         *)
(* Requests reach the compositor at once; its events come later, in order. *)
(* DropdownDaemon has the slot's states and the requests that fail.  That  *)
(* there is no memory for a buffer is left out: acquire_buffer then gives  *)
(* none, and the strip is not painted until something else asks for it.    *)
(***************************************************************************)
EXTENDS DropdownGeometry, Sequences, FiniteSets, SequencesExt

CONSTANTS
    Outputs, Monitors,   \* the monitors and their Monitor records
    Percent,             \* the configured Policy, without an override
    Shapes,              \* the rectangles the user gives the terminal with the mouse
    MaxOps,              \* bound on what the user and the compositor do unasked
    MaxWire,             \* bound on the events under way when they do
    Environments         \* what may happen: see Ops

Ops == {"focus", "reload", "resize", "tabs", "title", "close", "reconfigure", "stall"}

ASSUME StripAssumption ==
    /\ Environments \subseteq SUBSET Ops /\ MaxOps \in Nat /\ MaxWire \in Nat
    /\ Monitors \in [Outputs -> Monitor] /\ Percent \in Policy /\ None \notin Outputs
    /\ \A g \in Shapes : g.x \in Int /\ g.y \in Int /\ [w |-> g.w, h |-> g.h] \in Size
    /\ None \notin [x : Int, y : Int, w : Int]

VARIABLES
    env,      \* chosen once: which of Ops may happen
    ops,      \* counts what happened unasked
    term,     \* the terminal: shown, its rectangle, its tabs; moved since sampled
    placed,   \* placed_size, placed_strip_band, placed_tab_count
    focus,    \* the monitor with the focus
    size,     \* config.size_override
    link,     \* the connection: see Connected
    strip,    \* the daemon's strip_ready, strip_rect, strip_needs_render, whether it is not
              \* yet to try again; history: it painted what the compositor may read
    pc        \* the loop: "read", "act", "sample", "paint"

vars == <<env, ops, term, placed, focus, size, link, strip, pc>>

\* Of the link, the compositor's end: `phase' of the layer surface, the monitor it is `on',
\* the width it was last `asked' for, what is `attached', the buffers it may read (`held'),
\* the events it has sent (`wire'), and a protocol `error'.  The client's end: configured_,
\* pending_width_, layer_output_name_ (`made_on'), layer_config_, whether the names of the
\* outputs have been told (`known'), buffers_.

\* Configures that were sent before the surface was reset are late.
Configure(w) == [event |-> "configure", w |-> w, late |-> FALSE]
Names == [event |-> "names"]
Release(b) == [event |-> "release", id |-> b]
Closed == [event |-> "closed"]

-----------------------------------------------------------------------------
(* The compositor's answers to requests *)

Failed(l, why) == [l EXCEPT !.error = why, !.wire = <<>>]

\* WaylandCore::init: the outputs are bound in its only round trip, and what they tell of
\* themselves is read after it.  The first surface spans the output the compositor picks.
Connected(out) ==
    [error |-> "none", phase |-> "initial", on |-> out, asked |-> 0,
     attached |-> None, held |-> {}, wire |-> <<Names, Configure(0)>>,
     configured |-> FALSE, width |-> 0, made_on |-> None,
     config |-> [w |-> 0, out |-> None, left |-> 0, top |-> 0], known |-> FALSE, buffers |-> <<>>]

\* wl_surface.commit without a buffer: the first is answered by a configure, and so is one
\* that asks for another size.
Committed(l) ==
    IF l.error # "none" \/ l.phase = "closed" \/ (l.phase # "created" /\ l.asked = l.config.w) THEN l
    ELSE [l EXCEPT !.asked = l.config.w, !.phase = IF @ = "created" THEN "initial" ELSE @,
                   !.wire = Append(@, Configure(l.config.w))]

\* The entries of s that are in A, in their order.
Among(s, A) ==
    LET upto[i \in 0..Len(s)] ==
            IF i = 0 THEN <<>> ELSE IF s[i] \in A THEN Append(upto[i - 1], s[i]) ELSE upto[i - 1]
    IN  upto[Len(s)]

\* The old layer surface is destroyed, and what is told of it is told to nobody; a surface
\* with a buffer cannot be given a role again.
GotLayerSurface(l, out) ==
    IF l.error # "none" THEN l
    ELSE IF l.attached # None THEN Failed(l, "constructed")
    ELSE [l EXCEPT !.phase = "created", !.on = out,
                   !.wire = Among(@, {e \in Range(@) : e.event \notin {"configure", "closed"}})]

\* A surface takes a buffer once its configure is acknowledged.  The compositor may go on
\* reading the one before, but no older one.
Attached(l, b) ==
    LET old == l.held \ {l.attached, b}
    IN  IF l.error # "none" \/ l.phase = "closed" THEN l
        ELSE IF l.phase \notin {"ready", "mapped"} THEN Failed(l, "unready")
        ELSE [l EXCEPT !.phase = "mapped", !.attached = b,
                       !.held = {b} \cup ({l.attached} \ {None}),
                       !.wire = IF old = {} THEN @ ELSE Append(@, Release(CHOOSE o \in old : TRUE))]

-----------------------------------------------------------------------------
(* WaylandCore *)

\* unmap_surface: a null buffer resets the surface.
Unmapped(l) ==
    LET k == [l EXCEPT !.configured = FALSE]
    IN  IF l.error # "none" THEN k
        ELSE [k EXCEPT !.attached = None, !.phase = "created",
                       !.wire = [i \in DOMAIN @ |-> IF @[i].event = "configure"
                                                    THEN [@[i] EXCEPT !.late = TRUE] ELSE @[i]]]

\* create_layer_surface: while no name is known, the compositor picks the output.
CreatedLayerSurface(l, pick) ==
    [GotLayerSurface(l, IF l.known THEN l.config.out ELSE pick)
        EXCEPT !.configured = FALSE, !.made_on = l.config.out]

\* remap_surface
Remapped(l, pick) ==
    Committed(IF l.config.out # l.made_on THEN CreatedLayerSurface(l, pick) ELSE l)

\* A bug: busy is not looked at.
FitsAnyway(l, i) == l.buffers[i].w = l.width

\* The old bug: a buffer of another size will do.
AnySize(l, i) == ~l.buffers[i].busy

\* A buffer to be used again.
Fits(l, i) == ~l.buffers[i].busy /\ l.buffers[i].w = l.width

\* acquire_buffer: the first that fits, and those passed on the way to it that are free go.
Acquired(l) ==
    LET fit  == {i \in DOMAIN l.buffers : Fits(l, i)}
        kept(n) == Among(SubSeq(l.buffers, 1, n), {b \in Range(l.buffers) : b.busy})
        ids  == {l.buffers[i].id : i \in DOMAIN l.buffers}
        new  == [id |-> CHOOSE n \in 1..(Len(l.buffers) + 1) : n \notin ids, w |-> l.width, busy |-> TRUE]
    IN  IF fit = {} THEN <<Append(kept(Len(l.buffers)), new), new>>
        ELSE LET i == Min(fit)
                 b == [l.buffers[i] EXCEPT !.busy = TRUE]
             IN  <<kept(i - 1) \o <<b>> \o SubSeq(l.buffers, i + 1, Len(l.buffers)), b>>

\* A bug: a configure does not ask for a new picture.
ToldInSilence(s, e) ==
    CASE e.event = "configure" ->
            [s EXCEPT !.link.width = IF e.w > 0 THEN e.w ELSE @, !.link.configured = TRUE,
                      !.link.phase = IF @ = "initial" /\ ~e.late THEN "ready" ELSE @]
      [] e.event = "names" -> [s EXCEPT !.link.known = TRUE]
      [] e.event = "release" ->
            [s EXCEPT !.link.buffers =
                [i \in DOMAIN @ |-> IF @[i].id = e.id THEN [@[i] EXCEPT !.busy = FALSE] ELSE @[i]]]
      [] OTHER -> [s EXCEPT !.strip.ready = FALSE, !.strip.rect = None]

\* The listeners.  A late configure is believed all the same, and acknowledged in vain.
Told(s, e) ==
    CASE e.event = "configure" ->
            [s EXCEPT !.link.width = IF e.w > 0 THEN e.w ELSE @, !.link.configured = TRUE,
                      !.link.phase = IF @ = "initial" /\ ~e.late THEN "ready" ELSE @,
                      !.strip.dirty = TRUE]
      [] e.event = "names" -> [s EXCEPT !.link.known = TRUE]
      [] e.event = "release" ->
            [s EXCEPT !.link.buffers =
                [i \in DOMAIN @ |-> IF @[i].id = e.id THEN [@[i] EXCEPT !.busy = FALSE] ELSE @[i]]]
      [] OTHER -> [s EXCEPT !.strip.ready = FALSE, !.strip.rect = None]

\* The first event is dispatched, or the first n.
Delivered(s) == Told([s EXCEPT !.link.wire = Tail(@)], Head(s.link.wire))

Dispatched(s, n) ==
    LET upto[i \in 0..n] == IF i = 0 THEN s ELSE Delivered(upto[i - 1])
    IN  upto[n]

-----------------------------------------------------------------------------
(* The daemon's handlers, as what they make of the link and the strip *)

State == [link |-> link, strip |-> strip]

\* render_strip: collect_tabs, paint, submit.
Rendered(s, visible) ==
    IF ~(s.strip.ready /\ s.link.configured /\ visible) THEN s
    ELSE LET a == Acquired(s.link)
         IN  [s EXCEPT !.link = Attached([s.link EXCEPT !.buffers = a[1]], a[2].id),
                       !.strip.torn = @ \/ a[2].id \in s.link.held]

Hidden(s) ==
    [s EXCEPT !.strip.rect = None, !.link = IF s.strip.ready THEN Unmapped(@) ELSE @]

\* ensure_strip: a connection that was closed is replaced.
Ensured(s, pick) ==
    IF s.strip.ready THEN s
    ELSE [link |-> Connected(pick), strip |-> [s.strip EXCEPT !.ready = TRUE]]

Becomes(s) == link' = s.link /\ strip' = s.strip

CanHaveStrip == strip.ready \/ ~strip.cooling

Top(out) == Usable(Monitors[out]).y
Left(out) == Usable(Monitors[out]).x

\* show_strip: the margins count from the working area of the monitor; the round trip
\* brings every answer, or its deadline passes.
ShownStrip(s, rect, pick) ==
    LET layer == [w |-> rect.w, out |-> focus, left |-> rect.x - Left(focus), top |-> rect.y - Top(focus)]
        asked == [s EXCEPT !.link = Remapped([@ EXCEPT !.config = layer], pick), !.strip.rect = rect]
        n     == Len(asked.link.wire)
    IN  {Rendered([Dispatched(asked, k) EXCEPT !.strip.dirty = TRUE], TRUE) :
            k \in IF "stall" \in env THEN {0, n} ELSE {n}}

\* place_visible: the terminal goes to the monitor with the focus, in the size it should
\* have, and the strip comes with the second tab.
Placed(s) ==
    LET base  == ComputeGeometry(Monitors[focus], [Percent EXCEPT !.override = size])
        band  == term.tabs >= 2 /\ CanHaveStrip
        geom  == Terminal(base, band)
    IN  /\ term' = [term EXCEPT !.shown = TRUE, !.geom = geom]
        /\ placed' = [size |-> [w |-> geom.w, h |-> geom.h], tabs |-> term.tabs,
                      band |-> IF band THEN Band ELSE 0]
        /\ IF band
           THEN \E pick \in Outputs :
                \E t \in ShownStrip(Ensured(s, pick), [x |-> base.x, y |-> base.y, w |-> geom.w], pick) :
                    Becomes(t)
           ELSE Becomes(Hidden(s))

Init ==
    /\ env \in Environments /\ ops = 0 /\ focus \in Outputs /\ size = None
    /\ \E g \in Shapes : term = [shown |-> FALSE, geom |-> g, tabs |-> 1, moved |-> FALSE]
    /\ placed = [size |-> None, tabs |-> 0, band |-> 0]
    /\ link = Connected(focus)
    /\ strip = [ready |-> FALSE, rect |-> None, dirty |-> FALSE, cooling |-> FALSE, torn |-> FALSE]
    /\ pc = "read"

-----------------------------------------------------------------------------
(* The loop *)

Goes(from, to) == pc = from /\ pc' = to /\ UNCHANGED env

\* shed_wayland, at the top of a turn
Shed ==
    /\ Goes("read", "act") /\ strip.ready /\ link.error # "none"
    /\ strip' = [strip EXCEPT !.ready = FALSE, !.dirty = FALSE, !.rect = None, !.cooling = TRUE]
    /\ UNCHANGED <<ops, term, placed, focus, size, link>>

Read ==
    /\ Goes("read", "act") /\ ~(strip.ready /\ link.error # "none")
    /\ IF strip.ready /\ link.wire # <<>>
       THEN \E n \in DOMAIN link.wire : Becomes(Dispatched(State, n))
       ELSE UNCHANGED <<link, strip>>
    /\ UNCHANGED <<ops, term, placed, focus, size>>

Unasked(kind) == kind \in env /\ ops < MaxOps /\ ops' = ops + 1

\* on_toggle of a hidden terminal
Show ==
    /\ Goes("act", "sample") /\ ~term.shown /\ ops < MaxOps /\ ops' = ops + 1
    /\ Placed(State)
    /\ UNCHANGED <<focus, size>>

\* park_hidden with note_resize, and hide_strip
Hide ==
    /\ Goes("act", "sample") /\ term.shown /\ ops < MaxOps /\ ops' = ops + 1
    /\ LET learned == LearnResize(placed.size, term.geom, placed.band)
       IN  IF learned = None THEN UNCHANGED <<size, placed>>
           ELSE /\ size' = learned
                /\ placed' = [placed EXCEPT !.size = [w |-> term.geom.w, h |-> term.geom.h]]
    /\ term' = [term EXCEPT !.shown = FALSE, !.moved = FALSE]
    /\ Becomes(Hidden(State))
    /\ UNCHANGED focus

\* reload_config with the terminal shown
Reload ==
    /\ Goes("act", "sample") /\ term.shown /\ Unasked("reload")
    /\ Placed(State)
    /\ UNCHANGED <<focus, size>>

\* An event that may change a title or the active tab.
Titled ==
    /\ Goes("act", "sample") /\ Unasked("title")
    /\ strip' = [strip EXCEPT !.dirty = @ \/ strip.ready]
    /\ UNCHANGED <<term, placed, focus, size, link>>

NothingToDo == Goes("act", "sample") /\ UNCHANGED <<ops, term, placed, focus, size, link, strip>>

\* sync_strip_to_window: the band above the terminal, but not above the working area
Wanted ==
    [x |-> term.geom.x, w |-> term.geom.w,
     y |-> IF term.geom.y - Band < Top(link.config.out) THEN Top(link.config.out) ELSE term.geom.y - Band]

Sample ==
    /\ Goes("sample", "paint") /\ UNCHANGED <<ops, focus, size>>
    /\ IF ~term.shown THEN UNCHANGED <<term, placed, link, strip>>
       ELSE IF (term.tabs >= 2) # (placed.tabs >= 2) THEN Placed(State)
       ELSE /\ term' = [term EXCEPT !.moved = FALSE] /\ UNCHANGED placed
            /\ IF ~strip.ready \/ strip.rect = None \/ strip.rect = Wanted THEN UNCHANGED <<link, strip>>
               ELSE \E pick \in Outputs : \E s \in ShownStrip(State, Wanted, pick) : Becomes(s)

Paint ==
    /\ Goes("paint", "read")
    /\ IF strip.ready /\ strip.dirty
       THEN Becomes(Rendered([State EXCEPT !.strip.dirty = FALSE], term.shown))
       ELSE UNCHANGED <<link, strip>>
    /\ UNCHANGED <<ops, term, placed, focus, size>>

-----------------------------------------------------------------------------
(* The user, the clock and the compositor *)

FocusMonitor ==
    /\ Unasked("focus") /\ focus' \in Outputs
    /\ UNCHANGED <<env, term, placed, size, link, strip, pc>>

\* Resized or dragged with the mouse.
Resize ==
    /\ Unasked("resize") /\ term.shown
    /\ \E g \in Shapes : term' = [term EXCEPT !.geom = g, !.moved = TRUE]
    /\ UNCHANGED <<env, placed, focus, size, link, strip, pc>>

OpenOrCloseTab ==
    /\ Unasked("tabs") /\ term.shown
    /\ \E n \in 1..2 : term' = [term EXCEPT !.tabs = n, !.moved = TRUE]
    /\ UNCHANGED <<env, placed, focus, size, link, strip, pc>>

Cooled ==
    /\ strip.cooling /\ strip' = [strip EXCEPT !.cooling = FALSE]
    /\ UNCHANGED <<env, ops, term, placed, focus, size, link, pc>>

Compositor == strip.ready /\ link.error = "none" /\ UNCHANGED <<env, term, placed, focus, size, strip, pc>>

ReleaseBuffer ==
    /\ Compositor /\ UNCHANGED ops
    /\ \E b \in link.held \ {link.attached} :
        link' = [link EXCEPT !.held = @ \ {b}, !.wire = Append(@, Release(b))]

\* A monitor changes, and with it what surfaces are told.
Reconfigure ==
    /\ Compositor /\ Unasked("reconfigure") /\ Len(link.wire) < MaxWire
    /\ link.phase \in {"initial", "ready", "mapped"}
    /\ link' = [link EXCEPT !.wire = Append(@, Configure(link.asked))]

CloseSurface ==
    /\ Compositor /\ Unasked("close") /\ link.phase # "closed"
    /\ link' = [link EXCEPT !.phase = "closed", !.wire = Append(@, Closed)]

Loop == Shed \/ Read \/ Show \/ Hide \/ Reload \/ Titled \/ NothingToDo \/ Sample \/ Paint

Next ==
    \/ Loop
    \/ FocusMonitor \/ Resize \/ OpenOrCloseTab \/ Cooled
    \/ ReleaseBuffer \/ Reconfigure \/ CloseSurface

Spec == Init /\ [][Next]_vars

\* The loop has a deadline for every wait, so it always goes on: each of its steps, and no
\* other, is a step of pc.
Phases == {"read", "act", "sample", "paint"}
FairSpec == Spec /\ WF_pc(pc' \in Phases)

-----------------------------------------------------------------------------
(* What must hold *)

\* Where the compositor puts a surface: its margins count from the working area of its monitor.
OnScreen(rect) ==
    /\ link.phase = "mapped"
    /\ \E i \in DOMAIN link.buffers : link.buffers[i].id = link.attached /\ link.buffers[i].w = rect.w
    /\ link.on = link.config.out =>
        /\ rect.x = Left(link.on) + link.config.left /\ rect.y = Top(link.on) + link.config.top

\* Where the strip should be.  If the focus goes to another monitor while a configure is late, it
\* is clamped below the bar of the one and anchored to the other, until it is looked at again.
Due == IF {"focus", "stall"} \subseteq env THEN [Wanted EXCEPT !.y = strip.rect.y] ELSE Wanted

\* dropdown_main.cpp 429: the strip must not stay `frozen at its placement-time width' or
\* hang off the terminal: when a turn ends with nothing left to read or paint and the
\* terminal has not moved in it, the strip is on the screen above its terminal and as wide,
\* and a hidden terminal has none.  (Of a surface made before the outputs had told their
\* names, which may be on another monitor, only the width is right.)
StripFits ==
    pc = "read" /\ link.error = "none" /\ strip.ready /\ link.wire = <<>> /\ ~strip.dirty /\ ~term.moved =>
        IF term.shown /\ term.tabs >= 2 THEN OnScreen(Due) ELSE link.phase # "mapped"

\* wayland_core.cpp 469: after an unmap no buffer may be attached `until the remap_surface()
\* handshake has produced a fresh configure'.  It may where a configure the compositor sent
\* on its own crosses the unmap of the last tab but one, or where a configure is read after
\* the round trip of show_strip has run into its deadline.  And (acquire_buffer) what the
\* compositor may still read is never painted, in any case.
PaintsWhatItMay ==
    /\ env \cap {"stall", "reconfigure"} = {} => link.error # "unready"
    /\ ~strip.torn

\* wayland_core.cpp, create_layer_surface: rebuilding is `legal here because the wl_surface
\* carries no buffer at this point'.  It does not hold: a reload, or a window that is dragged,
\* while the focus is on another monitor rebuilds it under the mapped strip.
RebuiltUnmapped == link.error # "constructed"

\* The strip gets onto the screen once its terminal is left alone, whatever configures,
\* releases and missed deadlines came before.
StripAppears ==
    <>[](term.shown /\ term.tabs >= 2 /\ strip.ready /\ link.phase # "closed" => OnScreen(Wanted))
=============================================================================
