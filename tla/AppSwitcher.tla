----------------------------- MODULE AppSwitcher -----------------------------
(***************************************************************************)
(* The resident Alt+Tab overlay (waylaunch --switch): the poll loop of     *)
(* LauncherUI::run with AppSwitcherManager, SwitcherInputController and    *)
(* its state machine, WlrForeignToplevelBackend and the part of            *)
(* WaylandCore that maps and unmaps the layer surface.                     *)
(*                                                                         *)
(* The compositor and the client share a socket (wire); a second           *)
(* `waylaunch --switch' only signals the first (forward, reverse).         *)
(* last_focused_time is the order of `groups', most recent first.  SIGTERM *)
(* and SIGINT, which only end the process, are left out.                   *)
(***************************************************************************)
EXTENDS Naturals, Sequences, SequencesExt

CONSTANTS
    Wins,          \* windows that may be opened
    AppOf,         \* the application of each window
    Initially,     \* the windows open when the overlay starts, the first one focused
    Noone,         \* no window
    Unknown,       \* the group of windows that have not told their application
    MaxSteps       \* bound on what the user and other programs do

ASSUME AppSwitcherAssumption ==
    /\ Initially \in Seq(Wins) /\ Initially # <<>> /\ IsInjective(Initially)
    /\ Noone \notin Wins /\ MaxSteps \in Nat
    /\ \A v, w \in Wins : AppOf[v] # w      \* the key of a window begins with \x01

VARIABLES
    byApp,                  \* [app_switcher] group_by_app
    open, focus, recent,    \* compositor: windows, the focused one, groups as they were focused
    surf,                   \* compositor: the layer surface, "reset", "initialized" or "mapped"
    alt, wire, asked,       \* Alt is held; events on their way; the window to activate
    left,                   \* steps left to the user and other programs
    forward, reverse,       \* eventfds of SIGUSR1 and SIGUSR2
    pc, sampled, batch,     \* the loop; what poll reported; events to dispatch
    cache,                  \* window_cache_
    groups, selected, visible,     \* AppSwitcherManager
    active, modWasHeld,     \* SwitcherInputController
    depressed,              \* WaylandCore's keyboard state: Alt
    configured,             \* WaylandCore::configured_
    shown, goDormant,       \* LauncherUI: switcher_shown_, switcher_go_dormant_
    raced,                  \* history: shown again before the last showing was unmapped
    late                    \* history: shown by a Tab that was dispatched after the unmapping

world == <<open, focus, recent, alt, asked, left>>
signals == <<forward, reverse>>
loop == <<pc, sampled, batch>>
manager == <<groups, selected, visible, shown, goDormant>>
input == <<active, modWasHeld, depressed>>
past == <<raced, late>>
vars == <<byApp, world, surf, wire, signals, loop, cache, manager, input, configured, past>>

\* What poll reports is good for one turn of the loop.
Unsampled == [forward |-> FALSE, reverse |-> FALSE]

Apps == {AppOf[w] : w \in Wins}
Keys == Wins \cup Apps \cup {Unknown}
KeyOf(e) == IF ~byApp THEN e.win ELSE IF e.named THEN AppOf[e.win] ELSE Unknown
GroupOf(w) == IF byApp THEN AppOf[w] ELSE w
KeyPresses == {"Tab", "Left", "Return", "Escape"}

Toplevel(w) == [event |-> "toplevel", win |-> w]
AppId(w) == [event |-> "app_id", win |-> w]
State(w, on) == [event |-> "state", win |-> w, on |-> on]
Closed(w) == [event |-> "closed", win |-> w]
Mods(held) == [event |-> "modifiers", on |-> held]
Key(k) == [event |-> "key", key |-> k]
Click == [event |-> "click"]
Configure == [event |-> "configure"]
Events == (UNION {{Toplevel(w), AppId(w), State(w, TRUE), State(w, FALSE), Closed(w)} : w \in Wins})
          \cup {Mods(TRUE), Mods(FALSE), Configure, Click} \cup {Key(k) : k \in KeyPresses}

TypeOK ==
    /\ open \subseteq Wins /\ focus \in open \cup {Noone} /\ asked \in Wins \cup {Noone}
    /\ recent \in Seq(Keys) /\ groups \in Seq(Keys) /\ IsInjective(groups)
    /\ surf \in {"reset", "initialized", "mapped"}
    /\ wire \in Seq(Events)
    /\ left \in 0..MaxSteps /\ selected \in Nat /\ batch \in Nat
    /\ pc \in {"start", "poll", "dispatch", "reverse", "render", "sync", "gone"}
    /\ sampled \in [forward : BOOLEAN, reverse : BOOLEAN]
    /\ cache \in Seq([win : Wins, named : BOOLEAN, active : BOOLEAN])
    /\ \A b \in {byApp, alt, forward, reverse, visible, active, modWasHeld, depressed, configured, shown,
                 goDormant, raced, late} : b \in BOOLEAN

-----------------------------------------------------------------------------
(***************************************************************************)
(* AppSwitcherManager.                                                     *)
(***************************************************************************)

\* The entries of s that are in A.
Within(s, A) ==
    LET upTo[i \in 0..Len(s)] ==
            IF i = 0 THEN <<>> ELSE IF s[i] \in A THEN Append(upTo[i - 1], s[i]) ELSE upTo[i - 1]
    IN  upTo[Len(s)]

\* The keys of a window list, each at its first window, and those of its active windows.
KeysIn(c) ==
    LET upTo[i \in 0..Len(c)] ==
            IF i = 0 THEN <<>>
            ELSE IF \E j \in 1..(i - 1) : KeyOf(c[j]) = KeyOf(c[i]) THEN upTo[i - 1]
            ELSE Append(upTo[i - 1], KeyOf(c[i]))
    IN  upTo[Len(c)]
LitIn(c) == {KeyOf(e) : e \in {f \in ToSet(c) : f.active}}

Stays(ks, k) == ks      \* a bug: the time is not set
ToHead(ks, k) == IF Contains(ks, k) THEN <<k>> \o Within(ks, ToSet(ks) \ {k}) ELSE ks

\* rebuild_groups: a group keeps its time, a new one gets the next, and the first group in
\* the window list with an active window gets one after that.
Rebuilt(keys, lit) ==
    LET sorted == Reverse(Within(keys, ToSet(keys) \ ToSet(groups))) \o Within(groups, ToSet(keys))
        first == Within(keys, lit)
    IN  IF first = <<>> THEN sorted ELSE ToHead(sorted, Head(first))

Clamped(n) == IF selected >= n /\ n > 0 THEN n - 1 ELSE selected

\* A bug: an unmapping that is still to be done is forgotten at the next change.
NotifiedLast(now) == visible' = now /\ shown' = now /\ goDormant' = (shown /\ ~now)

\* The change callback: on hiding, the surface is to be unmapped.
Notified(now) ==
    /\ visible' = now
    /\ shown' = now
    /\ goDormant' = (goDormant \/ (shown /\ ~now))

\* on_window_created, on_window_updated, on_window_closed; e is the window, touched if active.
WindowsChanged(c, e) ==
    /\ cache' = c
    /\ \E keys \in {KeysIn(cache')}, lit \in {LitIn(cache')} : \E g \in {Rebuilt(keys, lit)} :
          groups' = IF e.active /\ e.named THEN ToHead(g, AppOf[e.win]) ELSE g
    /\ selected' = Clamped(Len(groups'))
    /\ Notified(visible)

\* SwitcherStateMachine::process_event: ActiveHoldingMod or Hidden; nothing leads to Dismissing.
HoldingAfter(event) ==
    IF active THEN event \notin {"Confirm", "Cancel"} ELSE event \in {"Trigger", "Next"}

\* SwitcherInputController::trigger, and the selection show() makes; far: --reverse.
Trigger(far) ==
    /\ \E keys \in {KeysIn(cache)}, lit \in {LitIn(cache)} : groups' = Rebuilt(keys, lit)
    /\ LET n == Len(groups')
       IN  selected' = IF n > 1 THEN (IF far THEN n - 1 ELSE 1) ELSE 0
    /\ Notified(TRUE)
    /\ active' = HoldingAfter("Trigger") /\ modWasHeld' = FALSE

Select(i) == selected' = i /\ Notified(visible) /\ UNCHANGED <<groups, input>>
Next_ == (selected + 1) % Len(groups)
Previous == (selected + Len(groups) - 1) % Len(groups)

\* AppGroup::primary_handle of the selected group (no window is minimized here).
Primary ==
    LET mine == SelectSeq(cache, LAMBDA e : KeyOf(e) = groups[selected + 1])
        lit == SelectSeq(mine, LAMBDA e : e.active)
    IN  IF lit # <<>> THEN Head(lit).win ELSE Head(mine).win

\* A bug: the state machine is not told.
HideOnly(held) ==
    Notified(FALSE) /\ modWasHeld' = held /\ UNCHANGED <<groups, selected, active>>

\* cancel, and what it has in common with confirm.
Hide(held) ==
    /\ Notified(FALSE) /\ active' = HoldingAfter("Cancel") /\ modWasHeld' = held
    /\ UNCHANGED <<groups, selected>>
Confirm(held) ==
    /\ asked' = IF selected < Len(groups) THEN Primary ELSE asked
    /\ Hide(held)

\* The groups start in the order of the window list, and the focused one comes first.
Init ==
    /\ byApp \in BOOLEAN
    /\ open = ToSet(Initially) /\ focus = Initially[1]
    /\ cache = [i \in 1..Len(Initially) |-> [win |-> Initially[i], named |-> TRUE, active |-> i = 1]]
    /\ groups = ToHead(Reverse(KeysIn(cache)), GroupOf(focus)) /\ recent = <<GroupOf(focus)>>
    /\ selected = 0 /\ visible = FALSE /\ shown = FALSE /\ goDormant = FALSE
    /\ active = FALSE /\ modWasHeld = FALSE /\ depressed = FALSE
    /\ surf = "initialized" /\ configured \in BOOLEAN
    /\ wire = IF configured THEN <<>> ELSE <<Configure>>
    /\ alt = TRUE /\ asked = Noone /\ left = MaxSteps
    /\ forward = FALSE /\ reverse = FALSE
    /\ pc = "start" /\ sampled = Unsampled /\ batch = 0
    /\ raced = FALSE /\ late = FALSE

-----------------------------------------------------------------------------
(***************************************************************************)
(* The compositor, the user, and later invocations.                        *)
(***************************************************************************)

Client == <<loop, cache, manager, input, configured, past, byApp>>
Sent(events) == wire' = wire \o events
Deactivated == IF focus = Noone THEN <<>> ELSE <<State(focus, FALSE)>>

Focus(w) ==
    /\ w \in open /\ w # focus
    /\ focus' = w
    /\ recent' = <<GroupOf(w)>> \o Within(recent, ToSet(recent) \ {GroupOf(w)})
    /\ Sent(Deactivated \o <<State(w, TRUE)>>) \/ Sent(<<State(w, TRUE)>> \o Deactivated)

FocusChanges ==
    /\ left > 0 /\ left' = left - 1
    /\ \E w \in open : Focus(w)
    /\ UNCHANGED <<open, surf, alt, asked, signals, Client>>

\* The request of a confirm.
Activate ==
    /\ asked # Noone /\ asked' = Noone
    /\ IF asked \in open \ {focus} THEN Focus(asked) ELSE UNCHANGED <<focus, recent, wire>>
    /\ UNCHANGED <<open, surf, alt, left, signals, Client>>

Open(w) ==
    /\ left > 0 /\ left' = left - 1
    /\ w \in Wins \ open
    /\ \A i \in DOMAIN wire : wire[i] # Closed(w)
    /\ open' = open \cup {w}
    /\ Sent(<<Toplevel(w), AppId(w)>>)
    /\ UNCHANGED <<focus, recent, surf, alt, asked, signals, Client>>

Close(w) ==
    /\ left > 0 /\ left' = left - 1
    /\ w \in open
    /\ open' = open \ {w}
    /\ focus' = IF focus = w THEN Noone ELSE focus
    /\ recent' = IF \E v \in open' : GroupOf(v) = GroupOf(w) THEN recent
                 ELSE Within(recent, ToSet(recent) \ {GroupOf(w)})
    /\ asked' = IF asked = w THEN Noone ELSE asked
    /\ Sent(<<Closed(w)>>)
    /\ UNCHANGED <<surf, alt, signals, Client>>

\* Alt goes down or up; the overlay hears of it while it has the keyboard.
TurnAlt ==
    /\ left > 0 /\ left' = left - 1
    /\ alt' = ~alt
    /\ Sent(IF surf = "mapped" THEN <<Mods(~alt)>> ELSE <<>>)
    /\ UNCHANGED <<open, focus, recent, surf, asked, signals, Client>>

\* The bind consumes Alt+Tab and runs `waylaunch --switch [--reverse]', which signals.
Bind ==
    /\ left > 0 /\ left' = left - 1
    /\ alt /\ pc # "start"
    /\ \/ forward' = TRUE /\ UNCHANGED reverse
       \/ reverse' = TRUE /\ UNCHANGED forward
    /\ UNCHANGED <<open, focus, recent, surf, alt, wire, asked, Client>>

Press(k) ==
    /\ left > 0 /\ left' = left - 1
    /\ surf = "mapped"
    /\ Sent(<<Key(k)>>)
    /\ UNCHANGED <<open, focus, recent, surf, alt, asked, signals, Client>>

PointAside ==
    /\ left > 0 /\ left' = left - 1
    /\ surf = "mapped"
    /\ Sent(<<Click>>)
    /\ UNCHANGED <<open, focus, recent, surf, alt, asked, signals, Client>>

\* Of interest while the process lives.
World ==
    /\ pc # "gone"
    /\ \/ FocusChanges \/ Activate \/ TurnAlt \/ Bind \/ PointAside
       \/ \E w \in Wins : Open(w) \/ Close(w)
       \/ \E k \in KeyPresses : Press(k)

-----------------------------------------------------------------------------
(***************************************************************************)
(* What an event does.                                                     *)
(***************************************************************************)

Told(w, named, on) ==
    LET c == [i \in DOMAIN cache |-> IF cache[i].win = w
                 THEN [win |-> w, named |-> named \/ cache[i].named, active |-> on] ELSE cache[i]]
    IN  WindowsChanged(c, CHOOSE e \in ToSet(c) : e.win = w)
Listed(w) == \E e \in ToSet(cache) : e.win = w
IsActive(w) == \E e \in ToSet(cache) : e.win = w /\ e.active

OnWindow(e) ==
    /\ \/ /\ e.event = "toplevel"
          /\ LET new == [win |-> e.win, named |-> FALSE, active |-> FALSE]
             IN  WindowsChanged(Append(cache, new), new)
       \/ e.event = "app_id" /\ Told(e.win, TRUE, IsActive(e.win))
       \/ e.event = "state" /\ Listed(e.win) /\ Told(e.win, FALSE, e.on)
       \/ /\ e.event = "state" /\ ~Listed(e.win)
          /\ UNCHANGED <<cache, manager>>
       \/ /\ e.event = "closed"
          /\ WindowsChanged(Within(cache, {f \in ToSet(cache) : f.win # e.win}),
                            [win |-> e.win, named |-> FALSE, active |-> FALSE])
    /\ UNCHANGED <<asked, input, configured, past, pc, surf>>

\* handle_modifiers: Alt seen held and then released confirms.
OnModifiers(e) ==
    /\ e.event = "modifiers"
    /\ depressed' = e.on
    /\ IF active /\ ~e.on /\ modWasHeld THEN Confirm(TRUE)
       ELSE modWasHeld' = (modWasHeld \/ e.on) /\ UNCHANGED <<asked, active, manager>>
    /\ UNCHANGED <<cache, configured, past, pc, surf>>

\* handle_key while the switcher is up.
OnKey(e) ==
    /\ e.event = "key" /\ active
    /\ \/ e.key = "Tab" /\ groups # <<>> /\ Select(Next_) /\ UNCHANGED asked
       \/ e.key = "Left" /\ groups # <<>> /\ Select(Previous) /\ UNCHANGED asked
       \/ e.key \in {"Tab", "Left"} /\ groups = <<>> /\ UNCHANGED <<manager, input, asked>>
       \/ e.key = "Return" /\ Confirm(modWasHeld) /\ UNCHANGED depressed
       \/ e.key = "Escape" /\ Hide(modWasHeld) /\ UNCHANGED <<asked, depressed>>
    /\ UNCHANGED <<cache, configured, past, pc, surf>>

\* The rest of on_key: the launcher's keys.  Tab with Alt held shows the overlay, and nothing
\* maps its surface.
OnKeyAfterwards(e) ==
    /\ e.event = "key" /\ ~active
    /\ \/ /\ e.key = "Tab" /\ depressed
          /\ Trigger(FALSE) /\ UNCHANGED depressed
          /\ IF goDormant \/ pc = "sync" THEN raced' = TRUE /\ UNCHANGED late
             ELSE late' = TRUE /\ UNCHANGED raced
          /\ UNCHANGED <<pc, surf>>
       \/ /\ e.key = "Escape"
          /\ pc' = "gone" /\ surf' = "reset"
          /\ UNCHANGED <<manager, input, past>>
       \/ /\ e.key \in {"Left", "Return"} \/ (e.key = "Tab" /\ ~depressed)
          /\ UNCHANGED <<manager, input, past, pc, surf>>
    /\ UNCHANGED <<asked, cache, configured>>

\* on_mouse: a click beside where the launcher's panel would be ends the process.
OnClick(e) ==
    /\ e.event = "click"
    /\ pc' = "gone" /\ surf' = "reset"
    /\ UNCHANGED <<asked, cache, manager, input, configured, past>>

\* render_frame: a buffer is attached when there is something to show.  The overlay is given
\* the keyboard; the first report of its modifiers may not show Alt yet.
Painted(conf, rest) ==
    \/ /\ visible /\ conf /\ surf # "mapped"
       /\ surf' = "mapped"
       /\ \E now \in {alt, FALSE} : wire' = Append(rest, Mods(now))
    \/ /\ ~(visible /\ conf /\ surf # "mapped")
       /\ UNCHANGED surf /\ wire' = rest

OnConfigure(e) ==
    /\ e.event = "configure"
    /\ configured' = TRUE
    /\ Painted(TRUE, Tail(wire))
    /\ UNCHANGED <<asked, cache, manager, input, past, pc>>

HandleHead ==
    /\ wire # <<>>
    /\ \/ OnConfigure(Head(wire))
       \/ /\ wire' = Tail(wire)
          /\ \/ OnWindow(Head(wire)) \/ OnModifiers(Head(wire))
             \/ OnKey(Head(wire)) \/ OnKeyAfterwards(Head(wire)) \/ OnClick(Head(wire))
    /\ UNCHANGED <<byApp, open, focus, recent, alt, left, signals, sampled>>

-----------------------------------------------------------------------------
(***************************************************************************)
(* The loop.                                                               *)
(***************************************************************************)

RemapLate == UNCHANGED <<surf, wire>>     \* a bug: no bufferless commit

\* remap_surface: a surface that is reset is configured again.
Remap ==
    /\ surf' = "initialized"
    /\ wire' = IF surf = "reset" THEN Append(wire, Configure) ELSE wire

\* show_switcher.
Show(far) ==
    /\ IF configured THEN UNCHANGED <<surf, wire>> ELSE Remap
    /\ Trigger(far) /\ UNCHANGED depressed
    /\ raced' = (goDormant \/ (raced /\ surf # "reset")) /\ late' = FALSE

Start ==
    /\ pc = "start"
    /\ \E far \in BOOLEAN : Show(far)
    /\ pc' = "render"
    /\ UNCHANGED <<world, byApp, signals, sampled, batch, cache, configured>>

Poll ==
    /\ pc = "poll"
    /\ wire # <<>> \/ forward \/ reverse
    /\ sampled' = [forward |-> forward, reverse |-> reverse]
    /\ batch' = Len(wire) /\ pc' = "dispatch"
    /\ UNCHANGED <<world, byApp, surf, wire, signals, cache, manager, input, configured, past>>

Dispatch ==
    /\ pc = "dispatch" /\ batch > 0
    /\ batch' = batch - 1
    /\ HandleHead

\* A bug: a press only advances.
Advance(far) ==
    /\ IF visible /\ groups # <<>> THEN Select(IF far THEN Previous ELSE Next_)
       ELSE UNCHANGED <<manager, input>>
    /\ UNCHANGED <<surf, wire, past>>

\* An eventfd read: any number of presses is one step.
Answer(far) ==
    \/ /\ visible /\ groups # <<>>
       /\ Select(IF far THEN Previous ELSE Next_)
       /\ UNCHANGED <<surf, wire, past>>
    \/ visible /\ groups = <<>> /\ UNCHANGED <<surf, wire, manager, input, past>>
    \/ ~visible /\ Show(far)

Forward ==
    /\ pc = "dispatch" /\ batch = 0 /\ pc' = "reverse"
    /\ IF sampled.forward THEN forward' = FALSE /\ Answer(FALSE)
       ELSE UNCHANGED <<forward, surf, wire, manager, input, past>>
    /\ UNCHANGED <<world, byApp, reverse, sampled, batch, cache, configured>>

Reversed ==
    /\ pc = "reverse" /\ pc' = "render"
    /\ sampled' = Unsampled
    /\ IF sampled.reverse THEN reverse' = FALSE /\ Answer(TRUE)
       ELSE UNCHANGED <<reverse, surf, wire, manager, input, past>>
    /\ UNCHANGED <<world, byApp, forward, batch, cache, configured>>

Render ==
    /\ pc = "render"
    /\ Painted(configured, wire)
    /\ pc' = IF goDormant THEN "sync" ELSE "poll"
    /\ goDormant' = FALSE
    /\ UNCHANGED <<world, byApp, signals, sampled, batch, cache, groups, selected, visible, shown,
                   input, configured, past>>

\* roundtrip_with_timeout: events are dispatched while it waits, for no longer than 150 ms.
SyncDispatch ==
    /\ pc = "sync"
    /\ HandleHead
    /\ UNCHANGED batch

Unmap ==
    /\ pc = "sync" /\ pc' = "poll"
    /\ surf' = IF surf = "mapped" THEN "reset" ELSE surf
    /\ configured' = FALSE
    /\ UNCHANGED <<world, byApp, wire, signals, sampled, batch, cache, manager, input, past>>

Loop == Start \/ Poll \/ Dispatch \/ Forward \/ Reversed \/ Render \/ Unmap

Next == World \/ Loop \/ SyncDispatch

Spec == Init /\ [][Next]_vars

\* The loop runs on; its round-trip is bounded.
FairSpec == Spec /\ WF_vars(Loop)

-----------------------------------------------------------------------------
(***************************************************************************)
(* Properties.                                                             *)
(***************************************************************************)

\* The input controller, the manager and the change callback never disagree on whether the
\* overlay is up, whatever order keys, modifiers, signals and window events come in.
OneOpinion == active = visible /\ (pc # "start" => shown = visible)

\* Once the loop waits again, the keyboard is with the overlay only while it is shown.
GrabReleased == pc = "poll" /\ ~visible => surf # "mapped"

OnScreen == surf = "mapped" \/ \E i \in DOMAIN wire : wire[i] = Configure

\* Shown, the overlay is on the screen or a configure that puts it there is on its way, and as
\* soon as there are windows one of its groups is selected, however the windows came and went.
\* Two ways of showing it do not get it there: a press that is answered in the turn in which
\* the last showing is unmapped (raced), and a Tab dispatched after that unmapping, which shows
\* it without mapping the surface (late).
ShownIsMapped == pc = "poll" /\ visible =>
    /\ raced \/ late \/ OnScreen
    /\ groups # <<>> => selected < Len(groups)

\* The same without the exceptions: what launcher_ui.cpp:462 says, that every later press shows
\* "instantly with a reliable grab".  It does not hold, see the README.
ShownWithGrab == pc = "poll" /\ visible => OnScreen

\* When the window list is up to date, the groups that have been focused are in the order in
\* which they were: a plain Alt+Tab goes back to the one used before.
MruIsFocusOrder ==
    wire = <<>> =>
        Within(groups, ToSet(recent)) = recent

\* Alt+Tab is answered while the process lives.
PressShows == ((forward \/ reverse) /\ ~visible) ~> (visible \/ pc = "gone")
=============================================================================
