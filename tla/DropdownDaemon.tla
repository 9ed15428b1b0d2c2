--------------------------- MODULE DropdownDaemon ---------------------------
(***************************************************************************)
(* `waylaunch --dropdown': one thread that polls signals, a timer and the  *)
(* compositor's event socket, and keeps one terminal session per slot.     *)
(*                                                                         *)
(* The daemon learns of a session's end twice, in either order: SIGCHLD    *)
(* for the process, closewindow for its window.  The compositor answers at *)
(* once (j/clients) but announces late (the event stream), and a window    *)
(* appears some time after its process.  A handler runs to its end before  *)
(* the next; the processes, the compositor and the user move in between.   *)
(* Geometry, learned sizes, the strip's Wayland connection and painting    *)
(* are left out, and so is the length of a backoff.                        *)
(***************************************************************************)
EXTENDS Naturals, Sequences, FiniteSets

CONSTANTS
    MaxForks,        \* bound on the sessions ever forked
    MaxTabs,         \* bound on the windows of one session
    MaxAttempts,     \* kAppearAttempts
    Environments     \* subset of EnvironmentType

\* usable: a Hyprland socket answers; respawn: [dropdown].respawn; intruder: a window of the
\* slot's class that the daemon did not start; stops: the daemon may get SIGTERM.  The numbers
\* bound the windows of a session, the presses of the key, the clicks elsewhere, the edits of
\* the config file, and the compositor requests and forks that fail.
EnvironmentType ==
    [usable : BOOLEAN, respawn : BOOLEAN, intruder : BOOLEAN, stops : BOOLEAN,
     tabs : 1..MaxTabs, presses : Nat, clicks : Nat, edits : Nat, faults : Nat]

ASSUME DropdownAssumption ==
    /\ MaxForks \in Nat \ {0} /\ MaxTabs \in Nat \ {0} /\ MaxAttempts \in Nat \ {0}
    /\ Environments \subseteq EnvironmentType

Procs == 1..MaxForks
Intruder == <<0, 1>>
Windows == (Procs \X (1..MaxTabs)) \cup {Intruder}
Owner(w) == w[1]
NoWindow == <<0, 0>>
Elsewhere == <<0, 2>>      \* a window of another class

VARIABLES
    env,
    proc,       \* Procs -> "none", "running", "term" (SIGTERM pending), "zombie", "reaped"
    win,        \* Windows -> "none", "shown", "hidden" (on special:wl-drop-<slot>), "gone"
    stream,     \* what the compositor announced and the daemon has not read
    usr, chld, term,                  \* SIGUSR1, SIGCHLD, SIGTERM pending for the daemon
    file, moved,                      \* `enabled' in the config file; its mtime has moved
    presses, clicks, edits, faults,   \* what the environment may still do
    pc, got, inbox, running,          \* the poll loop: place, revents, events being handled
    state, child,                     \* DropdownManager::state_, SessionSupervisor::child_
    timer, clock, attempts,           \* timer_purpose, timer_fd, appear_attempts
    addr, guard, grace,               \* slot_address; FocusGuard's identity, grace window
    strip, placedTabs, enabled        \* strip mapped, placed_tab_count, dropdown_enabled

users == <<file, moved, presses, clicks, edits>>
signals == <<usr, chld, term>>
screen == <<win, stream, faults>>
loop == <<pc, got, inbox, running>>
session == <<proc, child, timer, clock, attempts>>
slot == <<addr, guard, grace, strip, placedTabs>>
vars == <<env, users, signals, screen, loop, session, state, slot, enabled>>

Event(name, w) == [name |-> name, window |-> w]

TypeOK ==
    /\ env \in Environments
    /\ proc \in [Procs -> {"none", "running", "term", "zombie", "reaped"}]
    /\ win \in [Windows -> {"none", "shown", "hidden", "gone"}]
    /\ \A s \in {stream, inbox} : \A i \in DOMAIN s :
          s[i] \in [name : {"activewindow", "closewindow"}, window : Windows \cup {Elsewhere}]
    /\ \A b \in {usr, chld, term, file, moved, enabled, strip, grace, running} : b \in BOOLEAN
    /\ presses \in 0..env.presses /\ clicks \in 0..env.clicks
    /\ edits \in 0..env.edits /\ faults \in 0..env.faults
    /\ pc \in {"reload", "poll", "signals", "timer", "events", "sample", "shutdown", "done"}
    /\ got \subseteq {"signals", "timer", "events"}
    /\ state \in {"Absent", "Spawning", "Hidden", "Visible"} /\ child \in Procs \cup {0}
    /\ timer \in {"None", "Respawn", "AppearRetry"} /\ clock \in {"off", "running", "expired"}
    /\ attempts \in 0..MaxAttempts
    /\ addr \in Windows \cup {NoWindow}
    /\ guard \in [pid : Procs \cup {0}, window : Windows \cup {NoWindow}]
    /\ placedTabs \in 0..Cardinality(Windows)

-----------------------------------------------------------------------------
(***************************************************************************)
(* What the handlers are made of.                                          *)
(***************************************************************************)

\* The slot's class in j/clients.
Mapped == {w \in Windows : env.usable /\ win[w] \in {"shown", "hidden"}}
OwnedBy(p) == {w \in Mapped : Owner(w) = p}

\* find_window: a window of the supervised process, else any of the slot's class.
Found == IF child # 0 /\ OwnedBy(child) # {} THEN OwnedBy(child) ELSE Mapped

\* find_owned_windows: the tabs.
Owned == IF child # 0 THEN OwnedBy(child) ELSE Mapped
TabCount == Cardinality(Owned)

\* DropdownManager::process_event.
After(s, event) ==
    CASE s = "Absent" -> IF event = "Toggle" THEN "Spawning" ELSE s
      [] s # "Absent" /\ event \in {"WindowClosed", "ChildExited"} -> "Absent"
      [] s = "Spawning" /\ event = "Toggle" -> s
      [] s # "Absent" /\ event = "WindowShown" -> "Visible"
      [] s # "Absent" /\ event = "WindowHidden" -> "Hidden"
      [] s = "Hidden" /\ event = "Toggle" -> "Visible"
      [] s = "Visible" /\ event = "Toggle" -> "Hidden"

Arm(purpose) == timer' = purpose /\ clock' = "running"
Fault == faults > 0 /\ faults' = faults - 1

\* show brings the window to the user and gives it the focus; hide moves it out of sight.
\* show is six dispatches, and gives up before the window has moved or after.
Show(w) ==
    /\ win' = [win EXCEPT ![w] = "shown"]
    /\ stream' = Append(stream, Event("activewindow", w))
ShowStops(w) == win' \in {win, [win EXCEPT ![w] = "shown"]} /\ UNCHANGED stream
Hide(w) == win' = [win EXCEPT ![w] = "hidden"] /\ UNCHANGED stream

\* place_visible, and what every caller does with the window it returns.
PlaceWindow ==
    \E w \in Found :
        /\ Show(w)
        /\ strip' = (TabCount >= 2) /\ placedTabs' = TabCount
        /\ addr' = w /\ guard' = [pid |-> child, window |-> w] /\ grace' = TRUE
        /\ UNCHANGED faults

\* The strip may be down by the time show fails.
PlaceFails ==
    /\ \/ Found = {} /\ UNCHANGED <<win, stream, strip, faults>>
       \/ /\ Found # {} /\ Fault
          /\ \E w \in Found : ShowStops(w)
          /\ strip' \in {strip, strip /\ TabCount >= 2}
    /\ UNCHANGED <<addr, guard, grace, placedTabs>>

\* park_hidden.
Park(w) ==
    /\ w \in Found
    /\ Hide(w)
    /\ UNCHANGED faults

ParkFails ==
    /\ \/ Found = {} /\ UNCHANGED faults
       \/ Found # {} /\ Fault
    /\ UNCHANGED <<win, stream, slot>>

\* park_hidden where the caller takes the strip down.
RetractKeepsStrip ==      \* a bug: hide_strip is forgotten
    /\ \E w \in Found : Park(w)
    /\ state' = After(state, "WindowHidden")
    /\ UNCHANGED <<strip, addr, guard, grace, placedTabs>>
Retract ==
    /\ \E w \in Found : Park(w)
    /\ strip' = FALSE
    /\ state' = After(state, "WindowHidden")
    /\ UNCHANGED <<addr, guard, grace, placedTabs>>

\* note_exited: the supervisor forgets the child; a respawn is armed when it is enabled.
NoteExitedKeepsChild ==      \* a bug: child_ is not reset
    IF env.respawn THEN Arm("Respawn") /\ UNCHANGED child ELSE UNCHANGED <<child, timer, clock>>
NoteExited ==
    /\ child' = 0
    /\ IF env.respawn THEN Arm("Respawn") ELSE UNCHANGED <<timer, clock>>

\* spawn, from Absent or Spawning; spawn_tracked starts the process.
SpawnTracked(n) ==
    /\ proc[n] = "none" /\ \A m \in Procs : m < n => proc[m] # "none"
    /\ proc' = [proc EXCEPT ![n] = "running"]
Spawn ==
    \/ \E n \in Procs :
          /\ SpawnTracked(n)
          /\ child' = n
          /\ guard' = [pid |-> n, window |-> NoWindow]
          /\ attempts' = 0
          /\ Arm("AppearRetry")
          /\ UNCHANGED <<screen, addr, grace, strip, placedTabs>>
    \/ /\ Fault
       /\ NoteExited
       /\ UNCHANGED <<proc, attempts, win, stream, slot>>

-----------------------------------------------------------------------------
(***************************************************************************)
(* The poll loop.                                                          *)
(***************************************************************************)

At(place, next) == pc = place /\ pc' = next

Reload ==
    /\ At("reload", "poll")
    /\ moved' = FALSE /\ enabled' = (IF moved THEN file ELSE enabled)
    /\ \/ /\ moved /\ ~file /\ enabled /\ state = "Visible"
          /\ Retract \/ (ParkFails /\ UNCHANGED state)
       \/ /\ moved /\ file /\ state = "Visible" /\ env.usable
          /\ PlaceWindow \/ PlaceFails
          /\ UNCHANGED state
       \/ /\ ~moved \/ state # "Visible" \/ (~file /\ ~enabled) \/ (file /\ ~env.usable)
          /\ UNCHANGED <<state, screen, slot>>
    /\ UNCHANGED <<env, file, presses, clicks, edits, signals, got, inbox, running, session>>

Ready == {r \in {"signals", "timer", "events"} :
              CASE r = "signals" -> usr \/ chld \/ term
                [] r = "timer" -> clock = "expired"
                [] r = "events" -> env.usable /\ stream # <<>>}

\* What poll reports is what the branches go by, whatever happens meanwhile.
Poll ==
    /\ At("poll", "signals")
    /\ got' = Ready
    /\ UNCHANGED <<env, users, signals, screen, inbox, running, session, state, slot, enabled>>

\* The state after sync_presence has found no window, or not had an answer.
NotFound(s) == IF child = 0 THEN "Absent" ELSE s

Toggled ==
    \/ /\ ~enabled \/ state = "Spawning"
       /\ UNCHANGED <<state, session, screen, slot>>
    \/ /\ enabled /\ ~env.usable /\ state # "Spawning"
       /\ state' = After(state, "Toggle")
       /\ UNCHANGED <<session, screen, slot>>
    \/ /\ enabled /\ env.usable /\ state = "Absent"
       /\ state' = "Spawning"
       /\ Spawn
    \/ /\ enabled /\ env.usable /\ state = "Hidden"
       /\ \/ PlaceWindow /\ state' = "Visible"
          \/ PlaceFails /\ Found = {} /\ state' = NotFound("Hidden")
          \/ PlaceFails /\ Found # {} /\ state' \in {"Hidden", NotFound("Hidden")}
       /\ UNCHANGED session
    \/ /\ enabled /\ env.usable /\ state = "Visible"
       /\ \/ Retract
          \/ ParkFails /\ Found = {} /\ state' = NotFound("Hidden")
          \/ ParkFails /\ Found # {} /\ state' \in {"Visible", NotFound("Hidden")}
       /\ UNCHANGED session

\* signalfd hands out the lowest signal first; others may come while it is drained.
TakeToggle ==
    /\ pc = "signals" /\ "signals" \in got /\ usr
    /\ usr' = FALSE
    /\ Toggled
    /\ UNCHANGED <<env, users, chld, term, loop, enabled>>

TakeTerm ==
    /\ pc = "signals" /\ "signals" \in got /\ ~usr /\ term
    /\ term' = FALSE
    /\ running' = FALSE
    /\ UNCHANGED <<env, users, usr, chld, screen, pc, got, inbox, session, state, slot, enabled>>

TakeChld ==
    /\ pc = "signals" /\ "signals" \in got /\ ~usr /\ ~term /\ chld
    /\ chld' = FALSE
    /\ proc' = [n \in Procs |-> IF proc[n] = "zombie" THEN "reaped" ELSE proc[n]]
    /\ IF child # 0 /\ proc[child] = "zombie"
       THEN state' = After(state, "ChildExited") /\ NoteExited
       ELSE UNCHANGED <<state, child, timer, clock>>
    /\ UNCHANGED <<env, users, usr, term, screen, loop, attempts, slot, enabled>>

SignalsDrained ==
    /\ At("signals", "timer")
    /\ "signals" \in got => ~usr /\ ~term /\ ~chld
    /\ got' = got \ {"signals"}
    /\ UNCHANGED <<env, users, signals, screen, inbox, running, session, state, slot, enabled>>

\* The timer may have been armed anew since poll saw it expire.
Respawn ==
    /\ timer = "Respawn"
    /\ IF state \in {"Absent", "Spawning"}
       THEN state' = "Spawning" /\ Spawn
       ELSE /\ timer' = "None" /\ clock' = "off"
            /\ UNCHANGED <<proc, child, attempts, state, screen, slot>>

MoreAttempts(n) == n < MaxAttempts

RearmForgotten == timer' = "None" /\ clock' = "off"      \* a bug
Rearm == Arm("AppearRetry")

AppearRetry ==
    /\ timer = "AppearRetry"
    /\ \/ \E w \in Found :
             /\ Park(w)
             /\ addr' = w /\ guard' = [pid |-> child, window |-> w]
             /\ state' = After(state, "WindowHidden")
             /\ timer' = "None" /\ clock' = "off"
             /\ UNCHANGED <<attempts, grace, strip, placedTabs>>
       \/ /\ ~env.usable
          /\ state' = After(state, "WindowHidden")
          /\ timer' = "None" /\ clock' = "off"
          /\ UNCHANGED <<attempts, screen, slot>>
       \/ /\ env.usable /\ ParkFails /\ state = "Spawning"
          /\ attempts' = attempts + 1
          /\ IF MoreAttempts(attempts')
             THEN Rearm /\ UNCHANGED state
             ELSE timer' = "None" /\ clock' = "off" /\ state' = "Hidden"
       \/ /\ env.usable /\ ParkFails /\ state # "Spawning"
          /\ timer' = "None" /\ clock' = "off"
          /\ UNCHANGED <<attempts, state>>
    /\ UNCHANGED <<proc, child>>

TimerBranch ==
    /\ At("timer", "events")
    /\ \/ "timer" \in got /\ Respawn
       \/ "timer" \in got /\ AppearRetry
       \/ /\ "timer" \in got /\ timer = "None"
          /\ clock' = "off"
          /\ UNCHANGED <<proc, child, timer, attempts, state, screen, slot>>
       \/ "timer" \notin got /\ UNCHANGED <<session, state, screen, slot>>
    /\ got' = got \ {"timer"}
    /\ UNCHANGED <<env, users, signals, inbox, running, enabled>>

ReadEvents ==
    /\ pc = "events" /\ "events" \in got
    /\ got' = got \ {"events"}
    /\ inbox' = stream /\ stream' = <<>>
    /\ UNCHANGED <<env, users, signals, win, faults, pc, running, session, state, slot, enabled>>

\* The window's process is looked up when the event is handled, and the chain of its parents
\* followed: none is known of a window that is gone.
IsDescendant(w, pid) == w \in Mapped /\ Owner(w) = pid
ShouldRetract(w) ==
    /\ w # guard.window /\ ~grace
    /\ ~(guard.pid # 0 /\ IsDescendant(w, guard.pid))

Focused(w) ==
    /\ IF state = "Visible" /\ env.usable /\ ShouldRetract(w)
       THEN Retract \/ (ParkFails /\ UNCHANGED state)
       ELSE UNCHANGED <<state, screen, slot>>
    /\ UNCHANGED session

KillForgotten == proc      \* a bug
Killed == [n \in Procs |-> IF n = child /\ proc[n] = "running" THEN "term" ELSE proc[n]]

\* take_child, and SIGTERM to what it was.
Closed(w) ==
    /\ IF addr # w
       THEN UNCHANGED <<state, session, slot>>
       ELSE /\ addr' = NoWindow /\ strip' = FALSE
            /\ state' = After(state, "WindowClosed")
            /\ child' = 0
            /\ proc' = Killed
            /\ UNCHANGED <<timer, clock, attempts, guard, grace, placedTabs>>
    /\ UNCHANGED screen

HandleEvent ==
    /\ pc = "events" /\ "events" \notin got /\ inbox # <<>>
    /\ inbox' = Tail(inbox)
    /\ IF Head(inbox).name = "activewindow"
       THEN Focused(Head(inbox).window)
       ELSE Closed(Head(inbox).window)
    /\ UNCHANGED <<env, users, signals, pc, got, running, enabled>>

EventsDone ==
    /\ At("events", "sample") /\ "events" \notin got /\ inbox = <<>>
    /\ UNCHANGED <<env, users, signals, screen, got, inbox, running, session, state, slot, enabled>>

\* sync_strip_to_window: gaining or losing the strip is a new placement.
Sample ==
    /\ At("sample", IF running THEN "reload" ELSE "shutdown")
    /\ IF state = "Visible" /\ env.usable /\ (TabCount >= 2) # (placedTabs >= 2)
       THEN PlaceWindow \/ PlaceFails
       ELSE UNCHANGED <<screen, slot>>
    /\ UNCHANGED <<env, users, signals, got, inbox, running, session, state, enabled>>

\* SIGTERM, a bounded wait, SIGKILL: the child does not outlive the daemon.
Shutdown ==
    /\ At("shutdown", "done")
    /\ proc' = [n \in Procs |-> IF n = child THEN "reaped" ELSE proc[n]]
    /\ UNCHANGED <<env, users, signals, screen, got, inbox, running, child, timer, clock, attempts,
                   state, slot, enabled>>

Daemon ==
    \/ Reload \/ Poll
    \/ TakeToggle \/ TakeTerm \/ TakeChld \/ SignalsDrained
    \/ TimerBranch
    \/ ReadEvents \/ HandleEvent \/ EventsDone
    \/ Sample \/ Shutdown

-----------------------------------------------------------------------------
(***************************************************************************)
(* The user, the terminals, the compositor and the clock.                  *)
(***************************************************************************)

daemon == <<loop, child, timer, attempts, state, addr, guard, strip, placedTabs, enabled>>

Press ==
    /\ presses > 0 /\ ~usr
    /\ presses' = presses - 1 /\ usr' = TRUE
    /\ UNCHANGED <<env, file, moved, clicks, edits, chld, term, screen, proc, clock, grace, daemon>>

Click ==
    /\ clicks > 0
    /\ clicks' = clicks - 1
    /\ stream' = Append(stream, Event("activewindow", Elsewhere))
    /\ UNCHANGED <<env, file, moved, presses, edits, signals, win, faults, proc, clock, grace, daemon>>

Edit ==
    /\ edits > 0
    /\ edits' = edits - 1
    /\ file' \in BOOLEAN /\ moved' = TRUE
    /\ UNCHANGED <<env, presses, clicks, signals, screen, proc, clock, grace, daemon>>

AskToStop ==
    /\ env.stops /\ ~term /\ running
    /\ term' = TRUE
    /\ UNCHANGED <<env, users, usr, chld, screen, proc, clock, grace, daemon>>

\* A new window is mapped where the user is, and has the focus.
OpenWindow(w) ==
    /\ win[w] = "none"
    /\ IF w = Intruder THEN env.intruder ELSE proc[Owner(w)] = "running"
    /\ w[2] <= env.tabs /\ (w[2] > 1 => win[<<w[1], w[2] - 1>>] # "none")
    /\ win' = [win EXCEPT ![w] = "shown"]
    /\ stream' = Append(stream, Event("activewindow", w))
    /\ UNCHANGED <<env, users, signals, faults, proc, clock, grace, daemon>>

\* By the user, by the terminal, or by the compositor once the process is gone.  The last
\* session of the model stays.
CloseWindow(w) ==
    /\ win[w] \in {"shown", "hidden"}
    /\ Owner(w) = MaxForks => proc[MaxForks] # "running"
    /\ win' = [win EXCEPT ![w] = "gone"]
    /\ stream' = Append(stream, Event("closewindow", w))
    /\ UNCHANGED <<env, users, signals, faults, proc, clock, grace, daemon>>

Exit(n) ==
    /\ proc[n] = "term" \/ (proc[n] = "running" /\ n # MaxForks)
    /\ pc # "done"
    /\ proc' = [proc EXCEPT ![n] = "zombie"]
    /\ chld' = TRUE
    /\ UNCHANGED <<env, users, usr, term, screen, clock, grace, daemon>>

GraceEnds ==
    /\ grace
    /\ grace' = FALSE
    /\ UNCHANGED <<env, users, signals, screen, proc, clock, daemon>>

TimerExpires ==
    /\ clock = "running"
    /\ clock' = "expired"
    /\ UNCHANGED <<env, users, signals, screen, proc, grace, daemon>>

Environment ==
    \/ Press \/ Click \/ Edit \/ AskToStop
    \/ \E w \in Windows : OpenWindow(w) \/ CloseWindow(w)
    \/ \E n \in Procs : Exit(n)
    \/ GraceEnds \/ TimerExpires

\* The first session is booted before the loop: start-up is a toggle.
Init ==
    /\ env \in Environments
    /\ proc = [n \in Procs |-> IF n = 1 THEN "running" ELSE "none"]
    /\ win = [w \in Windows |-> "none"]
    /\ stream = <<>> /\ inbox = <<>>
    /\ usr = FALSE /\ chld = FALSE /\ term = FALSE
    /\ file = TRUE /\ moved = FALSE /\ enabled = TRUE /\ running = TRUE
    /\ presses = env.presses /\ clicks = env.clicks /\ edits = env.edits /\ faults = env.faults
    /\ pc = "reload" /\ got = {}
    /\ state = "Spawning" /\ child = 1
    /\ timer = "AppearRetry" /\ clock = "running" /\ attempts = 0
    /\ addr = NoWindow /\ guard = [pid |-> 1, window |-> NoWindow] /\ grace = FALSE
    /\ strip = FALSE /\ placedTabs = 0

Next == Daemon \/ Environment

Spec == Init /\ [][Next]_vars

\* The daemon runs and time passes; nobody has to press a key, and a window need not appear.
FairSpec == Spec /\ WF_vars(Daemon) /\ WF_vars(TimerExpires)

-----------------------------------------------------------------------------
(***************************************************************************)
(* Properties.                                                             *)
(***************************************************************************)

\* A terminal the daemon forked and has not told to go is the one it supervises: none is
\* forgotten, whichever of SIGCHLD, closewindow, the timer and the key came first, and
\* none is left behind when the daemon ends.
NoOrphan == \A n \in Procs : proc[n] = "running" => n = child /\ pc # "done"

\* A dead slot supervises no process and a live one does.  (With respawn off, a press with no
\* compositor and a fork that fails leave a slot that waits for nobody.)
StateMatchesChild ==
    /\ state = "Absent" => child = 0
    /\ env.respawn \/ (env.usable /\ env.faults = 0) =>
          (state \in {"Hidden", "Visible"} => child # 0)

\* Nothing the daemon could still react to, and no window outlives its process.
Quiet ==
    /\ pc = "poll" /\ Ready = {}
    /\ \A w \in Mapped \ {Intruder} : proc[Owner(w)] = "running"

\* The daemon does not know of the session's window: it used its attempts up before the window
\* appeared, and took the slot to be hidden; or it took a window of the class that is another's.
GaveUp == ~MoreAttempts(attempts)
StandIn == addr # NoWindow /\ Owner(addr) # child
Untaken(w) == addr # w /\ (GaveUp \/ StandIn)

\* As long as no request has failed, the window of a session that never had another is where
\* the state says it is, known to the daemon or not; and once all is told, the strip is not left
\* over without its terminal.  One window is on the screen while the state is Hidden: one that
\* appeared when the daemon had given up looking for it, or had another's window parked in its
\* stead.  The next press takes it.
\* (Of two windows one toggle may show one and the next hide the other: find_window takes the
\* first that the compositor lists.  A session forked before the compositor has announced the
\* end of the last may inherit its strip.)
OnlyWindow(w) == w \in OwnedBy(child) /\ \A v \in Windows \ {w} : Owner(v) = child => win[v] = "none"
OneSession == \A n \in Procs \ {1} : proc[n] = "none"
PlacementTruth ==
    faults = env.faults =>
        /\ \A w \in Windows : OnlyWindow(w) =>
              /\ state = "Visible" => win[w] = "shown"
              /\ state = "Hidden" => win[w] = "hidden" \/ Untaken(w)
        /\ Quiet /\ OneSession /\ strip => state = "Visible"

\* A session being booted gets somewhere, as long as the model has sessions left to fork: it
\* is found, given up on, or has died.
NoForkLeft == child = 0 /\ \A n \in Procs : proc[n] # "none"
SpawningEnds == state = "Spawning" ~> (state # "Spawning" \/ pc = "done" \/ NoForkLeft)
=============================================================================
