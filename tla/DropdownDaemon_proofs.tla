------------------------ MODULE DropdownDaemon_proofs ------------------------
(***************************************************************************)
(* The daemon never forgets a terminal it has forked, and its states mean  *)
(* what they say of the child, the window and the strip, for every number  *)
(* of sessions, windows, attempts, presses and failures.                   *)
(***************************************************************************)
EXTENDS DropdownDaemon, FiniteSetTheorems, TLAPS

ChildInv ==
    /\ proc \in [Procs -> {"none", "running", "term", "zombie", "reaped"}]
    /\ child \in Procs \cup {0}
    /\ state \in {"Absent", "Spawning", "Hidden", "Visible"}
    /\ \A n \in Procs : proc[n] = "running" => n = child /\ pc # "done"
    /\ state = "Absent" => child = 0
    \* A respawn is waited for only without a child: spawn never overwrites one.
    /\ timer = "Respawn" => child = 0

\* A slot in use becomes absent exactly when its window or its child has ended.
LEMMA AfterStates ==
    ASSUME NEW s \in {"Absent", "Spawning", "Hidden", "Visible"},
           NEW e \in {"Toggle", "WindowShown", "WindowHidden", "WindowClosed", "ChildExited"}
    PROVE  /\ After(s, e) \in {"Absent", "Spawning", "Hidden", "Visible"}
           /\ After(s, e) = "Absent" <=> e \in {"WindowClosed", "ChildExited"}
                                          \/ (s = "Absent" /\ e # "Toggle")
BY DEF After

\* A spawn has a child to show for it or leaves everything as it was but the timer.
LEMMA SpawnOutcome ==
    ASSUME Spawn
    PROVE  \/ \E n \in Procs : /\ proc' = [proc EXCEPT ![n] = "running"]
                               /\ child' = n /\ timer' = "AppearRetry"
           \/ proc' = proc /\ child' = 0
BY DEF Spawn, SpawnTracked, NoteExited, Arm

\* Forking, or failing to, keeps the child.
LEMMA SpawnKeeps ==
    ASSUME ChildInv, child = 0, pc' # "done", Spawn, state' = "Spawning"
    PROVE  ChildInv'
<1> USE DEF ChildInv
<1>1. CASE proc' = proc /\ child' = 0
    BY <1>1
<1>2. ASSUME NEW n \in Procs, proc' = [proc EXCEPT ![n] = "running"],
             child' = n, timer' = "AppearRetry"
      PROVE  ChildInv'
  <2>1. \A m \in Procs : proc[m] # "running"
      BY DEF Procs
  <2>2. \A m \in Procs : proc'[m] = "running" => m = child'
      BY <1>2, <2>1
  <2>3. proc' \in [Procs -> {"none", "running", "term", "zombie", "reaped"}]
      BY <1>2
  <2>. QED
      BY <1>2, <2>2, <2>3
<1>. QED
    BY <1>1, <1>2, SpawnOutcome

\* A step that neither forks nor forgets a child it has not told to go.
LEMMA Quiescent ==
    ASSUME ChildInv, proc' = proc, child' = child, timer' \in {timer, "None", "AppearRetry"},
           state' \in {"Absent", "Spawning", "Hidden", "Visible"},
           state' = "Absent" => child = 0, pc' # "done"
    PROVE  ChildInv'
BY DEF ChildInv

\* A toggle, from any state of the slot, keeps the child.
LEMMA ToggledKeeps ==
    ASSUME ChildInv, Toggled, pc' = pc, pc # "done"
    PROVE  ChildInv'
<1> USE DEF ChildInv
<1>1. CASE ~enabled \/ state = "Spawning" \/ ~env.usable
  <2>1. state' \in {state, After(state, "Toggle")} /\ UNCHANGED session
      BY <1>1 DEF Toggled
  <2>. QED
      BY <2>1, AfterStates, Quiescent DEF session
<1>2. CASE enabled /\ env.usable /\ state = "Absent"
    BY <1>2, SpawnKeeps DEF Toggled
<1>3. CASE enabled /\ env.usable /\ state = "Hidden"
    BY <1>3, Quiescent DEF Toggled, session, NotFound
<1>4. CASE enabled /\ env.usable /\ state = "Visible"
  <2>1. UNCHANGED session
      BY <1>4 DEF Toggled
  <2>2. state' \in {After(state, "WindowHidden"), "Visible", NotFound("Hidden")}
      BY <1>4 DEF Toggled, Retract
  <2>. QED
      BY <1>4, <2>1, <2>2, AfterStates, Quiescent DEF session, NotFound
<1>. QED
    BY <1>1, <1>2, <1>3, <1>4

\* The timer, whatever it was armed for, keeps the child.
LEMMA TimerKeeps ==
    ASSUME ChildInv, TimerBranch
    PROVE  ChildInv'
<1> USE DEF ChildInv
<1>1. pc' = "events"
    BY DEF TimerBranch, At
<1>2. CASE Respawn
  <2>1. CASE state \in {"Absent", "Spawning"}
    <3>1. child = 0 /\ Spawn /\ state' = "Spawning"
        BY <1>2, <2>1 DEF Respawn
    <3>. QED
        BY <1>1, <3>1, SpawnKeeps
  <2>2. CASE state \notin {"Absent", "Spawning"}
      BY <1>1, <1>2, <2>2, Quiescent DEF Respawn
  <2>. QED
      BY <2>1, <2>2
<1>3. CASE AppearRetry
  <2>1. proc' = proc /\ child' = child
      BY <1>3 DEF AppearRetry
  <2>2. timer' \in {"None", "AppearRetry"}
      BY <1>3 DEF AppearRetry, Rearm, Arm
  <2>3. \/ state' = After(state, "WindowHidden")
        \/ state' = state
        \/ state = "Spawning" /\ state' = "Hidden"
      BY <1>3 DEF AppearRetry
  <2>. QED
      BY <1>1, <2>1, <2>2, <2>3, AfterStates, Quiescent
<1>4. CASE UNCHANGED <<proc, child, timer, state>>
    BY <1>1, <1>4, Quiescent
<1>. QED
    BY <1>2, <1>3, <1>4 DEF TimerBranch, session

\* An event of the compositor keeps the child.
LEMMA EventKeeps ==
    ASSUME ChildInv, HandleEvent
    PROVE  ChildInv'
<1> USE DEF ChildInv
<1>1. pc = "events" /\ pc' = "events"
    BY DEF HandleEvent
<1>2. ASSUME NEW w, Focused(w)
      PROVE  ChildInv'
  <2>1. UNCHANGED session /\ state' \in {state, After(state, "WindowHidden")}
      BY <1>2 DEF Focused, Retract
  <2>. QED
      BY <1>1, <2>1, AfterStates, Quiescent DEF session
<1>3. ASSUME NEW w, Closed(w)
      PROVE  ChildInv'
  <2>1. CASE addr # w
      BY <1>1, <1>3, <2>1, Quiescent DEF Closed, session
  <2>2. CASE addr = w
    <3>1. child' = 0 /\ proc' = Killed /\ timer' = timer
          /\ state' = After(state, "WindowClosed")
        BY <1>3, <2>2 DEF Closed
    <3>2. \A n \in Procs : proc'[n] # "running"
        BY <3>1 DEF Killed
    <3>3. proc' \in [Procs -> {"none", "running", "term", "zombie", "reaped"}]
        BY <3>1 DEF Killed
    <3>. QED
        BY <1>1, <3>1, <3>2, <3>3, AfterStates
  <2>. QED
      BY <2>1, <2>2
<1>. QED
    BY <1>2, <1>3 DEF HandleEvent

\* Every step of the daemon keeps the child.
LEMMA DaemonKeeps ==
    ASSUME ChildInv, Daemon
    PROVE  ChildInv'
<1> USE DEF ChildInv
<1>1. CASE Reload
  <2>1. UNCHANGED session /\ pc' = "poll" /\ state' \in {state, After(state, "WindowHidden")}
      BY <1>1 DEF Reload, At, Retract
  <2>. QED
      BY <2>1, AfterStates, Quiescent DEF session
<1>2. CASE TakeToggle
    BY <1>2, ToggledKeeps DEF TakeToggle, loop
<1>3. CASE TakeChld
  <2>1. pc' = pc /\ pc = "signals"
      BY <1>3 DEF TakeChld, loop
  <2>2. proc' = [n \in Procs |-> IF proc[n] = "zombie" THEN "reaped" ELSE proc[n]]
      BY <1>3 DEF TakeChld
  <2>3. /\ proc' \in [Procs -> {"none", "running", "term", "zombie", "reaped"}]
        /\ \A n \in Procs : proc'[n] = "running" <=> proc[n] = "running"
      BY <2>2
  <2>4. CASE child # 0 /\ proc[child] = "zombie"
    <3>1. child' = 0 /\ state' = After(state, "ChildExited")
        BY <1>3, <2>4 DEF TakeChld, NoteExited
    <3>. QED
        BY <2>1, <2>3, <2>4, <3>1, AfterStates
  <2>5. CASE ~(child # 0 /\ proc[child] = "zombie")
    <3>1. UNCHANGED <<state, child, timer>>
        BY <1>3, <2>5 DEF TakeChld
    <3>. QED
        BY <2>1, <2>3, <3>1
  <2>. QED
      BY <2>4, <2>5
<1>4. CASE TimerBranch
    BY <1>4, TimerKeeps
<1>5. CASE HandleEvent
    BY <1>5, EventKeeps
<1>6. CASE Poll \/ TakeTerm \/ SignalsDrained \/ ReadEvents \/ EventsDone
    BY <1>6, Quiescent DEF Poll, TakeTerm, SignalsDrained, ReadEvents, EventsDone, At, session
<1>7. CASE Sample
    BY <1>7, Quiescent DEF Sample, At, session
<1>8. CASE Shutdown
  <2>1. /\ proc' = [n \in Procs |-> IF n = child THEN "reaped" ELSE proc[n]]
        /\ UNCHANGED <<child, timer, state>>
      BY <1>8 DEF Shutdown
  <2>2. \A n \in Procs : proc'[n] # "running"
      BY <2>1
  <2>3. proc' \in [Procs -> {"none", "running", "term", "zombie", "reaped"}]
      BY <2>1
  <2>. QED
      BY <2>1, <2>2, <2>3
<1>. QED
    BY <1>1, <1>2, <1>3, <1>4, <1>5, <1>6, <1>7, <1>8 DEF Daemon

\* The compositor, the terminal, the user and the clock keep the child.
LEMMA EnvironmentKeeps ==
    ASSUME ChildInv, Environment
    PROVE  ChildInv'
<1> USE DEF ChildInv
<1>1. UNCHANGED <<pc, child, timer, state>>
    BY DEF Environment, Press, Click, Edit, AskToStop, OpenWindow, CloseWindow, Exit, GraceEnds,
           TimerExpires, daemon, loop
<1>2. CASE UNCHANGED proc
    BY <1>1, <1>2
<1>3. ASSUME NEW n \in Procs, Exit(n)
      PROVE  ChildInv'
  <2>1. proc' = [proc EXCEPT ![n] = "zombie"]
      BY <1>3 DEF Exit
  <2>2. /\ proc' \in [Procs -> {"none", "running", "term", "zombie", "reaped"}]
        /\ \A m \in Procs : proc'[m] = "running" => proc[m] = "running"
      BY <2>1
  <2>. QED
      BY <1>1, <2>2
<1>. QED
    BY <1>2, <1>3 DEF Environment, Press, Click, Edit, AskToStop, OpenWindow, CloseWindow, GraceEnds,
                      TimerExpires

\* So the child is always accounted for.
LEMMA ChildAlways == Spec => []ChildInv
<1>1. Init => ChildInv
    BY DropdownAssumption DEF Init, ChildInv, Procs
<1>2. ChildInv /\ [Next]_vars => ChildInv'
  <2>1. ChildInv /\ UNCHANGED vars => ChildInv'
      BY DEF ChildInv, vars, session, loop
  <2>. QED
      BY <2>1, DaemonKeeps, EnvironmentKeeps DEF Next
<1>. QED
    BY <1>1, <1>2, PTL DEF Spec

\* Whichever of SIGCHLD, closewindow, the timer, the key and the config file comes first, a
\* running terminal of the daemon's is supervised, and none outlives the daemon.
THEOREM NeverForgets == Spec => []NoOrphan
<1>1. ChildInv => NoOrphan
    BY DEF ChildInv, NoOrphan
<1>. QED
    BY <1>1, ChildAlways, PTL

-----------------------------------------------------------------------------
\* A slot is only without a child while a respawn is under way, where one is sure to come:
\* with respawn on, or with a compositor and forks that succeed.
Sure == env.respawn \/ (env.usable /\ env.faults = 0)

WaitInv ==
    /\ env.faults = 0 => faults = 0
    /\ ~env.usable => "events" \notin got /\ inbox = <<>>
    /\ Sure /\ state \in {"Hidden", "Visible"} => child # 0
    /\ Sure /\ state = "Spawning" /\ child = 0 => timer = "Respawn"
    /\ env.respawn /\ ~env.usable /\ child = 0 => timer = "Respawn"

\* A spawn leaves a child or, where respawn is on, a timer.
LEMMA SpawnWaits ==
    ASSUME Spawn
    PROVE  /\ env.faults = 0 /\ faults = 0 => faults' = 0 /\ child' # 0
           /\ env.respawn /\ child' = 0 => timer' = "Respawn"
BY DropdownAssumption DEF Spawn, SpawnTracked, NoteExited, Arm, Fault, Procs, screen

\* With no faults left, none happens and none is given back.
LEMMA FaultsStay ==
    ASSUME faults = 0, Next
    PROVE  faults' = 0
<1>1. ~Fault
    BY DEF Fault
<1>2. ASSUME Retract \/ PlaceWindow \/ PlaceFails \/ ParkFails \/ UNCHANGED screen
      PROVE  faults' = 0
    BY <1>1, <1>2 DEF Retract, PlaceWindow, PlaceFails, Park, Show, ShowStops, Hide, ParkFails, screen
<1>3. Spawn => faults' = 0
    BY <1>1 DEF Spawn, SpawnTracked, screen
<1>4. Toggled => faults' = 0
    BY <1>2, <1>3 DEF Toggled
<1>5. CASE TimerBranch
  <2>1. Respawn => faults' = 0
      BY <1>3 DEF Respawn, screen
  <2>2. AppearRetry => faults' = 0
      BY <1>2 DEF AppearRetry, Park, Hide, screen
  <2>. QED
      BY <1>5, <2>1, <2>2 DEF TimerBranch, screen
<1>6. CASE HandleEvent
  <2>1. (\E w : Focused(w) \/ Closed(w)) => faults' = 0
      BY <1>2 DEF Focused, Closed
  <2>. QED
      BY <1>6, <2>1 DEF HandleEvent
<1>7. CASE Reload \/ Sample
    BY <1>2, <1>7 DEF Reload, Sample
<1>8. CASE TakeToggle
    BY <1>4, <1>8 DEF TakeToggle
<1>9. CASE TakeTerm \/ TakeChld \/ Poll \/ SignalsDrained \/ ReadEvents \/ EventsDone \/ Shutdown
    BY <1>9 DEF TakeTerm, TakeChld, Poll, SignalsDrained, ReadEvents, EventsDone, Shutdown, screen
<1>10. CASE Environment
    BY <1>10 DEF Environment, Press, Click, Edit, AskToStop, OpenWindow, CloseWindow, Exit,
                 GraceEnds, TimerExpires, screen
<1>. QED
    BY <1>5, <1>6, <1>7, <1>8, <1>9, <1>10 DEF Next, Daemon

\* With no compositor there are no events to handle.
LEMMA NoEvents ==
    ASSUME ~env.usable, "events" \notin got, inbox = <<>>, Next
    PROVE  "events" \notin got' /\ inbox' = <<>>
<1>1. CASE Poll
    BY <1>1 DEF Poll, Ready
<1>2. CASE ReadEvents \/ HandleEvent
    BY <1>2 DEF ReadEvents, HandleEvent
<1>3. CASE SignalsDrained \/ TimerBranch
    BY <1>3 DEF SignalsDrained, TimerBranch
<1>4. CASE Reload \/ TakeToggle \/ TakeTerm \/ TakeChld \/ EventsDone \/ Sample \/ Shutdown
    BY <1>4 DEF Reload, TakeToggle, TakeTerm, TakeChld, EventsDone, Sample, Shutdown, loop
<1>5. CASE Environment
    BY <1>5 DEF Environment, Press, Click, Edit, AskToStop, OpenWindow, CloseWindow, Exit,
                GraceEnds, TimerExpires, daemon, loop
<1>. QED
    BY <1>1, <1>2, <1>3, <1>4, <1>5 DEF Next, Daemon

\* The environment is fixed.
LEMMA EnvStays == Next => env' = env
BY DEF Next, Daemon, Environment, Reload, Poll, TakeToggle, TakeTerm, TakeChld, SignalsDrained,
       TimerBranch, ReadEvents, HandleEvent, EventsDone, Sample, Shutdown,
       Press, Click, Edit, AskToStop, OpenWindow, CloseWindow, Exit, GraceEnds, TimerExpires

\* The part of WaitInv that a step changes: the child, the state and the timer.
Waits ==
    /\ Sure /\ state \in {"Hidden", "Visible"} => child # 0
    /\ Sure /\ state = "Spawning" /\ child = 0 => timer = "Respawn"
    /\ env.respawn /\ ~env.usable /\ child = 0 => timer = "Respawn"

\* After a toggle there is still something to wait for.
LEMMA WaitsToggled ==
    ASSUME ChildInv, WaitInv, Toggled, env' = env
    PROVE  Waits'
<1> USE DEF ChildInv, WaitInv, Waits, Sure
<1>1. CASE ~enabled \/ state = "Spawning"
    BY <1>1 DEF Toggled, session
<1>2. CASE enabled /\ state # "Spawning" /\ ~env.usable
    BY <1>2 DEF Toggled, session, After
<1>3. CASE enabled /\ env.usable /\ state = "Absent"
  <2>1. state' = "Spawning" /\ Spawn
      BY <1>3 DEF Toggled
  <2>. QED
      BY <1>3, <2>1, SpawnWaits
<1>4. CASE enabled /\ env.usable /\ state = "Hidden"
    BY <1>4 DEF Toggled, session, NotFound
<1>5. CASE enabled /\ env.usable /\ state = "Visible"
    BY <1>5 DEF Toggled, session, NotFound, Retract, After
<1>. QED
    BY <1>1, <1>2, <1>3, <1>4, <1>5

\* After the timer there is still something to wait for.
LEMMA WaitsTimer ==
    ASSUME ChildInv, WaitInv, TimerBranch, env' = env
    PROVE  Waits'
<1> USE DEF ChildInv, WaitInv, Waits, Sure
<1>1. CASE Respawn
  <2>1. CASE state \in {"Absent", "Spawning"}
    <3>1. state' = "Spawning" /\ Spawn
        BY <1>1, <2>1 DEF Respawn
    <3>. QED
        BY <3>1, SpawnWaits
  <2>2. CASE state \notin {"Absent", "Spawning"}
      BY <1>1, <2>2 DEF Respawn
  <2>. QED
      BY <2>1, <2>2
<1>2. CASE AppearRetry
  <2>1. child' = child /\ timer = "AppearRetry"
      BY <1>2 DEF AppearRetry
  <2>2. state' \in {state, After(state, "WindowHidden"), "Hidden"} /\ (state' = "Hidden" => state # "Absent")
      BY <1>2 DEF AppearRetry, After
  <2>. QED
      BY <2>1, <2>2 DEF After
<1>3. CASE UNCHANGED <<child, timer, state>>
    BY <1>3
<1>. QED
    BY <1>1, <1>2, <1>3 DEF TimerBranch, session

\* After any step there is still something to wait for.
LEMMA WaitsStep ==
    ASSUME ChildInv, WaitInv, Next, env' = env
    PROVE  Waits'
<1> USE DEF ChildInv, WaitInv, Waits, Sure
<1>1. CASE TakeToggle
    BY <1>1, WaitsToggled DEF TakeToggle
<1>2. CASE TimerBranch
    BY <1>2, WaitsTimer
<1>3. CASE TakeChld
    BY <1>3 DEF TakeChld, NoteExited, Arm, After
<1>4. CASE HandleEvent
  <2>1. env.usable
      BY <1>4 DEF HandleEvent
  <2>2. ASSUME NEW w, Focused(w)
        PROVE  Waits'
      BY <2>2 DEF Focused, Retract, session, After
  <2>3. ASSUME NEW w, Closed(w)
        PROVE  Waits'
      BY <2>1, <2>3 DEF Closed, session, After
  <2>. QED
      BY <1>4, <2>2, <2>3 DEF HandleEvent
<1>5. CASE Reload
    BY <1>5 DEF Reload, Retract, session, After
<1>6. CASE Poll \/ TakeTerm \/ SignalsDrained \/ ReadEvents \/ EventsDone \/ Sample \/ Shutdown
    BY <1>6 DEF Poll, TakeTerm, SignalsDrained, ReadEvents, EventsDone, Sample, Shutdown, session
<1>7. CASE Environment
    BY <1>7 DEF Environment, Press, Click, Edit, AskToStop, OpenWindow, CloseWindow, Exit,
                GraceEnds, TimerExpires, daemon
<1>. QED
    BY <1>1, <1>2, <1>3, <1>4, <1>5, <1>6, <1>7 DEF Next, Daemon

\* So there always is.
LEMMA WaitAlways == Spec => []WaitInv
<1>1. Init => WaitInv
    BY DEF Init, WaitInv
<1>2. ChildInv /\ WaitInv /\ [Next]_vars => WaitInv'
  <2>1. WaitInv /\ UNCHANGED vars => WaitInv'
      BY DEF WaitInv, Sure, vars, session, loop, screen
  <2>2. ASSUME ChildInv, WaitInv, Next
        PROVE  WaitInv'
    <3>1. env' = env
        BY <2>2, EnvStays
    <3>2. Waits'
        BY <2>2, <3>1, WaitsStep
    <3>3. env'.faults = 0 => faults' = 0
        BY <2>2, <3>1, FaultsStay DEF WaitInv
    <3>4. ~env'.usable => "events" \notin got' /\ inbox' = <<>>
        BY <2>2, <3>1, NoEvents DEF WaitInv
    <3>. QED
        BY <3>2, <3>3, <3>4 DEF WaitInv, Waits, Sure
  <2>. QED
      BY <2>1, <2>2
<1>. QED
    BY <1>1, <1>2, ChildAlways, PTL DEF Spec

\* DropdownManager's states and SessionSupervisor's child agree: a slot in use has a terminal,
\* a dead one has none.
THEOREM StatesMeanChild == Spec => []StateMatchesChild
<1>1. ChildInv /\ WaitInv => StateMatchesChild
    BY DEF ChildInv, WaitInv, Sure, StateMatchesChild
<1>. QED
    BY <1>1, ChildAlways, WaitAlways, PTL

-----------------------------------------------------------------------------
(* Where the window is *)

Announced == [name : {"activewindow", "closewindow"}, window : Windows \cup {Elsewhere}]
ScreenTyped ==
    /\ env \in Environments
    /\ win \in [Windows -> {"none", "shown", "hidden", "gone"}]
    /\ stream \in Seq(Announced) /\ inbox \in Seq(Announced)
    /\ faults \in 0..env.faults
    /\ strip \in BOOLEAN
    /\ addr \in Windows \cup {NoWindow}

\* What a step of the daemon does to the window and the slot.
Placing == PlaceWindow /\ state \in {"Hidden", "Visible"} /\ state' = "Visible"
PlacingFails == /\ PlaceFails /\ state \in {"Hidden", "Visible"}
                /\ Found = {} => state' \in {state, NotFound("Hidden")}
Retracting == Retract /\ state = "Visible"
RetractingFails == /\ ParkFails /\ state = "Visible"
                   /\ Found = {} => state' \in {state, NotFound("Hidden")}
Spawning == Spawn /\ state \in {"Absent", "Spawning"} /\ state' = "Spawning"
Resting == /\ UNCHANGED <<win, faults, slot>>
           /\ state' = state \/ (~env.usable /\ state' = After(state, "Toggle"))
Kept == UNCHANGED <<proc, child, timer, attempts>>
Losing == TakeChld \/ Shutdown
Effect ==
    \/ /\ Placing \/ PlacingFails \/ Retracting \/ RetractingFails
       /\ Kept /\ env.usable
    \/ Resting /\ UNCHANGED <<proc, child, attempts>> /\ timer' \in {timer, "None"}
    \/ Spawning
    \/ AppearRetry
    \/ \E w : Closed(w)
    \/ Losing

LEMMA DaemonEffect == ASSUME Daemon PROVE Effect
<1> USE DEF Kept, session
<1>1. CASE Reload
  <2>1. Kept
    BY <1>1 DEF Reload
  <2>2. CASE Retract /\ state = "Visible"
    BY <2>1, <2>2 DEF Effect, Retracting, Retract, Found, OwnedBy, Mapped
  <2>3. CASE ParkFails /\ UNCHANGED state /\ state = "Visible" /\ env.usable
    BY <2>1, <2>3 DEF Effect, RetractingFails
  <2>4. CASE ParkFails /\ UNCHANGED state /\ state = "Visible" /\ ~env.usable
    <3>1. UNCHANGED <<win, faults, slot>>
      BY <2>4 DEF ParkFails, Found, OwnedBy, Mapped
    <3>2. QED
      BY <2>1, <2>4, <3>1 DEF Effect, Resting
  <2>5. CASE PlaceWindow /\ UNCHANGED state /\ state = "Visible" /\ env.usable
    BY <2>1, <2>5 DEF Effect, Placing
  <2>6. CASE PlaceFails /\ UNCHANGED state /\ state = "Visible" /\ env.usable
    BY <2>1, <2>6 DEF Effect, PlacingFails
  <2>7. CASE UNCHANGED <<state, screen, slot>>
    BY <2>1, <2>7 DEF Effect, Resting, screen
  <2>8. QED
    BY <1>1, <2>2, <2>3, <2>4, <2>5, <2>6, <2>7 DEF Reload
<1>2. CASE TakeToggle
  <2>1. Toggled
    BY <1>2 DEF TakeToggle
  <2>2. CASE ~enabled \/ state = "Spawning"
    BY <2>1, <2>2 DEF Toggled, Effect, Resting, screen
  <2>3. CASE enabled /\ ~env.usable /\ state # "Spawning"
    BY <2>1, <2>3 DEF Toggled, Effect, Resting, screen
  <2>4. CASE enabled /\ env.usable /\ state = "Absent"
    BY <2>1, <2>4 DEF Toggled, Effect, Spawning
  <2>5. CASE enabled /\ env.usable /\ state = "Hidden"
    <3>1. Kept
      BY <2>1, <2>5 DEF Toggled
    <3>2. \/ PlaceWindow /\ state' = "Visible"
          \/ PlaceFails /\ Found = {} /\ state' = NotFound("Hidden")
          \/ PlaceFails /\ Found # {}
      BY <2>1, <2>5 DEF Toggled
    <3>3. QED
      BY <2>5, <3>1, <3>2 DEF Effect, Placing, PlacingFails
  <2>6. CASE enabled /\ env.usable /\ state = "Visible"
    <3>1. Kept
      BY <2>1, <2>6 DEF Toggled
    <3>2. \/ Retract
          \/ ParkFails /\ Found = {} /\ state' = NotFound("Hidden")
          \/ ParkFails /\ Found # {}
      BY <2>1, <2>6 DEF Toggled
    <3>3. QED
      BY <2>6, <3>1, <3>2 DEF Effect, Retracting, RetractingFails
  <2>7. QED
    BY <2>1, <2>2, <2>3, <2>4, <2>5, <2>6 DEF Toggled
<1>3. CASE TakeTerm \/ Poll \/ SignalsDrained \/ ReadEvents \/ EventsDone
  BY <1>3 DEF TakeTerm, Poll, SignalsDrained, ReadEvents, EventsDone, Effect, Resting, screen
<1>4. CASE TakeChld \/ Shutdown
  BY <1>4 DEF Effect, Losing
<1>5. CASE TimerBranch
  <2>1. CASE Respawn
    <3>1. CASE state \in {"Absent", "Spawning"}
      BY <2>1, <3>1 DEF Respawn, Effect, Spawning
    <3>2. CASE state \notin {"Absent", "Spawning"}
      BY <2>1, <3>2 DEF Respawn, Effect, Resting, screen
    <3>3. QED
      BY <3>1, <3>2
  <2>2. CASE AppearRetry
    BY <2>2 DEF Effect
  <2>3. CASE UNCHANGED <<proc, child, timer, attempts, state, screen, slot>>
    BY <2>3 DEF Effect, Resting, screen
  <2>4. QED
    BY <1>5, <2>1, <2>2, <2>3 DEF TimerBranch
<1>6. CASE HandleEvent
  <2>1. ASSUME NEW w, Focused(w) PROVE Effect
    <3>1. Kept
      BY <2>1 DEF Focused
    <3>2. CASE Retract /\ state = "Visible" /\ env.usable
      BY <3>1, <3>2 DEF Effect, Retracting
    <3>3. CASE ParkFails /\ UNCHANGED state /\ state = "Visible" /\ env.usable
      BY <3>1, <3>3 DEF Effect, RetractingFails
    <3>4. CASE UNCHANGED <<state, screen, slot>>
      BY <3>1, <3>4 DEF Effect, Resting, screen
    <3>5. QED
      BY <2>1, <3>2, <3>3, <3>4 DEF Focused
  <2>2. QED
    BY <1>6, <2>1 DEF HandleEvent, Effect
<1>7. CASE Sample
  <2>1. Kept
    BY <1>7 DEF Sample
  <2>2. QED
    BY <1>7, <2>1 DEF Sample, Effect, Placing, PlacingFails, Resting, screen
<1>8. QED
  BY <1>1, <1>2, <1>3, <1>4, <1>5, <1>6, <1>7 DEF Daemon

\* What the rest of the world does to them.
OutsideEffect ==
    \/ \E w \in Windows : OpenWindow(w) \/ CloseWindow(w)
    \/ \E n \in Procs : Exit(n)
    \/ UNCHANGED <<win, faults, addr, strip, proc, child, state, timer>>

LEMMA EnvironmentEffect == Environment => OutsideEffect
BY DEF Environment, OutsideEffect, Press, Click, Edit, AskToStop, GraceEnds, TimerExpires, daemon, screen

\* The windows a request can be about.
LEMMA FoundType ==
    /\ Found \subseteq Windows
    /\ Found # {} => env.usable
    /\ \A w \in Found : win[w] \in {"shown", "hidden"}
    /\ child # 0 /\ OwnedBy(child) # {} => Found = OwnedBy(child)
    /\ OwnedBy(child) # {} => Found # {}
BY DEF Found, OwnedBy, Mapped

\* Requests change what windows there are in no way but this, and fail no more often than the
\* surroundings allow.
LEMMA ScreenKept ==
    ASSUME ScreenTyped, Effect
    PROVE  /\ win' \in [Windows -> {"none", "shown", "hidden", "gone"}]
           /\ \A w \in Windows : win'[w] = win[w]
                                  \/ (win[w] \in {"shown", "hidden"} /\ win'[w] \in {"shown", "hidden"})
           /\ faults' \in {faults, faults - 1} /\ faults' \in 0..env.faults
           /\ strip' \in BOOLEAN
           /\ addr' \in Windows \cup {NoWindow}
           /\ addr' = addr \/ addr' = NoWindow \/ addr' \in Found
<1> USE DEF ScreenTyped
<1>0. env.faults \in Nat
  BY DropdownAssumption DEF EnvironmentType
<1>1. CASE Placing
  BY <1>0, <1>1, FoundType DEF Placing, PlaceWindow, Show
<1>2. CASE PlacingFails
  <2>1. CASE UNCHANGED <<win, strip, faults>>
    BY <1>0, <1>2, <2>1 DEF PlacingFails, PlaceFails
  <2>2. CASE Fault /\ (\E w \in Found : ShowStops(w)) /\ strip' \in {strip, strip /\ TabCount >= 2}
    <3>1. strip' \in BOOLEAN
      BY <2>2
    <3>2. PICK w \in Found : ShowStops(w)
      BY <2>2
    <3>3. addr' = addr
      BY <1>2 DEF PlacingFails, PlaceFails
    <3>4. win' = win \/ win' = [win EXCEPT ![w] = "shown"]
      BY <3>2 DEF ShowStops
    <3>5. faults' = faults - 1 /\ faults' \in 0..env.faults
      BY <1>0, <2>2 DEF Fault
    <3>6. QED
      BY <1>0, <3>1, <3>2, <3>3, <3>4, <3>5, FoundType
  <2>3. QED
    BY <1>2, <2>1, <2>2 DEF PlacingFails, PlaceFails
<1>3. CASE Retracting
  BY <1>0, <1>3, FoundType DEF Retracting, Retract, Park, Hide
<1>4. CASE RetractingFails
  BY <1>0, <1>4 DEF RetractingFails, ParkFails, Fault, slot
<1>5. CASE Resting
  BY <1>0, <1>5 DEF Resting, slot
<1>6. CASE Spawning
  BY <1>0, <1>6 DEF Spawning, Spawn, Fault, screen, slot
<1>7. CASE AppearRetry
  <2>1. CASE \E w \in Found : Park(w) /\ addr' = w /\ UNCHANGED strip
    BY <1>0, <2>1, FoundType DEF Park, Hide
  <2>2. CASE UNCHANGED <<screen, slot>>
    BY <1>0, <2>2 DEF screen, slot
  <2>3. CASE ParkFails
    BY <1>0, <2>3 DEF ParkFails, Fault, slot
  <2>4. QED
    BY <1>7, <2>1, <2>2, <2>3 DEF AppearRetry
<1>8. ASSUME NEW w, Closed(w)
      PROVE  UNCHANGED <<win, faults>> /\ strip' \in {strip, FALSE} /\ addr' \in {addr, NoWindow}
  BY <1>8 DEF Closed, screen, slot
<1>9. CASE Losing
  BY <1>0, <1>9 DEF Losing, TakeChld, Shutdown, screen, slot
<1>10. QED
  BY <1>0, <1>1, <1>2, <1>3, <1>4, <1>5, <1>6, <1>7, <1>8, <1>9 DEF Effect

LEMMA EventType == \A w \in Windows \cup {Elsewhere} : Event("activewindow", w) \in Announced
                                                   /\ Event("closewindow", w) \in Announced
BY DEF Event, Announced

\* What is announced, on its way and in the daemon's hands.
LEMMA StreamTyped ==
    ASSUME ScreenTyped, Next
    PROVE  stream' \in Seq(Announced) /\ inbox' \in Seq(Announced)
<1> USE DEF ScreenTyped
<1>1. CASE Environment
  <2>1. inbox' = inbox
    BY <1>1 DEF Environment, Press, Click, Edit, AskToStop, OpenWindow, CloseWindow, Exit, GraceEnds,
                TimerExpires, daemon, loop
  <2>2. stream' = stream \/ \E e \in Announced : stream' = Append(stream, e)
    BY <1>1, EventType DEF Environment, Press, Click, Edit, AskToStop, OpenWindow, CloseWindow, Exit,
                           GraceEnds, TimerExpires, screen
  <2>3. QED
    BY <2>1, <2>2
<1>2. CASE ReadEvents
  BY <1>2 DEF ReadEvents
<1>3. CASE Daemon /\ ~ReadEvents
  <2>1. inbox' = inbox \/ (inbox # <<>> /\ inbox' = Tail(inbox))
    BY <1>3 DEF Daemon, Reload, Poll, TakeToggle, TakeTerm, TakeChld, SignalsDrained, TimerBranch,
                HandleEvent, EventsDone, Sample, Shutdown, loop
  <2>2. ASSUME NEW w \in Found, Show(w) PROVE stream' \in Seq(Announced)
    BY <2>2, EventType, FoundType DEF Show
  <2>3. PlaceWindow \/ PlaceFails => stream' \in Seq(Announced)
    BY <2>2 DEF PlaceWindow, PlaceFails, ShowStops
  <2>4. Retract \/ ParkFails => stream' = stream
    BY DEF Retract, Park, Hide, ParkFails
  <2>5. Toggled => stream' \in Seq(Announced)
    BY <2>3, <2>4 DEF Toggled, Spawn, screen
  <2>6. TimerBranch => stream' = stream
    BY <2>4 DEF TimerBranch, Respawn, Spawn, AppearRetry, Park, Hide, screen
  <2>7. HandleEvent => stream' = stream
    BY <2>4 DEF HandleEvent, Focused, Closed, screen
  <2>8. Reload \/ Sample \/ TakeToggle => stream' \in Seq(Announced)
    BY <2>3, <2>4, <2>5 DEF Reload, Sample, TakeToggle, screen
  <2>9. Poll \/ TakeTerm \/ TakeChld \/ SignalsDrained \/ EventsDone \/ Shutdown => stream' = stream
    BY DEF Poll, TakeTerm, TakeChld, SignalsDrained, EventsDone, Shutdown, screen
  <2>10. stream' \in Seq(Announced)
    <3>1. stream' \in Seq(Announced) \/ stream' = stream
      BY <1>3, <2>6, <2>7, <2>8, <2>9 DEF Daemon
    <3>2. QED
      BY <3>1
  <2>11. inbox \in Seq(Announced)
    OBVIOUS
  <2>12. inbox' \in Seq(Announced)
    BY <2>1, <2>11
  <2>13. QED
    BY <2>10, <2>12
<1>4. QED
  BY <1>1, <1>2, <1>3 DEF Next

LEMMA ScreenAlways == Spec => []ScreenTyped
<1>1. ASSUME Init PROVE ScreenTyped
  <2>1. env \in Environments /\ env.faults \in Nat
    BY <1>1, DropdownAssumption DEF Init, EnvironmentType
  <2>2. faults \in 0..env.faults
    BY <1>1, <2>1 DEF Init
  <2>3. win \in [Windows -> {"none", "shown", "hidden", "gone"}]
    BY <1>1 DEF Init
  <2>4. stream = <<>> /\ inbox = <<>> /\ strip = FALSE /\ addr = NoWindow
    BY <1>1 DEF Init
  <2>5. stream \in Seq(Announced) /\ inbox \in Seq(Announced)
    BY <2>4
  <2>6. strip \in BOOLEAN /\ addr \in Windows \cup {NoWindow}
    BY <2>4
  <2>7. QED
    BY <2>1, <2>2, <2>3, <2>5, <2>6 DEF ScreenTyped
<1>2. ASSUME ScreenTyped, Next PROVE ScreenTyped'
  <2>1. env' = env
    BY <1>2, EnvStays
  <2>2. CASE Daemon
    BY <1>2, <2>1, <2>2, DaemonEffect, ScreenKept, StreamTyped DEF ScreenTyped
  <2>3. CASE Environment
    <3>1. faults' = faults /\ addr' = addr /\ strip' = strip
      BY <2>3 DEF Environment, Press, Click, Edit, AskToStop, OpenWindow, CloseWindow, Exit, GraceEnds,
                  TimerExpires, daemon, screen
    <3>2. win' \in [Windows -> {"none", "shown", "hidden", "gone"}]
      BY <1>2, <2>3 DEF ScreenTyped, Environment, Press, Click, Edit, AskToStop, OpenWindow, CloseWindow,
                        Exit, GraceEnds, TimerExpires, screen
    <3>3. QED
      BY <1>2, <2>1, <3>1, <3>2, StreamTyped DEF ScreenTyped
  <2>4. QED
    BY <1>2, <2>2, <2>3 DEF Next
<1>3. ScreenTyped /\ UNCHANGED vars => ScreenTyped'
  BY DEF ScreenTyped, vars, screen, slot, loop
<1>4. QED
  BY <1>1, <1>2, <1>3, PTL DEF Spec

\* What has started stays known.
LEMMA ProcsStay ==
    ASSUME ChildInv, Next
    PROVE  \A n \in Procs : proc[n] # "none" => proc'[n] # "none"
<1> USE DEF ChildInv
<1>1. CASE Daemon
  <2>1. CASE Spawning
    BY <2>1, SpawnOutcome DEF Spawning
  <2>2. ASSUME NEW w, Closed(w) PROVE \A n \in Procs : proc[n] # "none" => proc'[n] # "none"
    BY <2>2 DEF Closed, Killed, session
  <2>3. CASE Losing
    BY <2>3 DEF Losing, TakeChld, Shutdown
  <2>4. CASE UNCHANGED proc
    BY <2>4
  <2>5. AppearRetry => UNCHANGED proc
    BY DEF AppearRetry
  <2>6. QED
    BY <1>1, <2>1, <2>2, <2>3, <2>4, <2>5, DaemonEffect DEF Effect, Kept
<1>2. CASE Environment
  <2>1. ASSUME NEW n \in Procs, Exit(n) PROVE \A m \in Procs : proc[m] # "none" => proc'[m] # "none"
    BY <2>1 DEF Exit
  <2>2. (\E w \in Windows : OpenWindow(w) \/ CloseWindow(w)) => UNCHANGED proc
    BY DEF OpenWindow, CloseWindow
  <2>3. QED
    BY <1>2, <2>1, <2>2, EnvironmentEffect DEF OutsideEffect
<1>3. QED
  BY <1>1, <1>2 DEF Next

\* A window belongs to a session that was forked, and the slot's window has been there.
WindowInv ==
    /\ proc[1] # "none"
    /\ \A w \in Windows \ {Intruder} : win[w] # "none" => proc[Owner(w)] # "none"
    /\ addr # NoWindow => win[addr] # "none"

LEMMA OwnerType == /\ \A w \in Windows \ {Intruder} : Owner(w) \in Procs
                   /\ Owner(Intruder) = 0 /\ 1 \in Procs /\ 0 \notin Procs
                   /\ NoWindow \notin Windows /\ Intruder \in Windows
BY DropdownAssumption DEF Owner, Windows, Procs, Intruder, NoWindow

LEMMA WindowStep ==
    ASSUME ChildInv, ScreenTyped, WindowInv, Next
    PROVE  WindowInv'
<1> USE DEF WindowInv
<1>1. \A n \in Procs : proc[n] # "none" => proc'[n] # "none"
  BY ProcsStay
<1>2. proc'[1] # "none"
  BY <1>1, OwnerType
<1>3. CASE Daemon
  <2>1. \A w \in Windows : win'[w] = win[w] \/ (win[w] # "none" /\ win'[w] # "none")
    BY <1>3, DaemonEffect, ScreenKept
  <2>2. \A w \in Windows \ {Intruder} : win'[w] # "none" => proc'[Owner(w)] # "none"
    BY <1>1, <2>1, OwnerType
  <2>3. addr' # NoWindow => win'[addr'] # "none"
    BY <1>3, <2>1, DaemonEffect, ScreenKept, FoundType DEF ScreenTyped
  <2>4. QED
    BY <1>2, <2>2, <2>3
<1>4. CASE Environment
  <2>1. addr' = addr
    BY <1>4 DEF Environment, Press, Click, Edit, AskToStop, OpenWindow, CloseWindow, Exit, GraceEnds,
                TimerExpires, daemon
  <2>2. ASSUME NEW w \in Windows, OpenWindow(w) PROVE WindowInv'
    <3>1. win' = [win EXCEPT ![w] = "shown"] /\ (w # Intruder => proc[Owner(w)] = "running") /\ proc' = proc
      BY <2>2 DEF OpenWindow
    <3>2. QED
      BY <1>2, <2>1, <3>1 DEF ScreenTyped
  <2>3. ASSUME NEW w \in Windows, CloseWindow(w) PROVE WindowInv'
    <3>1. win' = [win EXCEPT ![w] = "gone"] /\ win[w] # "none" /\ proc' = proc
      BY <2>3 DEF CloseWindow
    <3>2. QED
      BY <1>2, <2>1, <3>1 DEF ScreenTyped
  <2>4. CASE UNCHANGED win
    BY <1>1, <1>2, <2>1, <2>4, OwnerType DEF ScreenTyped
  <2>5. (\E n \in Procs : Exit(n)) => UNCHANGED win
    BY DEF Exit, screen
  <2>6. QED
    BY <1>4, <2>2, <2>3, <2>4, <2>5, EnvironmentEffect DEF OutsideEffect
<1>5. QED
  BY <1>3, <1>4 DEF Next

\* As long as nothing has failed, a slot in use has its child.
Unfailed == env.usable /\ faults = env.faults
LivelyInv == Unfailed /\ state # "Absent" => child # 0

\* A step that something failed in is seen in the number of faults.
LEMMA FaultSeen ==
    ASSUME ScreenTyped, Fault, env' = env
    PROVE  ~Unfailed'
<1>1. env.faults \in Nat
  BY DropdownAssumption DEF ScreenTyped, EnvironmentType
<1>2. QED
  BY <1>1 DEF Fault, Unfailed, ScreenTyped

LEMMA LivelyStep ==
    ASSUME ChildInv, ScreenTyped, LivelyInv, Next
    PROVE  LivelyInv'
<1> SUFFICES ASSUME Unfailed', state' # "Absent" PROVE child' # 0
  BY DEF LivelyInv
<1>0. env' = env /\ ~Fault
  BY EnvStays, FaultSeen
<1>1. Unfailed
  <2>1. env.faults \in Nat /\ faults \in 0..env.faults
    BY DropdownAssumption DEF ScreenTyped, EnvironmentType
  <2>2. CASE Daemon
    BY <1>0, <2>1, <2>2, DaemonEffect, ScreenKept DEF Unfailed
  <2>3. CASE Environment
    <3>1. faults' = faults
      BY <2>3 DEF Environment, Press, Click, Edit, AskToStop, OpenWindow, CloseWindow, Exit, GraceEnds,
                  TimerExpires, screen
    <3>2. QED
      BY <1>0, <3>1 DEF Unfailed
  <2>4. QED
    BY <2>2, <2>3 DEF Next
<1>2. CASE Daemon
  <2>1. CASE (Placing \/ PlacingFails \/ Retracting \/ RetractingFails) /\ Kept
    <3>1. child' = child /\ state # "Absent"
      BY <2>1 DEF Kept, Placing, PlacingFails, Retracting, RetractingFails
    <3>2. QED
      BY <1>1, <3>1 DEF LivelyInv
  <2>2. CASE Resting /\ UNCHANGED <<proc, child>>
    BY <1>1, <2>2 DEF Resting, Unfailed, LivelyInv
  <2>3. CASE Spawning
    BY <1>0, <2>3, OwnerType DEF Spawning, Spawn
  <2>4. CASE AppearRetry
    <3>1. child' = child /\ (state = "Absent" => state' = "Absent")
      BY <2>4 DEF AppearRetry, After
    <3>2. QED
      BY <1>1, <3>1 DEF LivelyInv
  <2>5. ASSUME NEW w, Closed(w) PROVE child' # 0
    <3>1. CASE addr # w
      BY <1>1, <2>5, <3>1 DEF Closed, session, LivelyInv
    <3>2. CASE addr = w
      BY <2>5, <3>2, AfterStates DEF Closed, ChildInv
    <3>3. QED
      BY <3>1, <3>2
  <2>6. CASE Losing
    BY <1>1, <2>6, AfterStates DEF Losing, TakeChld, Shutdown, LivelyInv, ChildInv
  <2>7. QED
    BY <1>2, <2>1, <2>2, <2>3, <2>4, <2>5, <2>6, DaemonEffect DEF Effect
<1>3. CASE Environment
  BY <1>1, <1>3 DEF LivelyInv, Environment, Press, Click, Edit, AskToStop, OpenWindow, CloseWindow, Exit,
                    GraceEnds, TimerExpires, daemon
<1>4. QED
  BY <1>2, <1>3 DEF Next

\* The only window a session ever had is where the state says; none of a session that is being
\* booted has been the slot's yet.
PlacedInv ==
    faults = env.faults /\ OnlyWindow(addr) =>
        /\ state # "Spawning"
        /\ state = "Visible" => win[addr] = "shown"
        /\ state = "Hidden" => win[addr] = "hidden"

LEMMA OnlyWindowMeans ==
    ASSUME NEW w
    PROVE  OnlyWindow(w) <=> /\ w \in Windows /\ env.usable /\ win[w] \in {"shown", "hidden"}
                             /\ Owner(w) = child
                             /\ \A v \in Windows \ {w} : Owner(v) = child => win[v] = "none"
BY DEF OnlyWindow, OwnedBy, Mapped

LEMMA PlacedStep ==
    ASSUME ChildInv, ScreenTyped, WindowInv, LivelyInv, PlacedInv, Next
    PROVE  PlacedInv'
<1> DEFINE Right(s, w, v) == s # "Spawning" /\ (s = "Visible" => w[v] = "shown")
                                            /\ (s = "Hidden" => w[v] = "hidden")
<1> SUFFICES ASSUME faults' = env'.faults, OnlyWindow(addr)' PROVE Right(state', win', addr')
  BY DEF PlacedInv
<1>0. env' = env /\ ~Fault
  BY EnvStays, FaultSeen DEF Unfailed, OnlyWindow, OwnedBy, Mapped
<1>1. /\ addr' \in Windows /\ env.usable /\ win'[addr'] \in {"shown", "hidden"} /\ Owner(addr') = child'
      /\ \A v \in Windows \ {addr'} : Owner(v) = child' => win'[v] = "none"
  BY <1>0 DEF OnlyWindow, OwnedBy, Mapped
<1>2. faults = env.faults
  <2>1. env.faults \in Nat /\ faults \in 0..env.faults
    BY DropdownAssumption DEF ScreenTyped, EnvironmentType
  <2>2. CASE Daemon
    BY <1>0, <2>1, <2>2, DaemonEffect, ScreenKept
  <2>3. CASE Environment
    <3>1. faults' = faults
      BY <2>3 DEF Environment, Press, Click, Edit, AskToStop, OpenWindow, CloseWindow, Exit, GraceEnds,
                  TimerExpires, screen
    <3>2. QED
      BY <1>0, <3>1
  <2>4. QED
    BY <2>2, <2>3 DEF Next
<1>3. state # "Absent" => child # 0
  BY <1>1, <1>2 DEF LivelyInv, Unfailed
<1>4. Found = {} /\ UNCHANGED <<win, addr, child>> => FALSE
  BY <1>1 DEF Found, OwnedBy, Mapped
<1>5. UNCHANGED <<win, addr, child, state>> => Right(state', win', addr')
  <2>1. ASSUME UNCHANGED <<win, addr, child, state>> PROVE Right(state', win', addr')
    <3>1. OnlyWindow(addr)
      BY <1>1, <2>1, OnlyWindowMeans
    <3>2. QED
      BY <1>2, <2>1, <3>1 DEF PlacedInv
  <2>2. QED
    BY <2>1
<1>6. CASE Daemon
  <2>1. CASE Placing
    BY <2>1, FoundType DEF Placing, PlaceWindow, Show, ScreenTyped
  <2>2. CASE PlacingFails /\ Kept
    <3>1. Found = {} /\ UNCHANGED <<win, addr, child>>
      BY <1>0, <2>2 DEF PlacingFails, PlaceFails, Kept
    <3>2. QED
      BY <1>4, <3>1
  <2>3. CASE Retracting /\ Kept
    <3>1. PICK w \in Found : Park(w)
      BY <2>3 DEF Retracting, Retract
    <3>2. state = "Visible" /\ state' = "Hidden" /\ addr' = addr /\ child' = child
      BY <2>3 DEF Retracting, Retract, Kept, After
    <3>3. win' = [win EXCEPT ![w] = "hidden"] /\ w \in Windows /\ win[w] \in {"shown", "hidden"}
      BY <3>1, FoundType DEF Park, Hide
    <3>4. addr \in OwnedBy(child)
      BY <1>1, <3>2, <3>3 DEF OwnedBy, Mapped, ScreenTyped
    <3>5. Owner(w) = child
      BY <1>3, <3>2, <3>4, FoundType DEF OwnedBy
    <3>6. w = addr
      BY <1>1, <3>2, <3>3, <3>5 DEF ScreenTyped
    <3>7. QED
      BY <3>2, <3>3, <3>6 DEF ScreenTyped
  <2>4. CASE RetractingFails /\ Kept
    <3>1. Found = {} /\ UNCHANGED <<win, addr, child>>
      BY <1>0, <2>4 DEF RetractingFails, ParkFails, Kept, slot
    <3>2. QED
      BY <1>4, <3>1
  <2>5. CASE Resting /\ UNCHANGED <<proc, child>>
    BY <1>1, <1>5, <2>5 DEF Resting, slot
  <2>6. CASE Spawning
    <3>1. PICK n \in Procs : SpawnTracked(n) /\ child' = n /\ UNCHANGED <<screen, addr>>
      BY <1>0, <2>6 DEF Spawning, Spawn
    <3>2. proc[n] = "none" /\ Owner(addr) = n /\ addr \in Windows \ {Intruder} /\ win[addr] # "none"
      BY <1>1, <3>1, OwnerType DEF SpawnTracked, screen
    <3>3. QED
      BY <3>2 DEF WindowInv
  <2>7. CASE AppearRetry
    <3>1. CASE \E w \in Found : Park(w) /\ addr' = w /\ state' = After(state, "WindowHidden")
      BY <3>1, FoundType, AfterStates DEF Park, Hide, ScreenTyped, ChildInv, After
    <3>2. CASE ParkFails
      <4>1. Found = {} /\ UNCHANGED <<win, addr, child>>
        BY <1>0, <2>7, <3>2 DEF AppearRetry, ParkFails, slot
      <4>2. QED
        BY <1>4, <4>1
    <3>3. QED
      BY <1>1, <2>7, <3>1, <3>2 DEF AppearRetry
  <2>8. ASSUME NEW w, Closed(w) PROVE Right(state', win', addr')
    BY <1>1, <1>5, <2>8, OwnerType DEF Closed, session, slot, screen
  <2>9. CASE Losing
    BY <1>5, <2>9, AfterStates DEF Losing, TakeChld, Shutdown, screen, slot, ChildInv
  <2>10. QED
    BY <1>6, <2>1, <2>2, <2>3, <2>4, <2>5, <2>6, <2>7, <2>8, <2>9, DaemonEffect DEF Effect
<1>7. CASE Environment
  <2>1. UNCHANGED <<addr, child, state>>
    BY <1>7 DEF Environment, Press, Click, Edit, AskToStop, OpenWindow, CloseWindow, Exit, GraceEnds,
                TimerExpires, daemon
  <2>2. ASSUME NEW w \in Windows, win' = [win EXCEPT ![w] = "shown"] \/ win' = [win EXCEPT ![w] = "gone"],
               win'[w] = "shown" => win[w] = "none"
        PROVE  Right(state', win', addr')
    <3>1. w # addr
      BY <1>1, <2>1, <2>2, OwnerType DEF ScreenTyped, WindowInv
    <3>2. Owner(w) # child
      BY <1>1, <2>1, <2>2, <3>1 DEF ScreenTyped
    <3>3. win'[addr] = win[addr] /\ \A v \in Windows : Owner(v) = child => win'[v] = win[v]
      BY <1>1, <2>1, <2>2, <3>1, <3>2 DEF ScreenTyped
    <3>4. OnlyWindow(addr)
      BY <1>1, <2>1, <3>3, OnlyWindowMeans
    <3>5. QED
      BY <1>2, <2>1, <3>3, <3>4 DEF PlacedInv
  <2>3. ASSUME NEW w \in Windows, OpenWindow(w) \/ CloseWindow(w) PROVE Right(state', win', addr')
    BY <2>2, <2>3 DEF OpenWindow, CloseWindow, ScreenTyped
  <2>4. CASE UNCHANGED win
    BY <1>5, <2>1, <2>4
  <2>5. (\E n \in Procs : Exit(n)) => UNCHANGED win
    BY DEF Exit, screen
  <2>6. QED
    BY <1>7, <2>3, <2>4, <2>5, EnvironmentEffect DEF OutsideEffect
<1>8. QED
  BY <1>6, <1>7 DEF Next

\* A session none of whose windows has appeared has one to come that nobody looks for; the only
\* window of one, when it is not the slot's, came like that or is where the state says.
Unseen == \A v \in Windows : Owner(v) = child => win[v] = "none"
UntakenInv ==
    faults = env.faults /\ env.usable =>
        /\ state \in {"Hidden", "Visible"} /\ Unseen => GaveUp \/ StandIn
        /\ \A w \in Windows : OnlyWindow(w) /\ addr # w =>
              /\ state = "Visible" => win[w] = "shown"
              /\ state = "Hidden" => win[w] = "hidden" \/ GaveUp \/ StandIn

\* What is found when the supervised process has one window, and when it has had none.
LEMMA FoundOnly ==
    ASSUME NEW w \in Windows, child # 0, OnlyWindow(w)
    PROVE  Found = {w}
<1>1. OwnedBy(child) = {w}
  BY OnlyWindowMeans DEF OwnedBy, Mapped
<1>2. QED
  BY <1>1 DEF Found

LEMMA FoundOther ==
    ASSUME NEW w \in Found, Unseen
    PROVE  w \in Windows /\ Owner(w) # child
BY DEF Unseen, Found, OwnedBy, Mapped

LEMMA UnseenStep ==
    ASSUME ChildInv, ScreenTyped, WindowInv, LivelyInv, UntakenInv, Next,
           faults = env.faults, env.usable, faults' = env'.faults, env' = env,
           state' \in {"Hidden", "Visible"}, Unseen'
    PROVE  GaveUp' \/ StandIn'
<1>0. ~Fault
  BY FaultSeen DEF Unfailed
<1>1. CASE Daemon
  <2>1. child' = child => Unseen
    BY <1>1, DaemonEffect, ScreenKept DEF Unseen
  <2>2. CASE Placing /\ Kept
    <3>1. PICK w \in Found : addr' = w
      BY <2>2 DEF Placing, PlaceWindow
    <3>2. Owner(w) # child /\ w \in Windows /\ child' = child
      BY <2>1, <2>2, <3>1, FoundOther DEF Kept
    <3>3. QED
      BY <3>1, <3>2, OwnerType DEF StandIn
  <2>3. CASE (PlacingFails \/ Retracting \/ RetractingFails) /\ Kept
    <3>1. UNCHANGED <<addr, child, attempts>> /\ state \in {"Hidden", "Visible"}
      BY <2>3 DEF PlacingFails, PlaceFails, Retracting, Retract, RetractingFails, ParkFails, slot, Kept
    <3>2. QED
      BY <2>1, <3>1 DEF UntakenInv, GaveUp, StandIn
  <2>4. CASE Resting /\ UNCHANGED <<proc, child, attempts>>
    <3>1. UNCHANGED <<addr, child, attempts, state>>
      BY <2>4 DEF Resting, slot
    <3>2. QED
      BY <2>1, <3>1 DEF UntakenInv, GaveUp, StandIn
  <2>5. CASE Spawning
    BY <2>5 DEF Spawning
  <2>6. CASE AppearRetry
    <3>1. child' = child
      BY <2>6 DEF AppearRetry
    <3>2. ASSUME NEW w \in Found, addr' = w PROVE StandIn'
      BY <2>1, <3>1, <3>2, FoundOther, OwnerType DEF StandIn
    <3>3. CASE state = "Spawning" /\ (MoreAttempts(attempts') => UNCHANGED state)
      BY <3>3 DEF GaveUp
    <3>4. CASE ParkFails /\ UNCHANGED <<attempts, state>>
      <4>1. addr' = addr
        BY <3>4 DEF ParkFails, slot
      <4>2. QED
        BY <2>1, <3>1, <3>4, <4>1 DEF UntakenInv, GaveUp, StandIn
    <3>5. QED
      BY <2>6, <3>2, <3>3, <3>4 DEF AppearRetry
  <2>7. ASSUME NEW w, Closed(w) PROVE GaveUp' \/ StandIn'
    <3>1. CASE addr # w
      <4>1. UNCHANGED <<addr, child, attempts, state>>
        BY <2>7, <3>1 DEF Closed, session, slot
      <4>2. QED
        BY <2>1, <4>1 DEF UntakenInv, GaveUp, StandIn
    <3>2. CASE addr = w
      BY <2>7, <3>2, AfterStates DEF Closed, ChildInv
    <3>3. QED
      BY <3>1, <3>2
  <2>8. CASE Losing
    <3>1. child' = child /\ UNCHANGED <<addr, attempts, state>>
      BY <2>8, AfterStates DEF Losing, TakeChld, Shutdown, slot, ChildInv
    <3>2. QED
      BY <2>1, <3>1 DEF UntakenInv, GaveUp, StandIn
  <2>9. QED
    BY <1>1, <2>2, <2>3, <2>4, <2>5, <2>6, <2>7, <2>8, DaemonEffect DEF Effect
<1>2. CASE Environment
  <2>1. UNCHANGED <<addr, child, attempts, state>>
    BY <1>2 DEF Environment, Press, Click, Edit, AskToStop, OpenWindow, CloseWindow, Exit, GraceEnds,
                TimerExpires, daemon
  <2>2. \A v \in Windows : win'[v] = "none" => win[v] = "none"
    BY <1>2 DEF Environment, Press, Click, Edit, AskToStop, OpenWindow, CloseWindow, Exit, GraceEnds,
                TimerExpires, screen, ScreenTyped
  <2>3. Unseen
    BY <2>1, <2>2 DEF Unseen
  <2>4. QED
    BY <2>1, <2>3 DEF UntakenInv, GaveUp, StandIn
<1>3. QED
  BY <1>1, <1>2 DEF Next

LEMMA UntakenStep ==
    ASSUME ChildInv, ScreenTyped, WindowInv, LivelyInv, UntakenInv, Next
    PROVE  UntakenInv'
<1> SUFFICES ASSUME faults' = env'.faults, env'.usable PROVE UntakenInv'
  BY DEF UntakenInv
<1>0. env' = env /\ ~Fault
  BY EnvStays, FaultSeen DEF Unfailed
<1>1. faults = env.faults /\ env.usable
  <2>1. env.faults \in Nat /\ faults \in 0..env.faults
    BY DropdownAssumption DEF ScreenTyped, EnvironmentType
  <2>2. CASE Daemon
    BY <1>0, <2>1, <2>2, DaemonEffect, ScreenKept
  <2>3. CASE Environment
    <3>1. faults' = faults
      BY <2>3 DEF Environment, Press, Click, Edit, AskToStop, OpenWindow, CloseWindow, Exit, GraceEnds,
                  TimerExpires, screen
    <3>2. QED
      BY <1>0, <3>1
  <2>4. QED
    BY <2>2, <2>3 DEF Next
<1>2. state \in {"Hidden", "Visible", "Spawning"} => child # 0
  BY <1>1 DEF LivelyInv, Unfailed
<1>3. state' \in {"Hidden", "Visible"} /\ Unseen' => GaveUp' \/ StandIn'
  BY <1>0, <1>1, UnseenStep
<1>4. ASSUME NEW w \in Windows, OnlyWindow(w)', addr' # w
      PROVE  /\ state' = "Visible" => win'[w] = "shown"
             /\ state' = "Hidden" => win'[w] = "hidden" \/ GaveUp' \/ StandIn'
  <2> DEFINE Right == /\ state' = "Visible" => win'[w] = "shown"
                      /\ state' = "Hidden" => win'[w] = "hidden" \/ GaveUp' \/ StandIn'
  <2>0. /\ win'[w] \in {"shown", "hidden"} /\ Owner(w) = child'
        /\ \A v \in Windows \ {w} : Owner(v) = child' => win'[v] = "none"
    BY <1>4 DEF OnlyWindow, OwnedBy, Mapped
  <2>1. UNCHANGED <<win, addr, child, state, attempts>> => Right
    <3>1. ASSUME UNCHANGED <<win, addr, child, state, attempts>> PROVE Right
      <4>1. OnlyWindow(w)
        BY <1>1, <2>0, <3>1, OnlyWindowMeans
      <4>2. QED
        BY <1>1, <1>4, <3>1, <4>1 DEF UntakenInv, GaveUp, StandIn
    <3>2. QED
      BY <3>1
  <2>2. Found = {} /\ UNCHANGED <<win, child>> => FALSE
    BY <1>1, <2>0 DEF Found, OwnedBy, Mapped
  <2>3. CASE Daemon
    <3>1. child' = child => OnlyWindow(w)
      <4>1. \A v \in Windows : win'[v] = win[v] \/ (win[v] \in {"shown", "hidden"} /\ win'[v] # "none")
        BY <2>3, DaemonEffect, ScreenKept
      <4>2. QED
        BY <1>1, <2>0, <4>1, OnlyWindowMeans
    <3>2. CASE Placing /\ Kept
      <4>1. Found = {w}
        BY <1>2, <3>1, <3>2, FoundOnly DEF Placing, Kept
      <4>2. QED
        BY <1>4, <3>2, <4>1 DEF Placing, PlaceWindow
    <3>3. CASE (PlacingFails \/ RetractingFails) /\ Kept
      <4>1. Found = {} /\ UNCHANGED <<win, child>>
        BY <1>0, <3>3 DEF PlacingFails, PlaceFails, RetractingFails, ParkFails, Kept
      <4>2. QED
        BY <2>2, <4>1
    <3>4. CASE Retracting /\ Kept
      <4>1. Found = {w}
        BY <1>2, <3>1, <3>4, FoundOnly DEF Retracting, Kept
      <4>2. win' = [win EXCEPT ![w] = "hidden"] /\ state' = "Hidden"
        BY <3>4, <4>1 DEF Retracting, Retract, Park, Hide, After
      <4>3. QED
        BY <4>2 DEF ScreenTyped
    <3>5. CASE Resting /\ UNCHANGED <<proc, child, attempts>>
      BY <1>1, <2>1, <3>5 DEF Resting, slot
    <3>6. CASE Spawning
      BY <3>6 DEF Spawning
    <3>7. CASE AppearRetry
      <4>1. child' = child /\ (state = "Absent" => state' = "Absent")
        BY <3>7 DEF AppearRetry, After
      <4>2. state # "Absent" => Found = {w}
        BY <1>2, <3>1, <4>1, FoundOnly DEF ChildInv
      <4>3. state # "Absent" /\ ParkFails => FALSE
        BY <1>0, <4>2 DEF ParkFails
      <4>4. QED
        BY <1>1, <1>4, <3>7, <4>1, <4>2, <4>3 DEF AppearRetry
    <3>8. ASSUME NEW v, Closed(v) PROVE Right
      <4>1. CASE addr # v
        BY <2>1, <3>8, <4>1 DEF Closed, session, slot, screen
      <4>2. CASE addr = v
        BY <3>8, <4>2, AfterStates DEF Closed, ChildInv
      <4>3. QED
        BY <4>1, <4>2
    <3>9. CASE Losing
      <4>1. state' = "Absent" \/ UNCHANGED <<win, addr, child, state, attempts>>
        BY <3>9, AfterStates DEF Losing, TakeChld, Shutdown, screen, slot, ChildInv
      <4>2. QED
        BY <2>1, <4>1
    <3>10. QED
      BY <2>3, <3>2, <3>3, <3>4, <3>5, <3>6, <3>7, <3>8, <3>9, DaemonEffect DEF Effect
  <2>4. CASE Environment
    <3>1. UNCHANGED <<addr, child, attempts, state>>
      BY <2>4 DEF Environment, Press, Click, Edit, AskToStop, OpenWindow, CloseWindow, Exit, GraceEnds,
                  TimerExpires, daemon
    <3>2. ASSUME NEW v \in Windows, OpenWindow(v) PROVE Right
      <4>1. win' = [win EXCEPT ![v] = "shown"] /\ win[v] = "none"
        BY <3>2 DEF OpenWindow
      <4>2. CASE v = w
        <5>1. win'[w] = "shown" /\ Unseen
          BY <2>0, <3>1, <4>1, <4>2 DEF Unseen, ScreenTyped
        <5>2. QED
          BY <1>1, <3>1, <5>1 DEF UntakenInv, GaveUp, StandIn
      <4>3. CASE v # w
        <5>1. Owner(v) # child /\ win'[w] = win[w] /\ OnlyWindow(w)
          BY <1>1, <2>0, <3>1, <4>1, <4>3, OnlyWindowMeans DEF ScreenTyped
        <5>2. QED
          BY <1>1, <1>4, <3>1, <5>1 DEF UntakenInv, GaveUp, StandIn
      <4>4. QED
        BY <4>2, <4>3
    <3>3. ASSUME NEW v \in Windows, CloseWindow(v) PROVE Right
      <4>1. win' = [win EXCEPT ![v] = "gone"] /\ win[v] # "none"
        BY <3>3 DEF CloseWindow
      <4>2. v # w /\ Owner(v) # child
        BY <2>0, <3>1, <4>1 DEF ScreenTyped
      <4>3. win'[w] = win[w] /\ OnlyWindow(w)
        BY <1>1, <2>0, <3>1, <4>1, <4>2, OnlyWindowMeans DEF ScreenTyped
      <4>4. QED
        BY <1>1, <1>4, <3>1, <4>3 DEF UntakenInv, GaveUp, StandIn
    <3>4. CASE UNCHANGED win
      BY <2>1, <3>1, <3>4
    <3>5. (\E n \in Procs : Exit(n)) => UNCHANGED win
      BY DEF Exit, screen
    <3>6. QED
      BY <2>4, <3>2, <3>3, <3>4, <3>5, EnvironmentEffect DEF OutsideEffect
  <2>5. QED
    BY <2>3, <2>4 DEF Next
<1>5. QED
  BY <1>3, <1>4 DEF UntakenInv

\* That a window is gone is on its way to the daemon, which forgets it then.
Says(s, w) == \E i \in DOMAIN s : s[i] = Event("closewindow", w)
ToldInv ==
    /\ inbox # <<>> => "events" \notin got /\ pc = "events"
    /\ addr \in Windows /\ win[addr] = "gone" => Says(stream, addr) \/ Says(inbox, addr)

LEMMA SaysAppend ==
    ASSUME NEW s \in Seq(Announced), NEW e, NEW w
    PROVE  /\ Says(s, w) => Says(Append(s, e), w)
           /\ e = Event("closewindow", w) => Says(Append(s, e), w)
<1> DEFINE t == Append(s, e)
<1>1. Len(s) \in Nat /\ DOMAIN s = 1..Len(s) /\ DOMAIN t = 1..(Len(s) + 1)
      /\ \A i \in DOMAIN s : t[i] = s[i]
  OBVIOUS
<1>2. t[Len(s) + 1] = e
  OBVIOUS
<1> HIDE DEF t
<1>3. QED
  BY <1>1, <1>2 DEF Says, t

LEMMA SaysTail ==
    ASSUME NEW s \in Seq(Announced), NEW w, s # <<>>, Says(s, w), Head(s) # Event("closewindow", w)
    PROVE  Says(Tail(s), w)
<1> DEFINE t == Tail(s)
<1>1. Len(s) \in Nat \ {0} /\ DOMAIN s = 1..Len(s) /\ DOMAIN t = 1..(Len(s) - 1)
      /\ (\A i \in DOMAIN t : t[i] = s[i + 1]) /\ Head(s) = s[1]
  OBVIOUS
<1> HIDE DEF t
<1>2. PICK i \in DOMAIN s : s[i] = Event("closewindow", w)
  BY DEF Says
<1>3. i # 1 /\ i - 1 \in DOMAIN t /\ t[i - 1] = s[i]
  BY <1>1, <1>2
<1>4. QED
  BY <1>2, <1>3 DEF Says, t

LEMMA StreamGrows ==
    ASSUME Daemon, ~ReadEvents
    PROVE  stream' = stream \/ \E e : stream' = Append(stream, e)
<1> DEFINE Grows == stream' = stream \/ \E e : stream' = Append(stream, e)
<1>1. PlaceWindow => Grows
  BY DEF PlaceWindow, Show
<1>2. PlaceFails => stream' = stream
  BY DEF PlaceFails, ShowStops
<1>3. Retract \/ ParkFails => stream' = stream
  BY DEF Retract, Park, Hide, ParkFails
<1>4. Toggled => Grows
  BY <1>1, <1>2, <1>3 DEF Toggled, Spawn, screen
<1>5. TimerBranch \/ HandleEvent => stream' = stream
  BY <1>3 DEF TimerBranch, Respawn, Spawn, AppearRetry, Park, Hide, screen, HandleEvent, Focused, Closed
<1>6. Reload \/ Sample \/ TakeToggle => Grows
  BY <1>1, <1>2, <1>3, <1>4 DEF Reload, Sample, TakeToggle, screen
<1>7. Poll \/ TakeTerm \/ TakeChld \/ SignalsDrained \/ EventsDone \/ Shutdown => stream' = stream
  BY DEF Poll, TakeTerm, TakeChld, SignalsDrained, EventsDone, Shutdown, screen
<1>8. QED
  BY <1>5, <1>6, <1>7 DEF Daemon

LEMMA ToldStep ==
    ASSUME ScreenTyped, ToldInv, Next
    PROVE  ToldInv'
<1> USE DEF ToldInv
<1>1. CASE Environment
  <2>1. UNCHANGED <<addr, inbox, got, pc>>
    BY <1>1 DEF Environment, Press, Click, Edit, AskToStop, OpenWindow, CloseWindow, Exit, GraceEnds,
                TimerExpires, daemon, loop
  <2>2. stream \in Seq(Announced)
    BY DEF ScreenTyped
  <2>3. ASSUME NEW w \in Windows, OpenWindow(w) PROVE ToldInv'
    <3>1. win' = [win EXCEPT ![w] = "shown"] /\ stream' = Append(stream, Event("activewindow", w))
      BY <2>3 DEF OpenWindow
    <3>2. QED
      BY <2>1, <2>2, <3>1, SaysAppend DEF ScreenTyped
  <2>4. ASSUME NEW w \in Windows, CloseWindow(w) PROVE ToldInv'
    <3>1. win' = [win EXCEPT ![w] = "gone"] /\ stream' = Append(stream, Event("closewindow", w))
      BY <2>4 DEF CloseWindow
    <3>2. QED
      BY <2>1, <2>2, <3>1, SaysAppend DEF ScreenTyped
  <2>5. CASE UNCHANGED win /\ \E e : stream' = Append(stream, e)
    BY <2>1, <2>2, <2>5, SaysAppend
  <2>6. CASE UNCHANGED <<win, stream>>
    BY <2>1, <2>6
  <2>7. (\E w \in Windows : OpenWindow(w) \/ CloseWindow(w))
        \/ (UNCHANGED win /\ \E e : stream' = Append(stream, e)) \/ UNCHANGED <<win, stream>>
    BY <1>1 DEF Environment, Press, Click, Edit, AskToStop, Exit, GraceEnds, TimerExpires, screen
  <2>8. QED
    BY <2>3, <2>4, <2>5, <2>6, <2>7
<1>2. CASE Daemon
  <2>1. \/ win'[addr'] \in {"shown", "hidden"}
        \/ addr' = NoWindow
        \/ addr' = addr /\ win'[addr] = win[addr]
    BY <1>2, DaemonEffect, ScreenKept, FoundType DEF ScreenTyped
  <2>2. addr' \in Windows /\ win'[addr'] = "gone" => addr' = addr /\ (Says(stream, addr) \/ Says(inbox, addr))
    BY <2>1, OwnerType
  <2>3. CASE ReadEvents
    BY <2>2, <2>3 DEF ReadEvents, Says
  <2>4. CASE HandleEvent
    <3>1. stream' = stream /\ inbox' = Tail(inbox) /\ UNCHANGED <<pc, got>> /\ inbox # <<>>
      BY <2>4 DEF HandleEvent, Focused, Closed, Retract, Park, Hide, ParkFails, screen
    <3>2. Head(inbox) = Event("closewindow", addr) => addr' = NoWindow
      BY <2>4 DEF HandleEvent, Closed, Event
    <3>3. inbox \in Seq(Announced)
      BY DEF ScreenTyped
    <3>4. QED
      BY <2>2, <3>1, <3>2, <3>3, SaysTail, OwnerType
  <2>5. CASE ~ReadEvents /\ ~HandleEvent
    <3>1. inbox' = inbox
      BY <1>2, <2>5 DEF Daemon, Reload, Poll, TakeToggle, TakeTerm, TakeChld, SignalsDrained, TimerBranch,
                        EventsDone, Sample, Shutdown, loop
    <3>2. inbox = <<>>
      BY <1>2, <2>5 DEF Daemon, Reload, Poll, TakeToggle, TakeTerm, TakeChld, SignalsDrained, TimerBranch,
                        EventsDone, Sample, Shutdown, At
    <3>3. Says(stream, addr) => Says(stream', addr)
      <4>1. stream \in Seq(Announced)
        BY DEF ScreenTyped
      <4>2. stream' = stream \/ \E e : stream' = Append(stream, e)
        BY <1>2, <2>5, StreamGrows
      <4>3. QED
        BY <4>1, <4>2, SaysAppend
    <3>4. QED
      BY <2>2, <3>1, <3>2, <3>3
  <2>6. QED
    BY <2>3, <2>4, <2>5
<1>3. QED
  BY <1>1, <1>2 DEF Next

\* A strip whose terminal is not shown is about to hear why.
StripInv ==
    /\ ~env.usable => ~strip
    /\ Unfailed /\ OneSession =>
          /\ timer = "AppearRetry" => state \in {"Spawning", "Absent"} /\ ~strip
          /\ strip => addr \in Windows \ {Intruder}
          /\ strip /\ state # "Visible" => win[addr] = "gone" \/ proc[Owner(addr)] # "running"

LEMMA TabsAreThere == TabCount >= 2 => Owned # {}
BY FS_EmptySet DEF TabCount

LEMMA NothingFound ==
    ASSUME Found = {}, env.usable, ScreenTyped, WindowInv, addr \in Windows
    PROVE  win[addr] = "gone"
<1>1. Mapped = {}
  BY DEF Found
<1>2. win[addr] \notin {"shown", "hidden"} /\ win[addr] # "none"
  BY <1>1, OwnerType DEF Mapped, WindowInv
<1>3. QED
  BY <1>2 DEF ScreenTyped

LEMMA StripStep ==
    ASSUME ChildInv, ScreenTyped, WindowInv, LivelyInv, StripInv, Next
    PROVE  StripInv'
<1> DEFINE Told(st, t, x, a, w, q) ==
        /\ t = "AppearRetry" => st \in {"Spawning", "Absent"} /\ ~x
        /\ x => a \in Windows \ {Intruder}
        /\ x /\ st # "Visible" => w[a] = "gone" \/ q[Owner(a)] # "running"
<1>0. env' = env
  BY EnvStays
<1>1. ASSUME ~env.usable PROVE ~strip'
  <2>1. ~strip /\ Found = {}
    BY <1>1, FoundType DEF StripInv
  <2>2. CASE Daemon
    <3>1. Placing \/ PlacingFails \/ Retracting \/ RetractingFails => UNCHANGED strip
      BY <2>1 DEF Placing, PlaceWindow, PlacingFails, PlaceFails, Retracting, Retract, RetractingFails,
                  ParkFails, slot
    <3>2. Resting \/ Spawning \/ Losing => UNCHANGED strip
      BY DEF Resting, Spawning, Spawn, Losing, TakeChld, Shutdown, slot
    <3>3. AppearRetry => UNCHANGED strip
      BY DEF AppearRetry, ParkFails, slot
    <3>4. ASSUME NEW w, Closed(w) PROVE UNCHANGED strip \/ ~strip'
      BY <3>4 DEF Closed, slot
    <3>5. QED
      BY <2>1, <2>2, <3>1, <3>2, <3>3, <3>4, DaemonEffect DEF Effect
  <2>3. CASE Environment
    BY <2>1, <2>3 DEF Environment, Press, Click, Edit, AskToStop, OpenWindow, CloseWindow, Exit, GraceEnds,
                TimerExpires, daemon
  <2>4. QED
    BY <2>2, <2>3 DEF Next
<1>2. ASSUME Unfailed', OneSession' PROVE Told(state', timer', strip', addr', win', proc')
  <2>0. ~Fault
    BY <1>0, <1>2, FaultSeen
  <2>1. Unfailed
    <3>1. env.faults \in Nat /\ faults \in 0..env.faults
      BY DropdownAssumption DEF ScreenTyped, EnvironmentType
    <3>2. CASE Daemon
      BY <1>0, <1>2, <3>1, <3>2, DaemonEffect, ScreenKept DEF Unfailed
    <3>3. CASE Environment
      <4>1. faults' = faults
        BY <3>3 DEF Environment, Press, Click, Edit, AskToStop, OpenWindow, CloseWindow, Exit, GraceEnds,
                    TimerExpires, screen
      <4>2. QED
        BY <1>0, <1>2, <4>1 DEF Unfailed
    <3>4. QED
      BY <3>2, <3>3 DEF Next
  <2>2. OneSession
    BY <1>2, ProcsStay DEF OneSession
  <2>3. Told(state, timer, strip, addr, win, proc)
    BY <2>1, <2>2 DEF StripInv
  <2>4. env.usable /\ (state # "Absent" => child # 0)
    BY <2>1 DEF LivelyInv, Unfailed
  <2> HIDE DEF Told
  <2>5. CASE Daemon
    <3>1. CASE Placing /\ Kept
      <4>1. PICK w \in Found : addr' = w /\ strip' = (TabCount >= 2)
        BY <3>1 DEF Placing, PlaceWindow
      <4>2. child # 0 /\ state' = "Visible" /\ timer' = timer /\ timer # "AppearRetry"
        BY <2>3, <2>4, <3>1 DEF Placing, Kept, Told
      <4>3. TabCount >= 2 => w \in OwnedBy(child)
        BY <4>2, TabsAreThere, FoundType DEF Owned
      <4>4. TabCount >= 2 => w \in Windows \ {Intruder}
        BY <4>2, <4>3, OwnerType DEF OwnedBy, Mapped
      <4>5. QED
        BY <4>1, <4>2, <4>4 DEF Told
    <3>2. CASE (PlacingFails \/ RetractingFails) /\ Kept
      <4>1. Found = {} /\ UNCHANGED <<win, strip, addr, proc, timer>> /\ timer # "AppearRetry"
        BY <2>0, <2>3, <3>2 DEF PlacingFails, PlaceFails, RetractingFails, ParkFails, slot, Kept, Told
      <4>2. QED
        BY <2>3, <2>4, <4>1, NothingFound DEF Told
    <3>3. CASE Retracting /\ Kept
      BY <2>3, <3>3 DEF Retracting, Retract, Kept, Told
    <3>4. CASE Resting /\ UNCHANGED <<proc, child>> /\ timer' \in {timer, "None"}
      BY <2>3, <2>4, <3>4 DEF Resting, slot, Told
    <3>5. CASE Spawning
      <4>1. PICK n \in Procs : SpawnTracked(n)
        BY <2>0, <3>5 DEF Spawning, Spawn
      <4>2. n # 1 /\ proc'[n] = "running"
        BY <4>1 DEF SpawnTracked, WindowInv, ChildInv
      <4>3. QED
        BY <1>2, <4>2 DEF OneSession
    <3>6. CASE AppearRetry
      <4>1. strip' = strip /\ ~strip /\ (timer' = "AppearRetry" => state' = state)
            /\ state \in {"Spawning", "Absent"}
        BY <2>3, <3>6 DEF AppearRetry, ParkFails, slot, Told, Rearm, Arm
      <4>2. QED
        BY <4>1 DEF Told
    <3>7. ASSUME NEW w, Closed(w) PROVE Told(state', timer', strip', addr', win', proc')
      <4>1. CASE addr # w
        BY <2>3, <3>7, <4>1 DEF Closed, session, slot, screen, Told
      <4>2. CASE addr = w
        BY <3>7, <4>2, AfterStates DEF Closed, Told, ChildInv
      <4>3. QED
        BY <4>1, <4>2
    <3>8. CASE Losing
      <4>1. UNCHANGED <<win, addr, strip>> /\ timer' \in {timer, "Respawn"}
        BY <3>8 DEF Losing, TakeChld, Shutdown, screen, slot, NoteExited, Arm
      <4>2. CASE state' = state
        <5>1. \A n \in Procs : proc[n] # "running" => proc'[n] # "running"
          BY <3>8 DEF Losing, TakeChld, Shutdown
        <5>2. QED
          BY <2>3, <4>1, <4>2, <5>1, OwnerType DEF Told
      <4>3. CASE state' # state
        <5>1. TakeChld /\ child # 0 /\ proc[child] = "zombie" /\ state' = After(state, "ChildExited")
          BY <3>8, <4>3 DEF Losing, TakeChld, Shutdown
        <5>2. state' = "Absent"
          BY <5>1, AfterStates DEF ChildInv
        <5>3. child = 1
          BY <2>2, <5>1 DEF ChildInv, OneSession
        <5>4. proc'[1] = "reaped"
          BY <5>1, <5>3, OwnerType DEF TakeChld
        <5>5. strip => Owner(addr) = 1
          BY <2>2, <2>3, OwnerType DEF Told, WindowInv, OneSession
        <5>6. QED
          BY <2>3, <4>1, <5>2, <5>4, <5>5 DEF Told
      <4>4. QED
        BY <4>2, <4>3
    <3>9. QED
      BY <2>5, <3>1, <3>2, <3>3, <3>4, <3>5, <3>6, <3>7, <3>8, DaemonEffect DEF Effect
  <2>6. CASE Environment
    <3>1. UNCHANGED <<addr, strip, state, timer>>
      BY <2>6 DEF Environment, Press, Click, Edit, AskToStop, OpenWindow, CloseWindow, Exit, GraceEnds,
                  TimerExpires, daemon
    <3>2. ASSUME NEW n \in Procs, Exit(n) PROVE Told(state', timer', strip', addr', win', proc')
      <4>1. win' = win /\ \A m \in Procs : proc[m] # "running" => proc'[m] # "running"
        BY <3>2 DEF Exit, screen, ChildInv
      <4>2. QED
        BY <2>3, <3>1, <4>1, OwnerType DEF Told
    <3>3. ASSUME NEW w \in Windows, OpenWindow(w) \/ CloseWindow(w)
          PROVE  Told(state', timer', strip', addr', win', proc')
      <4>1. proc' = proc
        BY <3>3 DEF OpenWindow, CloseWindow
      <4>2. addr \in Windows /\ win[addr] = "gone" => win'[addr] = "gone"
        BY <3>3 DEF OpenWindow, CloseWindow, ScreenTyped
      <4>3. QED
        BY <2>3, <3>1, <4>1, <4>2 DEF Told
    <3>4. CASE UNCHANGED <<win, proc>>
      BY <2>3, <3>1, <3>4 DEF Told
    <3>5. QED
      BY <2>6, <3>2, <3>3, <3>4, EnvironmentEffect DEF OutsideEffect
  <2>7. QED
    BY <2>5, <2>6 DEF Next
<1>3. QED
  BY <1>0, <1>1, <1>2 DEF StripInv

\* All of it together.
Settled == WindowInv /\ LivelyInv /\ PlacedInv /\ UntakenInv /\ ToldInv /\ StripInv

LEMMA SettledAlways == Spec => []Settled
<1>1. ASSUME Init PROVE Settled
  <2>1. WindowInv /\ LivelyInv /\ ToldInv /\ StripInv
    BY <1>1, OwnerType DEF Init, WindowInv, LivelyInv, ToldInv, StripInv
  <2>2. ~OnlyWindow(addr)
    BY <1>1, OwnerType, OnlyWindowMeans DEF Init
  <2>3. UntakenInv
    <3>1. state = "Spawning"
      BY <1>1 DEF Init
    <3>2. QED
      BY <3>1 DEF UntakenInv
  <2>4. QED
    BY <2>1, <2>2, <2>3 DEF Settled, PlacedInv
<1>2. ASSUME ChildInv, ScreenTyped, Settled, Next PROVE Settled'
  BY <1>2, WindowStep, LivelyStep, PlacedStep, UntakenStep, ToldStep, StripStep DEF Settled
<1>3. ASSUME Settled, UNCHANGED vars PROVE Settled'
  <2>1. UNCHANGED <<env, proc, win, stream, faults, pc, got, inbox, child, timer, attempts, state, addr, strip>>
    BY <1>3 DEF vars, screen, loop, session, slot
  <2>2. WindowInv' /\ LivelyInv' /\ ToldInv' /\ StripInv'
    BY <1>3, <2>1 DEF Settled, WindowInv, LivelyInv, ToldInv, StripInv, Says, Unfailed, OneSession
  <2>3. PlacedInv'
    BY <1>3, <2>1 DEF Settled, PlacedInv, OnlyWindow, OwnedBy, Mapped
  <2>4. UntakenInv'
    BY <1>3, <2>1 DEF Settled, UntakenInv, Unseen, GaveUp, StandIn, OnlyWindow, OwnedBy, Mapped
  <2>5. QED
    BY <2>2, <2>3, <2>4 DEF Settled
<1>4. QED
  BY <1>1, <1>2, <1>3, ChildAlways, ScreenAlways, PTL DEF Spec

\* DropdownManager's states and the compositor's windows agree: the terminal is on the screen
\* or parked as the state says, known to the daemon or not, unless it appeared unlooked for while
\* the state is Hidden; and no strip stays without it.
THEOREM PlacedAsSaid == Spec => []PlacementTruth
<1>1. ASSUME ScreenTyped, Settled PROVE PlacementTruth
  <2>1. ASSUME faults = env.faults, NEW w \in Windows, OnlyWindow(w)
        PROVE  /\ state = "Visible" => win[w] = "shown"
               /\ state = "Hidden" => win[w] = "hidden" \/ Untaken(w)
    <3>1. CASE addr = w
      BY <1>1, <2>1, <3>1 DEF Settled, PlacedInv
    <3>2. CASE addr # w
      BY <1>1, <2>1, <3>2, OnlyWindowMeans DEF Settled, UntakenInv, Untaken
    <3>3. QED
      BY <3>1, <3>2
  <2>2. ASSUME faults = env.faults, Quiet, OneSession, strip
        PROVE  state = "Visible"
    <3>1. env.usable /\ Unfailed
      BY <1>1, <2>2 DEF Settled, StripInv, Unfailed
    <3>2. stream = <<>> /\ inbox = <<>>
      BY <1>1, <2>2, <3>1 DEF Quiet, Ready, Settled, ToldInv
    <3>3. addr \in Windows \ {Intruder} /\ win[addr] # "none"
      BY <1>1, <2>2, <3>1, OwnerType DEF Settled, StripInv, WindowInv
    <3>4. win[addr] # "gone"
      BY <1>1, <3>2, <3>3 DEF Settled, ToldInv, Says
    <3>5. addr \in Mapped
      BY <1>1, <3>1, <3>3, <3>4 DEF Mapped, ScreenTyped
    <3>6. proc[Owner(addr)] = "running"
      BY <2>2, <3>3, <3>5 DEF Quiet
    <3>7. QED
      BY <1>1, <2>2, <3>1, <3>4, <3>6 DEF Settled, StripInv
  <2>3. QED
    BY <2>1, <2>2 DEF PlacementTruth
<1>2. QED
  BY <1>1, ScreenAlways, SettledAlways, PTL
=============================================================================
