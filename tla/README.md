# Verification of waylaunch

waylaunch is a launcher for Wayland with a content-search daemon beside it. This directory holds
TLA+ modules of the parts of it where things happen at once or in an unexpected order, the TLC
configurations that check them on small instances, and proofs that TLAPS checks for every
instance. Everything is translated from the source, named by path and line in `PROJECT.json`
("map"); paths below are relative to the repository.

    tlc -workers 2 -config power.cfg PowerOverlayMC      # any run of the table below
    tlapm PowerOverlay_proofs.tla                        # any module of proofs

## 1. Inventory

### The programs

* **waylaunchd** (`src/content`) indexes the text of the user's files into SQLite FTS5.
* **waylaunch** (`src/main.cpp`, `src/ui`) is one binary with four modes, each a process of its
  own with one poll loop: the search launcher, `--switch` (Alt+Tab), `--power`, and
  `--dropdown` (a terminal per slot, `src/dropdown`).
* **waylaunchctl** sends one line to waylaunchd's socket.

The modes share no memory. waylaunchd and the launcher share the database file, and a second
start of a mode finds the first by a lock and a pid in a file and sends it a signal.

### The components

| component | state | operations | interacts by |
| --- | --- | --- | --- |
| Indexer (`indexer.cpp`) | queue, three request flags, stop, runtime excludes, size-cap flag, the crawl's cursor | `run_loop`, `crawl_all`, `reconcile_deletions`, `index_file`, `enqueue_*`, `request_*`, `set_paused`, `stop` | a worker thread woken by a condition variable; calls into the store |
| FsWatcher (`fs_watcher.cpp`) | two maps between watches and paths, halves of renames, the limit flag | `drain_events`, `scan_subtree`, `add_watch`, `drop_watch_subtree` | inotify; `enqueue_*` of the indexer from its own thread |
| Store (`store.cpp`) | files, documents and postings in SQLite, one open transaction | `open`, `put`, `touch`, `remove`, `remove_subtree`, `tombstone`, `clear`, `begin`/`commit`, `search` | the database file, read by other processes |
| Control channel (`control.cpp`, `waylaunchctl.cpp`) | the socket and its name in the file system | commands to the indexer, and replies | a socket; its own thread |
| Extractor (`extractor.cpp`) | none that outlives a call; a child process while it runs | `extract`, `run_capped` | a pipe, a process group, a deadline |
| Launcher search (`launcher_ui.cpp`) | query, generation, pending and ready results, the four lists, the selection | typing, selecting, launching, `file_worker_loop`, `apply_file_results` | a worker thread, a mutex, an eventfd |
| Switcher (`src/switcher`, `launcher_ui.cpp`, `wayland_core.cpp`) | window cache, groups in order of use, selection, and four flags for whether it is up | keys, modifiers, window events, presses by signal, mapping and unmapping | the Wayland socket; SIGUSR1, SIGUSR2 |
| Power overlay (`src/power`, `launcher_ui.cpp`) | state machine, visibility, dialog, pending action, deadline | keys, pointer, the countdown, running the action | the Wayland socket; the change callback |
| Dropdown daemon (`src/dropdown`) | the slot's state, its child, a timer, the window's address, the focus guard | toggle, events, timer, SIGCHLD, reload, shutdown | signals, a timerfd, Hyprland's request socket |
| Tab strip (`dropdown_main.cpp`, `tab_strip.cpp`, `wayland_core.cpp`) | a layer surface, its configuration, its buffers, the learned size | `show_strip`, `hide_strip`, `sync_strip_to_window`, painting, `remap_surface` | the daemon's own Wayland socket |
| Geometry (`geometry_policy.cpp`, `tab_strip.cpp`) | none | where the terminal, its strip and the tabs lie; what a resize teaches | called by the daemon |
| Event stream (`hyprland_events.cpp`) | a socket, half a line, a pause | connect, read, deliver | Hyprland's event socket |
| Locks (`main.cpp`, `waylaunchd_main.cpp`) | a lock file with a pid in it | start, or signal who is up | `flock`, signals |
| Stores of history and dropdown sizes (`history.cpp`, `dropdown_state.cpp`) | one file each | load, change, save by rename | the file |
| Subprocess (`subprocess.cpp`) | a child and three pipes | `run`, `spawn_tracked`, `spawn_detached` | the child |
| Providers, parsing, painting, configuration | none that outlives a call | | |

### What is hard in it, and what makes it right

* **The index follows the files.** Programs write while the daemon looks, in separate system
  calls; events are merged, dropped on overflow, and paired across other events; the daemon may
  die between two transactions. It is right if, once everything has settled, each row describes
  its file, each file has a row and can be found, and excluded files have none.
* **Three threads wait on each other.** One pushes work under the mutex, two store to atomics
  without it. It is right if pushed work is not slept on, a pause lets through a bounded amount,
  and shutting down ends.
* **Watches are on inodes, the maps are about paths.** Directories move while the watcher looks
  at them. It is right if no file is missed, and a directory is known by the name it has.
* **Answers come late.** The launcher's rows are put together from answers to the query of now
  and of a moment ago. It is right if nothing of an earlier query shows, the last query is
  answered, and a key acts on the row the user sees.
* **The keyboard is grabbed.** Switcher and power overlay own it while they are mapped, and each
  keeps in several places whether it is up. It is right if these agree, the keyboard goes back,
  and (power) no action runs twice or unasked.
* **A session ends twice, a window comes late.** The dropdown hears of the end of a terminal by
  SIGCHLD and by `closewindow`, in either order, and asks a compositor that may fail. It is right
  if no terminal is forgotten, and the state says where the window is.

* **A database is changed in many statements.** Each may fail or be the last, and other processes
  read between any two. It is right if rows, documents and postings tell one story in what is
  committed, if what a reader sees changes by whole transactions, and if a hit shows a text that has
  the words of its query and is of the kind, size and age it was ranked for.
* **The strip is a second surface over the first.** It is sized by one conversation (Wayland) to
  fit a window placed by another (Hyprland). It is right if it is on the screen when and where
  its terminal is, and if no buffer is attached before a configure or painted while it is read.
* **Processes share files and pipes.** Two starts, a kill between two system calls, a child that
  writes too much or never ends. It is right if what was reported saved or done was, and the
  caller goes on.

`PROJECT.json` lists the hazards one by one, each at its line, with the properties that are about
it or the reason none is.

## 2. Modules

A component has a module `X` (state, one action per operation or handler, `Spec`, `FairSpec` where
there is liveness, properties), a module `XMC` with the values TLC needs, and a module `X_proofs`
where something is proved. An `env`, chosen once in `Init`, says what the surroundings may do and
how the program is configured, so that one run checks several surroundings at their own bounds.
Operators whose comment begins *a bug* are used by no specification: put in the place of the
operator beside them, they show that a property fails when the code is wrong.

**ContentIndex** models `Indexer::run_loop`, `crawl_all`, `reconcile_deletions` and `index_file`
step by step over one watched directory, with the watcher's drain, the runtime excludes, the size
cap, `reindex` and crashes. The worker's place is `pc`; `StatFile`, `HashFile` and `ExtractFile`
are the three times `index_file` opens a file, and programs write between them. `row` is the index
as the writer sees it and `saved` what the last commit left. A file's data is the number of its
version, so every write has new bytes and a time of its own, and bytes never come back to what
they were. `missed`, `lost` and `torn` are history: a path was changed while the directory was not
watched; an event of it was dropped, or a removal of it overtaken by its indexing; a `clear` was
cut short by a crash.

**SearchIndex** is the abstract specification of the store: the set of pairs of a path and a text
that can be found. Edits go to a draft and are published one by one, or a batch of them at once; a
crash goes back to what was published; over an index known to be damaged, texts may come back at
once (`Restore`). **ContentStore** is the writer that implements it: `Store::open` statement by
statement with its checks, rebuilds and the replacement of a corrupt file, and each operation with
the savepoint of `put`, the triggers, and the statements that may fail: those of a savepoint, which
are rolled back, and those of `clear` and of the dropping of the tables, whose results nobody looks
at. `disk` is what is committed and `work` what the writer's connection sees; a database has the
mode its index was `built` in and the one that `meta` names. `Refines` states the implementation,
with the pairs of a row's path and its postings as the refinement mapping.

**StoreSearch** extends ContentStore by a launcher's connection: `search` with the predicates of
its query, its words, the choice between the two plans, the deadline, and the two phases, each
of which reads a snapshot of its own. Predicates are evaluated as the code does (`Passes`) and,
apart from that, as the syntax means them (`Means`), which is what the results are compared with.
`ranked` is history: the rows as the first phase saw them, since the second applies the words again
and the predicates not.

**IndexerThreads** models the four threads of the daemon around `mtx_` and `cv_`. The wait of
`run_loop` is three steps, because that is where notifications are lost: the predicate is
evaluated (`eval`), the mutex is let go (`park`), and the thread sleeps. The files of a crawl and
the items of a batch are numbers here, as their contents are the matter of ContentIndex.

**WatchTree** models `FsWatcher` over a tree of directories that are inodes with a place: watches
stay with the inode, the maps with the path. `scan_subtree` takes one directory a step, between
which the tree changes. The kernel's queue holds so many events and then one marker of an overflow,
which the drain answers with a request for a pass. `forgot` is history, set by two races in the code,
and `loss` is, set when an event is dropped (below).

**DropdownDaemon** models the daemon's poll loop for a slot: which sources poll reported, and each
handler to its end, with `DropdownManager`, `SessionSupervisor`, `FocusGuard` and the choice of a
window in it. Beside it move the terminal (`proc`), its windows (`win`), the compositor, which
answers requests at once and tells of events late (`stream`), the user and the clock. `fork` and
requests may fail.

**AppSwitcher** models the overlay's loop with `AppSwitcherManager`, its input controller, the
window cache and the layer surface. The compositor (`open`, `focus`, `surf`) and the client share
`wire`, the events on their way.

**LauncherSearch** models the search of the launcher: the loop of the UI thread with what each key
and click does to query, lists and selection, and the worker of `file_worker_loop`. A critical
section is a step, and the write to the eventfd, made after it, another. An item carries the query
it was found for. Alt or Super with Tab shows the embedded switcher (`hud`), which takes the keys and
the picture, but not the clicks.

**PowerOverlay** models the power overlay's state machine, manager, dialog and controller, and the
loop with its countdown. A handler is one step together with the change callback that unmaps, runs
the action and ends the loop in the middle of it.

**DropdownGeometry** has `compute_geometry`, the strip's band, `learn_resize` and the layout of the
tabs as operators on integers, without state. **StripSurface** uses them. It is the dropdown
daemon's loop once more, now from the side of the strip's Wayland connection: `link` is
`WaylandCore` with its layer surface (phase, size, buffers, events on the wire), `strip` what the
daemon believes of it, `term` the terminal it is above. Waits have deadlines, which may be missed
(`stall`). The compositor may configure the surface on its own (`reconfigure`), close it, or
keep a buffer.

**Instances** is a mode's start and end as several processes run it: the lock, the pid in its
file, the signal of a process that finds the lock taken, the signals ignored during a start, the
children that keep the lock until `exec`; and what each saves, by write, rename and a second
attempt, before which the file is removed. The lock's file, the pid in it, the file to be read and
either rename may fail. **ControlChannel** is the accepting thread, the socket's name, and two clients, over
daemons that stop and die. **SubprocessRun** is `Subprocess::run` with its pipes, a child that does
what it likes, and a grandchild that may keep the pipes. **Extraction** is the choice of an importer
and `run_capped` with deadline, cap and process group. **EventStream** is the event socket, the
parser's buffer and the reconnection. **ProcessesMC** checks these five in one run, and of
IndexerThreads what must never happen: they share nothing, so `part`, chosen at the start, says which
of them moves. What the threads must get done is a run of its own, with their fairness.

Bits of three modules are about the same loop (`LauncherUI::run`): it serves one mode per process,
and each module has the branches of its mode. DropdownDaemon and StripSurface are two views of one
loop, as are ContentIndex and IndexerThreads of one thread, and ContentIndex and WatchTree of one
watcher: their product would have no property that is not about one of them alone. They meet in
calls with the same effect in both (`enqueue_index`, `request_reconcile`; `present`, `conceal`).

## 3. What is checked

| run | module | properties | result |
| --- | --- | --- | --- |
| `index_changing` | ContentIndex | `QuietExact ExcludedGoes` | hold |
| `index_settling` | ContentIndex | `EventuallyFresh` | hold |
| `threads` | IndexerThreads | `QueueServed RequestsServed ShutdownEnds` | hold |
| `watch_tree` | WatchTree | `NoFileMissed UnwatchedIsBackedUp WatchNamesTruth` | hold |
| `content_store` | StoreSearch | `RowsInStep HitsMatch QuietSearchExact Refines` | hold |
| `dropdown` | DropdownDaemon | `NoOrphan StateMatchesChild PlacementTruth SpawningEnds` | hold |
| `strip` | StripSurface | `StripFits PaintsWhatItMay StripAppears` | hold |
| `switcher` | AppSwitcher | `OneOpinion GrabReleased ShownIsMapped MruIsFocusOrder PressShows` | hold |
| `search` | LauncherSearch | `FreshResults ActsOnShown LastQueryAnswered JoinEnds` | hold |
| `power` | PowerOverlay | `Agree AskedFirst DialogEnds` | hold |
| `processes` | ProcessesMC | `SavesKept PressesReach ControlTrue OutputWhole EventsInOrder NoLostEnqueue PauseHolds ChildrenReturn` | hold |
| `doc_live_row` | ContentIndex | `LiveRowHasDoc` | violated |

The comment above each property says what it means. `doc_live_row` checks what a comment in the
repository says of the code and finds a history in which it does not hold: `Store::clear` is not
one transaction, and a crash between its two deletions leaves rows that pass for up to date and
have no document (`store.cpp:989`). `RowsInStep` has the same history among its exceptions (`torn`).

### Bounds, and why they are enough

* ContentIndex: two names and two versions. Every race of the worker is with one writer of the
  file it is at; the second name is for renames over one another and for the cap. Queues of one
  and two reach overflow, merging and a batch that is full. `Changing` and `Settling` are sets
  of surroundings, as all operations at once are out of reach: each combines those that meet in
  one handler.
* ContentStore, StoreSearch: two paths, two texts and two row ids, so that an id is used again for
  the other path while a search holds it; one replacement of the file; a limit, a budget and a
  threshold for common words of one, so that each plan is taken and each list is full. Surroundings
  combine what meets in one operation. For the writer alone : a clear whose
  statements fail with crashes, with a change of the match mode, with a corrupt file. For a search
  : beside it a clear, a rebuild that fails, errors of the extractor, or a
  replacement. Queries have kinds, a name, sizes from both sides, yesterday, dates and durations,
  one word and two. The clock of the queries has five days of two seconds, two ticks each.
* IndexerThreads: a crawl of two files, batches of two, three items of work and two commands: a
  full batch, one that is not, and an event and a command that meet in each of the worker's
  places. Every configuration.
* WatchTree: two directories below the root, so one within the other, two names, four
  changes, watches for all or for two, and a queue that two events fill, or none of these changes
  (`LongOrShort`). Directories are interchangeable (symmetry); no
  liveness is checked with it.
* DropdownDaemon: two sessions (a session and its successor is what a late event can confuse), two
  attempts to find a window, and surroundings that each allow a click, an edit, a fault, a window of
  the same class, a stop, or no compositor, or a session of two windows that is not respawned, beside
  one or two presses.
* StripSurface: two monitors of different size and bar, five things done unasked and two events
  on the wire at a time (a configure and what crosses it). The shapes the user gives the terminal
  are a resize, a drag under the bar, and a change too small to be learned. Surroundings combine
  what meets in one handler; that the focus moves while a configure is late is one of them.
* AppSwitcher: three windows of two applications, three things done by the user or programs, any
  number of presses (an eventfd only counts), both groupings.
* LauncherSearch: two keys, so three generations: one that is answered, one in the worker's
  hands and one it has not seen. Each provider finds nothing or one item, above or below the
  others' scores. With and without an asynchronous provider, history and SIGTERM.
* PowerOverlay: every configuration with up to two actions, of which any ask first. Input is
  unbounded.
* ProcessesMC: IndexerThreads as above; three processes (one up, one ending, one starting), of the same slot
  or one of them of another (`AllOrAllButOne`: processes and slots are interchangeable), two keys
  and counts up to two, and one call that fails on its own (`MaxFaults`) beside any number of kills
  and failed writes; two daemons in a row and two clients; pipes that hold one piece of up to five, so
  that both sides block; a text at the cap and one over it; four events, one of them longer than the
  buffer, which holds what three connections broke off, over compositors that come and go.

Deadlock is not checked: every program here may end, or wait for a user who does nothing.
Where waiting for ever would be wrong a liveness property says so.

### Fairness, and why the code justifies it

Threads that can run do (`WF` of the worker, the watcher, the loop, the daemon). Users,
programs and compositors owe nothing, save that:

* a notification or a signal already under way arrives (IndexerThreads);
* the clock reaches a deadline (`TimerExpires`, `Passes`, the worker's `Deadline`);
* the work queue gets its turn between two passes (`SF` of `ServeQueue` and `TakeBatch`): the
  deadline of the interval is set anew after each pass, so the worker looks at its queue with
  no pass due. Without this TLC finds a worker that reconciles for ever;
* every wait of the strip's connection has a deadline (`WF` of each step of the loop,
  `wayland_core.cpp`), which says nothing about the compositor's answers;
* `Subprocess::run` and `run_capped` go on when they can, and so does a child that has not chosen
  to hang; that it may hang is part of the model, and `ChildrenReturn` says after which choices
  the call still ends;
* the switcher's round trip and the walk for files end: both have a deadline in the code (150 ms,
  `launcher_ui.cpp:744`, and 300 ms in the file provider).

## 4. What is proved

| theorem | states | for every |
| --- | --- | --- |
| `ContentIndex_proofs!TypeCorrect` | `[]TypeOK` | directory, queue bounds, batch, surroundings |
| `ContentIndex_proofs!ExclusionHolds` | `[]ExcludedGoes` | the same |
| `ContentIndex_proofs!SettlesExact` | `[]QuietExact` | the same |
| `ProcessesMC_proofs!ThreadsTyped` | `[]TypeOK` of IndexerThreads | number of files, batch, amount of work |
| `ProcessesMC_proofs!EnqueueNeverLost` | `[]NoLostEnqueue` | the same |
| `ProcessesMC_proofs!PauseBounded` | `[]PauseHolds` | the same |
| `DropdownDaemon_proofs!NeverForgets` | `[]NoOrphan` | number of sessions, windows, attempts, surroundings |
| `DropdownDaemon_proofs!StatesMeanChild` | `[]StateMatchesChild` | the same |
| `DropdownDaemon_proofs!PlacedAsSaid` | `[]PlacementTruth` | the same |
| `AppSwitcher_proofs!Agreement` | `[]OneOpinion` | set of windows, applications, number of presses |
| `AppSwitcher_proofs!KeyboardReturned` | `[]GrabReleased` | the same |
| `AppSwitcher_proofs!ShownGetsThere` | `[]ShownIsMapped` | the same |
| `AppSwitcher_proofs!OrderKept` | `[]MruIsFocusOrder` | the same |
| `LauncherSearch_proofs!TypeCorrect` | `[]TypeOK` | queries, providers, number of keys |
| `LauncherSearch_proofs!ResultsFresh` | `[]FreshResults` | the same |
| `LauncherSearch_proofs!ActsOnWhatIsShown` | `[]ActsOnShown` | the same |
| `PowerOverlay_proofs!TypeCorrect` | `[]TypeOK` | number of actions, configuration |
| `PowerOverlay_proofs!PartsAgree` | `[]Agree` | the same |
| `PowerOverlay_proofs!ActionsAsked` | `[]AskedFirst` | the same |
| `ContentStore_proofs!TypeCorrect` | `[]TypeOK` | paths, texts, match modes, ids, surroundings |
| `ContentStore_proofs!TablesInStep` | `[]RowsInStep` | the same |
| `ContentStore_proofs!Implements` | `Refines` | the same |
| `ContentStore_proofs!HitsTrue` | `[]HitsMatch` | the same, and forms, budgets, limits, clock of the queries |
| `ContentStore_proofs!SearchesExact` | `[]QuietSearchExact` | the same, and queries of any tokens that make sense, sizes and times of files |
| `StripSurface_proofs!PlacedInside` | the terminal lies in the usable area, and is not empty | monitor, configuration, remembered size |
| `StripSurface_proofs!ResizeKept` | the size learned from a resize is the size shown next, where it fits | the same |
| `StripSurface_proofs!OneTab` | a point is on one tab at most, and on the strip | width, number of tabs |
| `StripSurface_proofs!PaintsOnlyWhatItMay` | `[]PaintsWhatItMay` | monitors, bars, percentages, shapes, surroundings, number of events |
| `StripSurface_proofs!StripIsOnItsTerminal` | `[]StripFits` | the same |
| `ProcessesMC_proofs!PressesArrive` | `[]PressesReach` | number of processes, order of starts and ends |
| `ProcessesMC_proofs!SavesStay` | `[]SavesKept` | the same, and keys and counts |
| `ProcessesMC_proofs!ControlTold` | `[]ControlTrue` | number of daemons and clients |
| `ProcessesMC_proofs!OutputKept` | `[]OutputWhole` | sizes of pipes, inputs, outputs and cap |
| `ProcessesMC_proofs!EventsOrdered` | `[]EventsInOrder` | number of events and connections, size of the buffer |

The only assumptions are the `ASSUME` of each module about its constants: ranges, and what the code
or its platform guarantees (a window's address is no application's name; a day is longer than a
tick, and it is past 1970; the parser's predicates have a value of the right kind; `None` is not a
rectangle). Each proof has the same
plan: an invariant that is inductive, that `Init` establishes it, a lemma per action or group of
actions that it is kept, and one line of temporal logic. What each has to add to its property:

* **ExcludedGoes** is not inductive, because a row may be written by a worker that looked at the
  excludes before the path was one of them. `ExclusionInv` adds that such a worker has a
  request for a pass outstanding, and that a pass under way has yet to list the row, or has it
  among what to drop.
* **QuietExact** says something only of states in which nothing is under way, so its invariant
  (`SettledInv`) has to say of every other state what is still coming. `SoundInv`: a row that tells of
  another version than the file's (`Stale`), or that has no file to index (`Orphan`), has something
  coming that will put it right: a program that has the file open, an event, a name pending, an item
  of the queue or the batch, the walk, a row on the list to drop, or a pass. What the worker
  has in hand counts as a row, since it is about to become one, and what it is doing counts
  as coming only while the file is as it was seen. `RemoveInv`: behind every removal of a file that
  is there comes its indexing, in the kernel's queue, the indexer's and the batch (`Followed`); it
  is what `CompleteInv`, that a file without a row has work coming that will write one, needs when a
  removal is carried out. `VersionInv`: a record that has the time or the hash of a file
  has nothing of another version, which is why comparing them is enough to leave a row alone; it
  rests on no version coming back to where it was, across renames and links (`OldVersion`).
  `BodyInv`: a row marked Indexed has its text. `PlaceInv`: where work can be at all. What a step of
  the file system leaves for the watcher is stated once (`FileEffect`): a path is as it was, or
  open, or told of last as it is, or among what was never told.
* **NoLostEnqueue** needs the queue to be empty while the wait is letting go of the mutex
  (`QueueInv`): that is what pushing under the mutex buys. **PauseHolds** counts what is
  still in the worker's hands (`PauseInv`).
* **NoOrphan** needs that a respawn is waited for only without a child (`ChildInv`), else `spawn`
  would overwrite one. **StateMatchesChild** needs that a slot without a child which should
  have one has a timer (`WaitInv`), under the condition `Sure`.
  **PlacementTruth** needs that as long as nothing has failed a slot in use has its child
  (`LivelyInv`), that a `closewindow` is on its way until the slot has forgotten the window
  (`ToldInv`: else a state could outlive its window), and that a strip over nothing is about to
  be hidden (`StripInv`); of a window the daemon does not know, that one which had not appeared when
  the slot came to be Hidden or Visible can only be missing from it for one of the two reasons the
  property excepts (`UntakenInv`). What a step does to the window and the slot is stated once
  (`Effect`, `OutsideEffect`), and each part is then kept by each effect.
* **GrabReleased** needs that a surface still on the screen with the overlay hidden is about to
  be unmapped (`Leaving`). **ShownIsMapped** is about a queue between two parties: a surface that
  waits for a configure has one on the wire, no key is sent to it, and the keys of the last time are
  dispatched before it is shown again, so that nothing hides it on its way (`Mapping`), unless the
  overlay was shown in one of the two turns that the property excepts (`raced`, `late`). That something
  is selected whenever it is shown (`Listing`) is proved of the recursive functions that put
  groups in order, by an argument on the least number for which they fail.
* **MruIsFocusOrder** compares the switcher's list with the compositor's history, between which are
  the events on the wire. Its invariant says that what the client knows is a moment of the past (the
  windows, those it can name, the lit one, and the order of focus) from which those events, taken one
  by one, lead to now (`Leads`, of `Turn`s); that a focus change half told leaves two
  windows lit is why the moment's order is only partly the list's then (`Lagging`, `Partly`). What
  `pull_to_front` and the removal of a key do to an order is shown by induction over sequences.
* **FreshResults** needs that a generation stands for one query, wherever it is: what is pending,
  what the worker works on, what it found and what is ready answers the query of now if it
  carries the generation of now (`Asked`, `Working`, `Found`, `Posted`). So comparing numbers
  twice (`launcher_ui.cpp:1036` and `:990`) is enough. **ActsOnShown** is inductive with
  the types, which rest on the merging of the lists being one (`BestExists`: a list that is not
  empty has a best item) and on the bound on generations (`Bounded`).
* **AskedFirst** needs `Roles` (how the machine stands to what the manager shows, also with an
  empty list) and `NotYet` (while the overlay is up nothing has been run).
* **RowsInStep** needs that at every place within an operation or an opening the tables are either
  in step or in one of the half-done states that the rest of it repairs (`Stored`), that what is torn
  is known to be, whichever statement of it failed, and that without a transaction the writer sees
  what is committed (`Written`).
* **Refines** is shown step by step under that invariant: each operation of the writer is an `Edit`
  of the paths it touches, `commit`, `rollback` and a crash are those of SearchIndex, the `rebuild` of
  a clear that did half its work is a `Restore`, and steps that change neither live rows nor postings
  are stutters. The lemmas on `Findable` say what
  replacing, inserting and deleting a row do to the set of pairs.
* **HitsMatch** needs that a text a reader can find is the text its snippet is cut from, and that of
  the version its row names (`Shows`, in `WriterInv`, which has to hold also in the middle of dropping
  the tables), that the words of a search are in the text of each hit it has so far (`SearchInv`), and
  that what was ranked passed the filter, and with it each hit whose row is still the one that was
  ranked (`FitInv`); that the filter lets through nothing else than what is meant is `PassesMeans`,
  without the last second of a day (`AgeSound`). For the words the two snapshots do not matter, as
  what a hit shows is read in the same one as what it was found by; for the predicates they do.
* **QuietSearchExact** has three parts. The parser is read token by token: after `i` of them each
  bound of the filter is none or that of one of the first `i` (`Gathered`). The bounds are what the
  predicates mean: arithmetic of days, durations and ticks (`AgeMeans`, `PassesMeans`), in which the
  exceptions of the property turned up as the cases that cannot be proved. And a search that has read
  nothing but one database has chosen as many of the rows it seeks as there are, up to the limit, of
  which it has shown those it has no longer to read (`Exact`), where candidates cut off by the budget
  are enough (`NewestCount`), and no row it has still to read has vanished, the tables being in step.
* **PressesReach** needs that a process past the lock owns it or could not open it, and that the
  lock's file names the owner once it is past the start, if it could write there (`LockInv`): one that
  has no lock writes no pid. **SavesKept** needs that the file being written is never the one readers
  see, that what is about to be renamed over it keeps at least what was reported (`SaveSoFar`,
  `KeptInFile`), and that a file that was removed for a second rename is missed only while that one
  is to come. **ControlTrue** needs that a client is in one place at a
  time on its way from `connect` to its reply (`ClientInv`), and that a daemon lets go of its lock
  last (`DaemonInv`). **OutputWhole** counts the pieces in the child, in each pipe and in the
  caller (`RunInv`), and why the reading stopped (`ExtractInv`). **EventsInOrder** needs that what is
  under way (`flow`, the socket and what the compositor has still to write) is a chain of lines
  (`FlowInv`), that the buffer ends in the line that goes on with the next part, or has broken off
  (`BufferInv`, `Fused`), and that what has broken off exceeds what was spoilt by one as long as the
  next line is still to come (`OffInv`), which is the count. The specification of ProcessesMC
  moves one part at a time, so each invariant is kept by the steps of its own part alone.
* **PlacedInside**, **ResizeKept** and **OneTab** are arithmetic; the rounding of percentages and
  the clamps of `compute_geometry` are what they are about.
* **PaintsWhatItMay** is two arguments. That nothing the compositor may read is painted needs that such
  a buffer is in the client's list, busy, with no release of it under way, and that each release under
  way is of a buffer once (`BuffersInv`). That no buffer is attached before its configure needs that,
  where nothing stalls, the surface is believed to be configured only when it is, and that outside
  `show_strip` no configure is under way (`Prompt`, `Calm`): every round trip empties the wire.
* **StripFits** needs what the surface was last asked for to be the last configure under way, or
  the width it has (`Tells`, in `Surface`), and a picture of another width, or none, to be about to be
  painted (`strip.dirty`, or a configure to come). `RectInv` says where the daemon believes
  the strip to be, that the margins it asked for are those, and that the surface is up exactly
  then; `TabsInv` that the number of tabs it placed for is that of the terminal. Every handler is
  then a composition of a few operations on the link (`Asks`, `Reset`, `Rebuilt`, `Mapped`, `Heard`), each
  stated once; that what holds before an event holds after n of them is induction over `Dispatched`.

Model-checked only: liveness and everything under fairness, ENABLED; and WatchTree as a whole. What
a recursive function yields for every sequence is proved where a theorem needs it, not by the library's
induction theorems, which take an operator, but by an argument on the least number for which it fails
(`SeqInduction`, `Least`, `Recursion`). `TypeOK` is proved where the table says so; in WatchTree,
DropdownDaemon and AppSwitcher it documents the state, and the proofs use the part of it they
need, as StripSurface's do (`Typed`).

## 5. Exceptions, and disagreements without a run

Properties name the histories they do not cover, and the exceptions are real.

The daemon:

* `lost` (ContentIndex): an event the kernel dropped, a hard link, which makes none, and a file
  that was moved out and made anew in one drain, which is indexed and then removed, since unpaired
  halves are flushed last (`fs_watcher.cpp:234`); its old name may also have been excluded before the
  other half of the move came. Of these `QuietExact` does not say that they have a row. The
  next pass heals them, and so `EventuallyFresh` has them.
* `Untold`: an index at its cap is not walked (`indexer.cpp:253`), so there an overflow may also
  leave a row of an older version, or of a file that is gone, until the next pass scans it. And
  `missed`: what changes before the first watch is seen by the next pass only; the daemon starts its
  worker before its watcher (`waylaunchd_main.cpp:159`).
* `torn` (ContentIndex): the rows a `clear` cut short has left without text pass for up to date;
  see `doc_live_row`. Where the extractor fails, a row marked Error whose file is touched is marked
  Indexed without a text (`indexer.cpp:177`), so there `QuietExact` does not say that rows are
  searchable.
* That bytes never come back is more than the code can count on: if a file is hashed, then written,
  then extracted, and has its first bytes again before it is looked at next, the hash agrees and the
  text of the bytes in between stays (`indexer.cpp:175`). `ContentIndex` leaves this history out.
* `forgot` (WatchTree): `IN_MOVE_SELF` comes after `IN_MOVED_TO` has watched a directory under its
  new name and takes that watch from the map (`fs_watcher.cpp:182`), and the flush above does
  it to a directory made anew. `reindexed`: a reindex clears the degraded flag although nothing
  adds the missing watches (`indexer.cpp:477`).
  `loss`: an overflow asks for a pass (`fs_watcher.cpp:174-177`), which brings the files up to date and
  adds no watches, so a directory whose IN_CREATE was dropped stays without one, and `degraded`
  false. `UnwatchedIsBackedUp` and the names are about queues that lost nothing; of those that
  did, `NoFileMissed` says that the indexer is told.
* `StopReturns` (IndexerThreads), for which `indexer.h:29` can be read, does not hold: `Indexer::stop`
  stores and notifies without the mutex, between the worker's look at the predicate and its wait
  (`indexer.cpp:441`), and without an interval, or in `wait_if_paused`, nothing else wakes it.
  `ShutdownEnds` is the same with the interval on.
* `torn` (ContentStore): a change of the match mode and `clear` are several transactions, and the
  results of their statements are ignored. A DROP that fails keeps what comes after it
  (`store.cpp:665`): rows without triggers, or an old index under the name of the new mode, which is
  recorded all the same. Of the two DELETEs of `clear` one may fail (`store.cpp:989`): rows that
  cannot be found, or texts without a row, which the `rebuild` may index again. A
  tombstone that is touched is live without a text; nothing in `src/` calls `tombstone`. A reader
  adopts the mode it finds, and keeps an unlinked database open until it is restarted. waylaunchd
  opens the store, and may replace it, before it takes its lock (`waylaunchd_main.cpp`).
* `HitsMatch` says that the predicates hold only of a row that is still the one that was ranked. The
  second phase finds a row by its id and asks it for the words alone (`store.cpp:1232-1236`): if the
  file was removed and its id given to another, or has a new version, the hit may be of another
  kind, name, size or age than was asked for. `Ignored` and `Overruled` are as in the next item.
* `QuietSearchExact` leaves out `size:<0`, `modified:<1970-01-01` and `modified:>` a time that
  reaches back to 1970 or beyond, which are taken for no predicate (`store.cpp:363`, `:472`), and the
  last second of a day in windows that end with one (`Ignored`, `LastSecond`). Of two predicates that
  bound the same side the last counts (`Overruled`).
* `ChildrenReturn` leaves out the hangs nothing guards against. `Subprocess::run` has no deadline,
  and a process the child leaves behind with its pipes keeps it waiting, as `wl-copy` would, for
  which `src/modes/clipboard.cpp:8` does without it. The extractor's deadline ends with the
  output: a child that closes it and hangs holds `waitpid` (`extractor.cpp:270`), where
  `extractor.h:5-8` says a parser cannot hang the indexer; a `kill` before the child's `setpgid`
  reaches nobody; a signal ends the reading early, and a partial output of `unzip` counts as all.
* `ControlTrue` says nothing of a command without an answer: `waylaunchctl` exits 0 on an empty
  one, may be killed by SIGPIPE, and what it gave up on may still be carried out.

The launcher, its modes and the dropdown:

* `raced` (AppSwitcher), and `ShownWithGrab`, for which `launcher_ui.cpp:462` speaks, does not hold:
  a press answered in the turn of the loop in which a confirmed overlay is to be unmapped shows
  an overlay that is then unmapped (`launcher_ui.cpp:742`). And `late`: a Tab that was on the wire when
  the overlay was unmapped is dispatched afterwards, and shows the overlay without mapping the
  surface (`launcher_ui.cpp:1163-1165`), so nothing is on the screen until the next press.
* `ClicksOnShown` (LauncherSearch) does not hold: in the launcher Alt or Super with Tab shows the
  embedded switcher, which is painted in place of the rows (`launcher_ui.cpp:1406`), and a click still
  selects and launches the row that was there (`launcher_ui.cpp:1302-1326`). `ActsOnShown` says that
  what is painted is the rows or the switcher, and keys go to what is painted.
* `ResultsStay` (LauncherSearch), for which `launcher_ui.cpp:810` speaks, does not hold: results
  taken for an earlier wakeup are taken again, empty, when their own wakeup comes
  (`launcher_ui.cpp:1043`), and the files disappear from the list.
* `StateMatchesChild` and `SpawningEnds` hold with respawn on, or with a compositor and forks that
  succeed. Otherwise a press makes the slot Spawning with nobody to end it
  (`dropdown_main.cpp:574`, `:357`), where `docs/DROPDOWN_IMPLEMENTATION.md:257` has a fresh
  terminal appear. `NoForkLeft` is the model's bound on sessions. Of the strip `PlacementTruth` is
  about the first session (`OneSession`): a successor forked before the end of the last is
  announced inherits its strip until then.
* `hyprland_backend.cpp:125` says a hand-spawned window of the same class can never be placed,
  hidden or resized in the slot's stead. Until the slot's own window is mapped it can
  (`window_ownership.cpp:19`): nothing else is a candidate. The surroundings with `intruder` have it.
  Of a session with two tabs, the slot's window is whichever the compositor lists first among those
  it owns (`:129`): a press may park one and leave the other on the screen, and the state is true of
  neither. `PlacementTruth` is about sessions that never had a second window (`OnlyWindow`).
* `Untaken` (PlacementTruth): a window may be on the screen while the state is Hidden, until the
  next press takes it. After the last attempt the daemon takes the slot to be hidden with no
  window (`dropdown_main.cpp:765-770`), and one that appears then is never parked (`GaveUp`); and
  when the attempts found another's window of the class, that is parked in its stead (`StandIn`:
  one started by hand, or one of the former session whose end is not announced yet).
* `StripFits` compares places only where the strip's output is the one it was made for: before
  outputs have told their names the compositor chooses, and nothing corrects it. `show_strip` called
  from `sync_strip_to_window` asks for the focused monitor, not the terminal's. `sync_strip_to_window` clamps
  the strip below the bar of the monitor it was on, and `show_strip` then anchors it to the focused one
  (`dropdown_main.cpp:469-477`). With the strip up that rebuilds a mapped surface, which is the end of the
  connection; but a surface that is not up, since its configure is late, gets there, and then its height
  is the other monitor's until the next turn looks again (`Due`). A resize that is not yet
  learned is discarded when a reload or a second tab places the terminal anew. The tabs are as wide
  as an integer division says: a remainder is nobody's, and many tabs lie off the strip.
* `PaintsWhatItMay` leaves out a configure that crosses the unmap, and a missed deadline; then a
  buffer is attached before its configure. `RebuiltUnmapped`, what `wayland_core.cpp:479` says, does
  not hold: a reload, or a drag, with the focus on another monitor rebuilds a mapped surface.
* `SavesKept` leaves out dropdowns that save at once: they share a name for the temporary file, so
  one may rename what the other is writing, or find nothing to rename, and either undoes the
  other's change (`dropdown_state.cpp:61`, which `dropdown_state.h:28` calls atomic).
  The launcher's lock keeps the history from that, but not launchers that could not open it
  (`main.cpp:27`). Nor does it keep what was saved when a file that cannot be read is taken for an empty
  one and written anew (`history.cpp:67`), or when a rename fails for any reason: the file is removed
  for a second rename, and a kill before it, or its failure, leaves none (`history.cpp:183`,
  `dropdown_state.cpp:86`).
* `PressesReach` leaves out what lies between the lock and the pid: a second process reads an empty
  file, or the pid of the last owner, and its press is lost (`main.cpp:31`). It also leaves out an
  instance that could not open the lock's file, and goes on without it (`main.cpp:154`), or whose
  pid could not be written (`main.cpp:29`): presses reach nobody, or start another instance. A child
  between `fork` and `exec` holds the lock of a launcher that has ended.
* `EventsInOrder` leaves out a line cut off by a disconnection: the parser's buffer outlives the
  socket, so the first line of the next connection is fused with it, or lost. Lines over 64K are
  dropped. `hyprland_events.h:44` has the stream go down on an end of file or a read error; only the
  end of file does that.
* `Agree` is about a list that is not empty. When no enabled action is known, Return moves the
  state machine to Dismissing and the manager ignores it (`power_input_controller.cpp:45`):
  the overlay stays, Escape is ignored from then on, and the keyboard stays grabbed, where
  `docs/POWER_MANAGER.md:413` has Escape at the grid close the overlay.

## 6. What is not modelled, and the plan

The modules were written in this order, the most important behaviour first: the daemon
(ContentIndex, IndexerThreads, WatchTree), the overlays and the dropdown (DropdownDaemon,
AppSwitcher, LauncherSearch, PowerOverlay), the store with its abstract specification and its reader
(SearchIndex, ContentStore, StoreSearch), the geometry and the strip (DropdownGeometry,
StripSurface), and what deals with other processes (ProcessesMC and its five modules).

Left out of components that are modelled: several roots, symbolic links, and `add_watches` over a
populated tree; the store's extra and dictionary tables, its tokenizer and the compression of texts;
failures of the clear in ContentIndex (ContentStore has them); the switcher's `q`, `h` and digits,
and SIGTERM while it is up; clicks on the strip; paging and scores in the launcher; a buffer that
cannot be had (`acquire_buffer` returns none: the strip, or the overlay, is then not painted until
something asks for it again); the length of pauses. Most of these would add state that no property
tells apart.

Not modelled: the list of power actions and the running of one, the parsing of JSON and TOML and the
lookup of a focused window in it, the providers' ranking and the calculator, painting, glyphs and
layout, the configuration. These are functions of their input, with unit tests, whose faults
lie in arithmetic on strings and pixels; the last but one draw what the modelled state says.

Proofs to come, the most important first:

1. `UnwatchedIsBackedUp` of WatchTree, that a directory without a watch is known to be one.
2. `NoFileMissed` of WatchTree: its invariant has to say, in the middle of a scan of one directory
   at a time in a tree that changes, what each event under way still brings, as `SoundInv` does.
3. `WatchNamesTruth`, and `TypeOK` of the modules that lack it.
