--------------------------- MODULE IndexerThreads ---------------------------
(***************************************************************************)
(* The threads of waylaunchd around Indexer's mutex and condition variable.*)
(*                                                                         *)
(* The worker waits on cv_ in two places: for work in run_loop, and for the*)
(* end of a pause in wait_if_paused.  The watcher thread pushes work under *)
(* mtx_; the control thread and main only store to atomics, without mtx_,  *)
(* and then notify.  A notification that finds nobody waiting is lost.     *)
(* What the worker does to the index is the business of ContentIndex: here *)
(* it is a number of files to crawl and of queued items to apply.          *)
(***************************************************************************)
EXTENDS Naturals

CONSTANTS
    Files,        \* entries a crawl visits
    Batch,        \* kBatch
    MaxWork,      \* bound on what the watcher enqueues in all
    MaxCommands,  \* bound on the commands the control channel receives
    Environments  \* [interval: reconcile_interval_s > 0, pause: pause is ever asked for]

ASSUME IndexerThreadsAssumption ==
    /\ Files \in Nat /\ MaxWork \in Nat /\ MaxCommands \in Nat
    /\ Batch \in Nat \ {0}
    /\ Environments \subseteq [interval : BOOLEAN, pause : BOOLEAN]

VARIABLES
    env,
    main, control, watcher,           \* where the other threads are
    worker, after,                    \* where the worker is; where a gate leads
    queue, reconcile, reindex, paused, stop,   \* Indexer's queue_ (its length) and atomics
    todo, batch,                      \* entries left to crawl, items left to apply
    work, commands,                   \* what the environment may still do
    sincePause                        \* history: files indexed since the pause was set

others == <<main, control, watcher, work, commands>>
flags == <<reconcile, reindex, paused, stop>>
own == <<after, todo, batch, sincePause>>
vars == <<env, others, worker, queue, flags, own>>

\* The worker holds mtx_ while it evaluates a wait's predicate, until the wait lets go of
\* it, and while it decides what to serve.
Locked == worker \in {"eval", "park", "serve", "late", "gate_eval", "gate_park"}
Work == reconcile \/ reindex \/ queue > 0

TypeOK ==
    /\ env \in Environments
    /\ main \in {"serving", "stop_control", "stop_watcher", "stop", "notify", "join", "done"}
    /\ control \in {"ready", "notify", "over"} /\ watcher \in {"ready", "notify", "over"}
    /\ worker \in {"off", "top", "eval", "park", "asleep", "serve", "late", "crawl", "file",
                   "gate", "gate_eval", "gate_park", "gate_asleep", "batch", "apply", "exit"}
    /\ after \in {"file", "batch"}
    /\ queue \in 0..MaxWork /\ todo \in 0..Files /\ batch \in 0..Batch
    /\ reconcile \in BOOLEAN /\ reindex \in BOOLEAN /\ paused \in BOOLEAN /\ stop \in BOOLEAN
    /\ work \in 0..MaxWork /\ commands \in 0..MaxCommands
    /\ queue + work <= MaxWork
    /\ sincePause \in 0..(Batch + 1)

Init ==
    /\ env \in Environments
    /\ main = "serving" /\ control = "ready" /\ watcher = "ready" /\ worker = "off"
    /\ after = "file"
    /\ queue = 0 /\ todo = 0 /\ batch = 0
    /\ reconcile = FALSE /\ reindex \in BOOLEAN /\ paused = FALSE /\ stop = FALSE
    /\ work = MaxWork /\ commands = MaxCommands
    /\ sincePause = 0

-----------------------------------------------------------------------------
(***************************************************************************)
(* The threads that hand work to the worker.                               *)
(***************************************************************************)

\* notify_one and notify_all alike: only the worker ever waits.
Notify ==
    worker' = CASE worker = "asleep" -> "eval"
                [] worker = "gate_asleep" -> "gate_eval"
                [] worker \notin {"asleep", "gate_asleep"} -> worker

\* A bug: the item is pushed without mtx_.
EnqueueUnlocked ==
    /\ watcher = "ready" /\ worker # "off" /\ work > 0
    /\ queue' = queue + 1 /\ work' = work - 1
    /\ watcher' = "notify"
    /\ UNCHANGED <<env, main, control, commands, worker, flags, own>>
Enqueue ==
    /\ watcher = "ready" /\ worker # "off" /\ work > 0
    /\ ~Locked
    /\ queue' = queue + 1 /\ work' = work - 1
    /\ watcher' = "notify"
    /\ UNCHANGED <<env, main, control, commands, worker, flags, own>>

WatcherForgetsToNotify ==       \* a bug
    /\ watcher = "notify"
    /\ watcher' = "ready"
    /\ UNCHANGED <<env, main, control, work, commands, worker, queue, flags, own>>
WatcherNotifies ==
    /\ watcher = "notify"
    /\ watcher' = "ready"
    /\ Notify
    /\ UNCHANGED <<env, main, control, work, commands, queue, flags, own>>

Command ==
    /\ control = "ready" /\ worker # "off" /\ commands > 0
    /\ commands' = commands - 1
    /\ control' = "notify"
    /\ UNCHANGED <<env, main, watcher, work, worker, queue, stop, after, todo, batch>>

RequestReconcile == Command /\ reconcile' = TRUE /\ UNCHANGED <<reindex, paused, sincePause>>
RequestReindex == Command /\ reindex' = TRUE /\ UNCHANGED <<reconcile, paused, sincePause>>
SetPaused(b) ==
    /\ env.pause
    /\ Command
    /\ paused' = b
    /\ sincePause' = IF b /\ ~paused THEN 0 ELSE sincePause
    /\ UNCHANGED <<reconcile, reindex>>

ControlNotifies ==
    /\ control = "notify"
    /\ control' = "ready"
    /\ Notify
    /\ UNCHANGED <<env, main, watcher, work, commands, queue, flags, own>>

\* main, once asked to shut down, joins the control thread, then the watcher, and then
\* stops the worker: Indexer::stop stores, notifies and joins.
ShutDown ==
    /\ main = "serving" /\ worker # "off"
    /\ main' = "stop_control"
    /\ UNCHANGED <<env, control, watcher, work, commands, worker, queue, flags, own>>

JoinControl ==
    /\ main = "stop_control" /\ control = "ready"
    /\ control' = "over" /\ main' = "stop_watcher"
    /\ UNCHANGED <<env, watcher, work, commands, worker, queue, flags, own>>

JoinWatcher ==
    /\ main = "stop_watcher" /\ watcher = "ready"
    /\ watcher' = "over" /\ main' = "stop"
    /\ UNCHANGED <<env, control, work, commands, worker, queue, flags, own>>

Stop ==
    /\ main = "stop"
    /\ stop' = TRUE
    /\ main' = "notify"
    /\ UNCHANGED <<env, control, watcher, work, commands, worker, queue,
                   reconcile, reindex, paused, own>>

MainNotifies ==
    /\ main = "notify"
    /\ main' = "join"
    /\ Notify
    /\ UNCHANGED <<env, control, watcher, work, commands, queue, flags, own>>

JoinWorker ==
    /\ main = "join" /\ worker = "exit"
    /\ main' = "done"
    /\ UNCHANGED <<env, control, watcher, work, commands, worker, queue, flags, own>>

Producers ==
    \/ Enqueue \/ WatcherNotifies
    \/ RequestReconcile \/ RequestReindex \/ (\E b \in BOOLEAN : SetPaused(b))
    \/ ControlNotifies
Main == ShutDown \/ JoinControl \/ JoinWatcher \/ Stop \/ MainNotifies \/ JoinWorker

-----------------------------------------------------------------------------
(***************************************************************************)
(* The worker.                                                             *)
(***************************************************************************)

BeginPass == worker' = "crawl" /\ todo' = Files

Start ==
    /\ worker = "off"
    /\ reindex' = FALSE
    /\ BeginPass
    /\ UNCHANGED <<env, others, queue, reconcile, paused, stop, after, batch, sincePause>>

Top ==
    /\ worker = "top"
    /\ worker' = IF stop THEN "exit" ELSE "eval"
    /\ UNCHANGED <<env, others, queue, flags, own>>

\* The predicate of run_loop's wait is evaluated under mtx_, and mtx_ is released only as
\* the worker starts to wait; the atomics may change in between.
Eval ==
    /\ worker = "eval"
    /\ worker' = IF stop \/ Work THEN "serve" ELSE "park"
    /\ UNCHANGED <<env, others, queue, flags, own>>

Park ==
    /\ worker \in {"park", "gate_park"}
    /\ worker' = IF worker = "park" THEN "asleep" ELSE "gate_asleep"
    /\ UNCHANGED <<env, others, queue, flags, own>>

\* wait_until has a deadline when the interval is on; wait_if_paused never has one.
NoDeadline == FALSE /\ UNCHANGED vars      \* a bug: plain wait()
Deadline ==
    /\ worker = "asleep" /\ env.interval
    /\ worker' = "late"
    /\ UNCHANGED <<env, others, queue, flags, own>>

\* The interval may have elapsed unnoticed while the worker was busy; it has when the wait
\* timed out.
Due == IF worker = "late" THEN {TRUE} ELSE {FALSE, env.interval}

ServeStop ==
    /\ worker \in {"serve", "late"} /\ stop
    /\ worker' = "exit"
    /\ UNCHANGED <<env, others, queue, flags, own>>

ServeReindex ==
    /\ worker \in {"serve", "late"} /\ ~stop /\ reindex
    /\ reindex' = FALSE
    /\ BeginPass
    /\ UNCHANGED <<env, others, queue, reconcile, paused, stop, after, batch, sincePause>>

ServeReconcile ==
    /\ worker \in {"serve", "late"} /\ ~stop /\ ~reindex
    /\ reconcile \/ TRUE \in Due
    /\ reconcile' = FALSE
    /\ BeginPass
    /\ UNCHANGED <<env, others, queue, reindex, paused, stop, after, batch, sincePause>>

\* Where the worker goes with a batch in hand.
AfterTakeUngated == "batch"     \* a bug: the pause is not looked at
AfterTake == "gate"

\* Items taken from the front of the queue.
Taken == IF queue < Batch THEN queue ELSE Batch

ServeQueue ==
    /\ worker \in {"serve", "late"} /\ ~stop /\ ~reindex /\ ~reconcile /\ FALSE \in Due
    /\ batch' = Taken
    /\ queue' = queue - batch'
    /\ worker' = AfterTake /\ after' = "batch"
    /\ UNCHANGED <<env, others, flags, todo, sincePause>>

\* crawl_all's loop: `stop_' is looked at before every entry, then the pause.
Crawl ==
    /\ worker = "crawl"
    /\ IF stop \/ todo = 0
       THEN worker' = "top" /\ UNCHANGED after
       ELSE worker' = "gate" /\ after' = "file"
    /\ UNCHANGED <<env, others, queue, flags, todo, batch, sincePause>>

Gate ==
    /\ worker = "gate"
    /\ worker' = IF paused THEN "gate_eval" ELSE after
    /\ UNCHANGED <<env, others, queue, flags, own>>

GateEval ==
    /\ worker = "gate_eval"
    /\ worker' = IF ~paused \/ stop THEN after ELSE "gate_park"
    /\ UNCHANGED <<env, others, queue, flags, own>>

Counted == IF paused /\ sincePause <= Batch THEN sincePause + 1 ELSE sincePause

IndexEntry ==
    /\ worker = "file"
    /\ todo' = todo - 1
    /\ sincePause' = Counted
    /\ worker' = "crawl"
    /\ UNCHANGED <<env, others, queue, flags, after, batch>>

BatchBegin ==
    /\ worker = "batch"
    /\ worker' = IF stop THEN "exit" ELSE "apply"
    /\ UNCHANGED <<env, others, queue, flags, own>>

ApplyItem ==
    /\ worker = "apply"
    /\ IF batch = 0
       THEN worker' = "top" /\ UNCHANGED <<batch, sincePause>>
       ELSE batch' = batch - 1 /\ sincePause' = Counted /\ UNCHANGED worker
    /\ UNCHANGED <<env, others, queue, flags, after, todo>>

Worker ==
    \/ Start \/ Top \/ Eval \/ Park \/ Deadline
    \/ ServeStop \/ ServeReindex \/ ServeReconcile \/ ServeQueue
    \/ Crawl \/ Gate \/ GateEval \/ IndexEntry \/ BatchBegin \/ ApplyItem

Next == Producers \/ Main \/ Worker

Spec == Init /\ [][Next]_vars

\* The threads run; a notification under way arrives.  Nobody has to send a command or to
\* write a file.  A pass resets the deadline of the next, so the queue gets its turn.
Fairness ==
    /\ WF_vars(Worker) /\ SF_vars(ServeQueue)
    /\ WF_vars(WatcherNotifies) /\ WF_vars(ControlNotifies)
    /\ WF_vars(JoinControl \/ JoinWatcher \/ Stop \/ MainNotifies \/ JoinWorker)
FairSpec == Spec /\ Fairness

-----------------------------------------------------------------------------
(***************************************************************************)
(* Properties.                                                             *)
(***************************************************************************)

\* The worker never sleeps on work of the watcher's without somebody about to wake it:
\* the queue is pushed to under mtx_, so the predicate cannot miss it.
NoLostEnqueue == worker = "asleep" /\ queue > 0 => watcher = "notify"

\* A pause lets through what is under way and no more: at most one batch, or one file of a
\* crawl, is indexed after it (FR8), until the daemon stops.
PauseHolds == paused /\ ~stop => sincePause <= Batch

\* What the watcher queues is served, unless the daemon stops or is ever paused, with no
\* interval to help.
QueueServed == ~env.pause => (queue > 0 ~> (queue = 0 \/ stop))

\* With the interval on a request is served, even when its notification was lost.
RequestsServed == env.interval /\ ~env.pause =>
    (reindex \/ reconcile ~> (~reindex /\ ~reconcile) \/ stop)

\* With the interval on and no pause, shutting down ends.
ShutdownEnds == env.interval /\ ~env.pause => (main = "stop_control" ~> main = "done")

\* What indexer.h:29 says of Indexer::stop: it signals the worker and joins it.  It does not
\* hold without an interval or while paused, see the README.
StopReturns == main = "join" ~> main = "done"
=============================================================================
