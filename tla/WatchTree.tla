------------------------------ MODULE WatchTree ------------------------------
(***************************************************************************)
(* FsWatcher: one inotify watch per directory, kept up while directories   *)
(* are created, renamed, moved away and removed.                           *)
(*                                                                         *)
(* Directories are inodes with a place in the tree; a watch is on an inode *)
(* and the watcher's maps are between watch descriptors and paths, which   *)
(* change under it.  Every directory may hold one file.  What the indexer  *)
(* is told is kept as the set of files it must believe in.  The kernel's   *)
(* queue may run full: what does not fit is lost, and one IN_Q_OVERFLOW    *)
(* says so.  Excluded paths, and what the pass an overflow asks for makes  *)
(* of the index, are the business of ContentIndex.                         *)
(***************************************************************************)
EXTENDS Naturals, Sequences, SequencesExt, FiniteSets

CONSTANTS
    Dirs,        \* directories other than the root
    Root,
    Names,
    MaxDepth,    \* bound on the length of a path
    MaxOps,      \* bound on the changes made to the tree
    Limits,      \* the values of fs.inotify.max_user_watches to consider
    Queues       \* the values of fs.inotify.max_queued_events to consider

ASSUME WatchTreeAssumption ==
    /\ Root \notin Dirs /\ MaxDepth \in Nat /\ MaxOps \in Nat /\ Limits \subseteq Nat \ {0}
    /\ Queues \subseteq Nat \ {0}

VARIABLES
    limit, capacity,            \* max_user_watches, max_queued_events
    place,                      \* Dirs -> where the directory is
    files,                      \* directories that hold a file
    watched, nextWd,            \* kernel: watch descriptor of an inode (0: none), the next one
    events, emitting,           \* kernel: queue, and what is left to queue of a rename
    ops,                        \* changes still allowed
    wdToPath, pathToWd,         \* FsWatcher's maps
    pc, stack, pending,         \* thread_main, scan_subtree's stack, unpaired MOVED_FROM
    limitHit, degraded,         \* limit_hit_, Indexer's watch_degraded_
    believed,                   \* files on_index named and nothing has removed since
    forgot,                     \* history: a watch was dropped that still was right
    reindexed,                  \* history: the control channel asked for a reindex
    loss                        \* history: events were lost, and whether the indexer was told

limits == <<limit, capacity>>

tree == <<place, files, ops, emitting>>
kernel == <<watched, nextWd>>
maps == <<wdToPath, pathToWd>>
told == <<limitHit, degraded, believed>>
vars == <<limits, tree, kernel, events, maps, pc, stack, pending, told, forgot, reindexed, loss>>

Nowhere == [in |-> Root, name |-> "none"]     \* not created yet, or removed
Outside == [in |-> Root, name |-> "out"]      \* moved out of the tree
Inside(d) == place[d] \notin {Nowhere, Outside}

\* A stale watch can make the watcher name a path longer than any in the tree.
Paths == UNION {[1..n -> Names] : n \in 0..(MaxDepth + 1)}
MaxWd == Cardinality(Dirs) * (MaxOps + 1) + 1
Wds == 1..MaxWd

\* The path of a directory, going up at most MaxDepth parents; <<>> is the root's.
PathOf[d \in Dirs \cup {Root}, n \in 0..MaxDepth] ==
    IF d = Root THEN <<>>
    ELSE IF n = 0 THEN <<>> ELSE Append(PathOf[place[d].in, n - 1], place[d].name)
Path(d) == PathOf[d, MaxDepth]

\* In the tree, and not in a directory that was moved out with it.
Reaches[d \in Dirs \cup {Root}, n \in 0..MaxDepth] ==
    IF d = Root THEN TRUE ELSE n > 0 /\ Inside(d) /\ Reaches[place[d].in, n - 1]
InTree(d) == Reaches[d, MaxDepth]
At(p) == {d \in Dirs \cup {Root} : InTree(d) /\ Path(d) = p}
Children(d) == {c \in Dirs : Inside(c) /\ place[c].in = d}
Below[d \in Dirs, n \in 0..MaxDepth] ==
    {d} \cup (IF n = 0 THEN {} ELSE UNION {Below[c, n - 1] : c \in Children(d)})
Under(p, q) == IsPrefix(q, p)      \* p is q or below it

Event(wd, mask, name, cookie) == [wd |-> wd, mask |-> mask, name |-> name, cookie |-> cookie]
Notice(d, mask, name, cookie) == [on |-> d, mask |-> mask, name |-> name, cookie |-> cookie]
Masks == {"CREATE", "DELETE", "CLOSE_WRITE", "DELETE_FILE", "MOVED_FROM", "MOVED_TO",
          "SELF"}   \* SELF: IN_DELETE_SELF, IN_MOVE_SELF or IN_IGNORED
Overflow == Event(0, "Q_OVERFLOW", "none", 0)

TypeOK ==
    /\ limit \in Limits /\ capacity \in Queues /\ loss \in {"none", "untold", "told"}
    /\ place \in [Dirs -> [in : Dirs \cup {Root}, name : Names \cup {"none", "out"}]]
    /\ files \subseteq Dirs
    /\ watched \in [Dirs \cup {Root} -> 0..MaxWd] /\ nextWd \in 1..(MaxWd + 1)
    /\ events \in Seq({Overflow} \cup [wd : Wds, mask : Masks, name : Names \cup {"none"},
                                       cookie : 0..MaxOps])
    /\ emitting \in Seq([on : Dirs \cup {Root}, mask : Masks, name : Names \cup {"none"},
                         cookie : 0..MaxOps])
    /\ ops \in 0..MaxOps
    /\ wdToPath \in [Wds -> Paths \cup {<<"none">>}] /\ pathToWd \in [Paths -> 0..MaxWd]
    /\ pc \in {"idle", "drain", "watch", "list"}
    /\ stack \in Seq(Paths)
    /\ pending \subseteq [cookie : 0..MaxOps, path : Paths]
    /\ \A b \in {limitHit, degraded, forgot, reindexed} : b \in BOOLEAN
    /\ believed \subseteq Paths

NoPath == <<"none">>

\* main starts the watcher on a tree that holds the root alone.
Init ==
    /\ limit \in Limits /\ capacity \in Queues /\ loss = "none"
    /\ place = [d \in Dirs |-> Nowhere] /\ files = {}
    /\ watched = [d \in Dirs \cup {Root} |-> IF d = Root THEN 1 ELSE 0] /\ nextWd = 2
    /\ events = <<>> /\ emitting = <<>> /\ ops = MaxOps
    /\ wdToPath = [w \in Wds |-> IF w = 1 THEN <<>> ELSE NoPath]
    /\ pathToWd = [p \in Paths |-> IF p = <<>> THEN 1 ELSE 0]
    /\ pc = "idle" /\ stack = <<>> /\ pending = {}
    /\ limitHit = FALSE /\ degraded = FALSE /\ believed = {}
    /\ forgot = FALSE /\ reindexed = FALSE

-----------------------------------------------------------------------------
(***************************************************************************)
(* Changes to the tree, and what inotify makes of them.                    *)
(***************************************************************************)

On(d, mask, name, cookie) ==
    IF watched[d] = 0 THEN <<>> ELSE <<Event(watched[d], mask, name, cookie)>>

\* An event that finds the queue full is dropped; the first of them leaves the mark.
Queue(queue, e) ==
    IF Len(queue) < capacity THEN Append(queue, e)
    ELSE IF Overflow \in Range(queue) THEN queue ELSE Append(queue, Overflow)
Queued(es) ==
    /\ events' = FoldLeft(Queue, events, es)
    /\ loss' = IF events' = events \o es THEN loss ELSE "untold"

Room(p) == InTree(p) /\ Len(Path(p)) < MaxDepth
Free(p, name) == \A c \in Children(p) : place[c].name # name
Fits(d, p) ==      \* d, with what is below it, in p
    /\ p \notin Below[d, MaxDepth]
    /\ \A c \in Below[d, MaxDepth] : Len(Path(p)) + 1 + Len(Path(c)) - Len(Path(d)) <= MaxDepth

\* One change at a time; the events of a rename are queued one by one.
Change(queued, later) ==
    /\ ops > 0 /\ emitting = <<>>
    /\ ops' = ops - 1
    /\ Queued(queued) /\ emitting' = later
    /\ UNCHANGED <<limits, maps, pc, stack, pending, told, forgot, reindexed>>

Mkdir(d, p, name) ==
    /\ place[d] = Nowhere /\ Room(p) /\ Free(p, name)
    /\ place' = [place EXCEPT ![d] = [in |-> p, name |-> name]]
    /\ Change(On(p, "CREATE", name, 0), <<>>)
    /\ UNCHANGED <<files, kernel>>

Rmdir(d) ==
    /\ InTree(d) /\ Children(d) = {} /\ d \notin files
    /\ place' = [place EXCEPT ![d] = Nowhere]
    /\ watched' = [watched EXCEPT ![d] = 0]
    /\ Change(On(place[d].in, "DELETE", place[d].name, 0) \o On(d, "SELF", "none", 0), <<>>)
    /\ UNCHANGED <<files, nextWd>>

Rename(d, p, name) ==
    /\ InTree(d) /\ Room(p) /\ Free(p, name) /\ Fits(d, p)
    /\ place' = [place EXCEPT ![d] = [in |-> p, name |-> name]]
    /\ Change(On(place[d].in, "MOVED_FROM", place[d].name, ops),
              <<Notice(p, "MOVED_TO", name, ops), Notice(d, "SELF", "none", 0)>>)
    /\ UNCHANGED <<files, kernel>>

MoveOut(d) ==
    /\ InTree(d)
    /\ place' = [place EXCEPT ![d] = Outside]
    /\ Change(On(place[d].in, "MOVED_FROM", place[d].name, ops), <<Notice(d, "SELF", "none", 0)>>)
    /\ UNCHANGED <<files, kernel>>

MoveIn(d, p, name) ==
    /\ place[d] = Outside /\ Room(p) /\ Free(p, name) /\ Fits(d, p)
    /\ place' = [place EXCEPT ![d] = [in |-> p, name |-> name]]
    /\ Change(On(p, "MOVED_TO", name, ops), <<Notice(d, "SELF", "none", 0)>>)
    /\ UNCHANGED <<files, kernel>>

WriteFile(d) ==
    /\ place[d] # Nowhere /\ d \notin files
    /\ files' = files \cup {d}
    /\ Change(On(d, "CLOSE_WRITE", "none", 0), <<>>)
    /\ UNCHANGED <<place, kernel>>

UnlinkFile(d) ==
    /\ d \in files
    /\ files' = files \ {d}
    /\ Change(On(d, "DELETE_FILE", "none", 0), <<>>)
    /\ UNCHANGED <<place, kernel>>

Emit ==
    /\ emitting # <<>>
    /\ LET e == Head(emitting) IN Queued(On(e.on, e.mask, e.name, e.cookie))
    /\ emitting' = Tail(emitting)
    /\ UNCHANGED <<limits, place, files, ops, kernel, maps, pc, stack, pending, told,
                   forgot, reindexed>>

\* The control channel's `reindex': "a fresh index re-adds watches".
RequestReindex ==
    /\ ~reindexed /\ degraded
    /\ degraded' = FALSE /\ reindexed' = TRUE
    /\ UNCHANGED <<limits, tree, kernel, events, maps, pc, stack, pending, limitHit, believed,
                   forgot, loss>>

World ==
    \/ \E d \in Dirs : Rmdir(d) \/ MoveOut(d) \/ WriteFile(d) \/ UnlinkFile(d)
    \/ \E d \in Dirs, p \in Dirs \cup {Root}, name \in Names :
          Mkdir(d, p, name) \/ Rename(d, p, name) \/ MoveIn(d, p, name)
    \/ Emit \/ RequestReindex

-----------------------------------------------------------------------------
(***************************************************************************)
(* FsWatcher.                                                              *)
(***************************************************************************)

\* ENOSPC: the first time, the indexer is told to reconcile more often.
LimitForgotten == limitHit' = TRUE /\ UNCHANGED degraded     \* a bug: on_watch_limit is not wired
AtLimit == limitHit' = TRUE /\ degraded' = (degraded \/ ~limitHit)

MappedOnce(w, p) == [wdToPath EXCEPT ![w] = IF @ = NoPath THEN p ELSE @]   \* a bug: emplace
Mapped(w, p) == [wdToPath EXCEPT ![w] = p]

InUse == Cardinality({d \in DOMAIN watched : watched[d] # 0})

\* inotify_add_watch on the directory that is at p now, and the maps; a directory that has a
\* watch already gives the same descriptor.
AddWatch(p) ==
    \/ At(p) = {} /\ UNCHANGED <<kernel, maps, limitHit, degraded>>
    \/ \E d \in At(p) :
         \/ /\ watched[d] = 0 /\ InUse >= limit
            /\ AtLimit
            /\ UNCHANGED <<kernel, maps>>
         \/ LET known == watched[d] # 0
                w == IF known THEN watched[d] ELSE nextWd
                old == wdToPath[w]
            IN  /\ known \/ InUse < limit
                /\ watched' = [watched EXCEPT ![d] = w]
                /\ nextWd' = IF known THEN nextWd ELSE nextWd + 1
                /\ wdToPath' = Mapped(w, p)
                /\ pathToWd' = [q \in Paths |-> IF q = p THEN w
                                               ELSE IF q = old THEN 0 ELSE pathToWd[q]]
                /\ UNCHANGED <<limitHit, degraded>>

\* drop_watch_subtree.
Dropped(p) == {pathToWd[q] : q \in {r \in Paths : Under(r, p)}} \ {0}
DropWatches(p) ==
    /\ watched' = [d \in DOMAIN watched |-> IF watched[d] \in Dropped(p) THEN 0 ELSE watched[d]]
    /\ wdToPath' = [w \in Wds |-> IF w \in Dropped(p) THEN NoPath ELSE wdToPath[w]]
    /\ pathToWd' = [q \in Paths |-> IF Under(q, p) THEN 0 ELSE pathToWd[q]]
    /\ UNCHANGED nextWd

RemoveTree(p) == believed' = {q \in believed : ~Under(q, p)}

StartDrain ==
    /\ pc = "idle" /\ events # <<>>
    /\ pc' = "drain"
    /\ UNCHANGED <<limits, tree, kernel, events, maps, stack, pending, told, forgot, reindexed,
                   loss>>

\* The maps are right about d, watched as wd.
Stands(d, wd) == watched[d] = wd /\ InTree(d) /\ wdToPath[wd] = Path(d)

Base == wdToPath[Head(events).wd]
Full == Append(Base, Head(events).name)

\* The event at the head of the queue is e, on a directory the maps know.
Handle(mask) ==
    /\ pc = "drain" /\ events # <<>> /\ Head(events).mask = mask
    /\ events' = Tail(events)
    /\ forgot' = (forgot \/ (mask = "SELF" /\ \E d \in Dirs : Stands(d, Head(events).wd)))
    /\ loss' = IF mask = "Q_OVERFLOW" THEN "told" ELSE loss
    /\ UNCHANGED <<limits, tree, reindexed>>
Known == Base # NoPath
Scan(p) == pc' = "watch" /\ stack' = <<p>>
NoScan == UNCHANGED <<pc, stack>>

\* on_overflow: the indexer is asked to reconcile; no watch is added, and none looked at.
Overflowed ==
    /\ Handle("Q_OVERFLOW")
    /\ NoScan /\ UNCHANGED <<kernel, maps, pending, told>>

Unknown ==
    /\ \E mask \in Masks : Handle(mask)
    /\ ~Known
    /\ NoScan /\ UNCHANGED <<kernel, maps, pending, told>>

\* Of a rename, IN_MOVE_SELF comes last: the directory may by then have its new watch.
Self ==
    /\ Handle("SELF") /\ Known
    /\ wdToPath' = [wdToPath EXCEPT ![Head(events).wd] = NoPath]
    /\ pathToWd' = [pathToWd EXCEPT ![Base] = 0]
    /\ NoScan /\ UNCHANGED <<kernel, pending, told>>

Create ==
    /\ Handle("CREATE") /\ Known
    /\ Scan(Full)
    /\ UNCHANGED <<kernel, maps, pending, told>>

CloseWrite ==
    /\ Handle("CLOSE_WRITE") /\ Known
    /\ believed' = believed \cup {Base}
    /\ NoScan /\ UNCHANGED <<kernel, maps, pending, limitHit, degraded>>

DeleteFile ==
    /\ Handle("DELETE_FILE") /\ Known
    /\ believed' = believed \ {Base}
    /\ NoScan /\ UNCHANGED <<kernel, maps, pending, limitHit, degraded>>

Delete ==
    /\ Handle("DELETE") /\ Known
    /\ DropWatches(Full) /\ RemoveTree(Full)
    /\ NoScan /\ UNCHANGED <<pending, limitHit, degraded>>

MovedFrom ==
    /\ Handle("MOVED_FROM") /\ Known
    /\ pending' = pending \cup {[cookie |-> Head(events).cookie, path |-> Full]}
    /\ NoScan /\ UNCHANGED <<kernel, maps, told>>

\* Both halves of a rename in one drain: the old path goes, with all below it.
MovedTo ==
    /\ Handle("MOVED_TO") /\ Known
    /\ LET half == {f \in pending : f.cookie = Head(events).cookie}
       IN  /\ pending' = pending \ half
           /\ \/ \E f \in half : DropWatches(f.path) /\ RemoveTree(f.path)
              \/ half = {} /\ UNCHANGED <<kernel, maps, believed>>
    /\ Scan(Full)
    /\ UNCHANGED <<limitHit, degraded>>

\* scan_subtree: a directory is watched first and listed then.
ScanWatch ==
    /\ pc = "watch"
    /\ AddWatch(Head(stack))
    /\ pc' = "list"
    /\ UNCHANGED <<limits, tree, events, stack, pending, believed, forgot, reindexed, loss>>

ListedDirectories == {}      \* a bug: as add_watches does at start-up
Listed == IF At(Head(stack)) \cap files # {} THEN {Head(stack)} ELSE {}

ScanList ==
    /\ pc = "list"
    /\ LET below == UNION {Children(d) : d \in At(Head(stack))}
       IN  stack' = SetToSeq({Path(c) : c \in below}) \o Tail(stack)
    /\ believed' = believed \cup Listed
    /\ pc' = IF stack' = <<>> THEN "drain" ELSE "watch"
    /\ UNCHANGED <<limits, tree, kernel, events, maps, pending, limitHit, degraded, forgot,
                   reindexed, loss>>

\* At the end of the drain what is left unpaired has left the tree; a directory made at its
\* path in the same drain loses its watch.
Flush ==
    /\ pc = "drain" /\ events = <<>> /\ pending # {}
    /\ \E f \in pending :
         /\ pending' = pending \ {f}
         /\ DropWatches(f.path) /\ RemoveTree(f.path)
         /\ forgot' = (forgot \/ At(f.path) # {})
    /\ UNCHANGED <<limits, tree, events, pc, stack, limitHit, degraded, reindexed, loss>>

EndDrain ==
    /\ pc = "drain" /\ events = <<>> /\ pending = {}
    /\ pc' = "idle"
    /\ UNCHANGED <<limits, tree, kernel, events, maps, stack, pending, told, forgot, reindexed,
                   loss>>

Watcher ==
    \/ StartDrain
    \/ Overflowed \/ Unknown \/ Self \/ Create \/ CloseWrite \/ DeleteFile \/ Delete \/ MovedFrom \/ MovedTo
    \/ ScanWatch \/ ScanList
    \/ Flush \/ EndDrain

Next == World \/ Watcher

Spec == Init /\ [][Next]_vars

-----------------------------------------------------------------------------
(***************************************************************************)
(* Properties.                                                             *)
(***************************************************************************)

Quiet == pc = "idle" /\ events = <<>> /\ emitting = <<>>

\* However directories were made, filled, renamed and moved while the watcher looked at them,
\* no file in them is missed: a directory is watched before it is listed.  Nor is a path
\* believed in that holds no file any more.  (Two races make it forget a watch it needs, see
\* Flush and Self.)  When events were lost, whichever they were and however late, the indexer
\* has been asked for a pass since, and that is all it has.
NoFileMissed ==
    Quiet /\ ~limitHit /\ ~forgot =>
        IF loss = "none"
        THEN /\ \A d \in files : InTree(d) => Path(d) \in believed
             /\ \A p \in believed : At(p) \cap files # {}
        ELSE loss = "told"

\* A directory without a watch is known to need the shorter reconcile interval, until a
\* reindex is asked for.  Not so when events were lost: the pass an overflow asks for adds no
\* watches, so a directory whose IN_CREATE was among them stays without one, and nobody knows.
UnwatchedIsBackedUp ==
    Quiet /\ ~forgot /\ ~reindexed /\ loss = "none" =>
        degraded \/ \A d \in Dirs : InTree(d) => watched[d] # 0

\* Events are reported under the path a directory has now, unless those of its move were lost.
WatchNamesTruth ==
    Quiet /\ ~limitHit /\ ~forgot /\ loss = "none" =>
        \A d \in Dirs : InTree(d) /\ watched[d] # 0 => wdToPath[watched[d]] = Path(d)
=============================================================================
