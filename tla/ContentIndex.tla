---------------------------- MODULE ContentIndex ----------------------------
(***************************************************************************)
(* How the content index of waylaunchd follows one watched directory.      *)
(*                                                                         *)
(* Three actors interleave: the user's programs, which create, rewrite,    *)
(* rename and delete files; the watcher thread (FsWatcher), which drains   *)
(* the kernel's inotify queue into the indexer's work queue; and the       *)
(* worker thread (Indexer), which crawls, reconciles and re-indexes, each  *)
(* file in the separate system calls index_file makes.  The daemon may     *)
(* crash between any two steps and come back.                              *)
(*                                                                         *)
(* A file is a pair [mtime, data]; `data' stands for the bytes (and, hash  *)
(* collisions aside, for their FNV hash), and a stored body is named by    *)
(* the data it was extracted from.                                         *)
(***************************************************************************)
EXTENDS Naturals, Sequences, FiniteSets

CONSTANTS
    Paths,      \* names in the watched directory
    Environments, \* the configurations and surroundings a run of the system may have
    MaxClock,   \* bound on the number of file versions
    MaxQueue,   \* bound on the indexer's queue (the code has none)
    KernelMax,  \* events the kernel queues before it overflows
    Batch       \* kBatch: files per transaction

AllOps == {"write", "delete", "rename", "moveout", "movein", "link", "touch",
           "exclude", "reindex", "reconcile", "exterror", "crash"}

\* What happens around the daemon, to which names, and the configuration it has: the size
\* cap in rows of the index (0 is unlimited) and whether reconcile_interval_s > 0.
ASSUME ContentIndexAssumption ==
    /\ Environments \subseteq
            [ops : SUBSET AllOps, names : SUBSET Paths, cap : Nat, periodic : BOOLEAN]
    /\ MaxClock \in Nat /\ MaxQueue \in Nat
    /\ KernelMax \in Nat \ {0} /\ Batch \in Nat \ {0}

VARIABLES
    env,                             \* chosen once
    file, open, clock,               \* the directory, and files still being written
    kq, wpc, pending,                \* kernel queue; watcher thread; unpaired MOVED_FROM
    queue, reconcile, reindex,       \* Indexer::queue_, reconcile_, reindex_
    excluded, capped,                \* runtime_excludes_, size_capped_
    pc, task, todo, gone, batch, seen, since,  \* the worker thread
    row, saved,                      \* the index as the writer sees it, and as committed
    missed, lost, torn     \* history: changed unseen; told too late or never; clear cut short

fsVars == <<env, file, open, clock>>
watchVars == <<wpc, pending>>
flagVars == <<queue, reconcile, reindex, excluded>>
workVars == <<pc, task, todo, gone, batch, seen, since, capped>>
history == <<missed, lost, torn>>
vars == <<fsVars, kq, watchVars, flagVars, workVars, row, saved, history>>

NoFile == [mtime |-> 0, data |-> 0, moved |-> FALSE]
NoRow  == [mtime |-> 0, hash |-> 0, body |-> 0, state |-> "none"]
NoHash == 0      \* hash_file could not open the file
NoBody == 0      \* nothing was extracted, or the doc row was deleted
NoSeen == [mtime |-> 0, hash |-> NoHash]

Version(m, d) == [mtime |-> m, data |-> d, moved |-> FALSE]
Files == [mtime : 0..MaxClock, data : 0..MaxClock, moved : BOOLEAN]
Rows  == [mtime : 0..MaxClock, hash : 0..MaxClock, body : 0..MaxClock,
          state : {"none", "Indexed", "Error"}]
Items  == [kind : {"Index", "Remove"}, path : Paths]
Events == [mask : {"create", "close_write", "moved_from", "delete"}, path : Paths]
            \cup [mask : {"moved_to"}, path : Paths, paired : BOOLEAN]
            \cup [mask : {"overflow"}]

Exists(p) == file[p] # NoFile
Running == pc # "down"
Watching == wpc # "off"

TypeOK ==
    /\ env \in Environments
    /\ file \in [Paths -> Files] /\ open \in [Paths -> BOOLEAN] /\ clock \in 0..MaxClock
    /\ kq \in Seq(Events) /\ wpc \in {"off", "poll", "drain", "flush"}
    /\ pending \in Seq(Paths)
    /\ queue \in Seq(Items) /\ reconcile \in BOOLEAN /\ reindex \in BOOLEAN
    /\ excluded \subseteq Paths /\ capped \in BOOLEAN
    /\ pc \in {"down", "boot", "clear", "dropped", "begin", "crawl", "scan",
               "idle", "batch", "stat", "hash", "extract"}
    /\ task \in {"crawl", "batch"}
    /\ todo \subseteq Paths /\ gone \subseteq Paths /\ batch \in Seq(Items)
    /\ seen \in [mtime : 0..MaxClock, hash : 0..MaxClock]
    /\ since \in 0..(Batch - 1)
    /\ row \in [Paths -> Rows] /\ saved \in [Paths -> Rows]
    /\ missed \subseteq Paths /\ lost \subseteq Paths /\ torn \in BOOLEAN

Init ==
    /\ env \in Environments
    /\ file = [p \in Paths |-> NoFile] /\ open = [p \in Paths |-> FALSE] /\ clock = 0
    /\ kq = <<>> /\ wpc = "off" /\ pending = <<>>
    /\ queue = <<>> /\ reconcile = FALSE /\ reindex = FALSE
    /\ excluded = {} /\ capped = FALSE
    /\ pc = "down" /\ task = "batch" /\ todo = {} /\ gone = {} /\ batch = <<>>
    /\ seen = NoSeen /\ since = 0
    /\ row = [p \in Paths |-> NoRow] /\ saved = row
    /\ missed = {} /\ lost = {} /\ torn = FALSE

-----------------------------------------------------------------------------
(***************************************************************************)
(* The file system and its inotify queue.                                  *)
(***************************************************************************)

\* The kernel merges an event into an identical one at the tail, and once the
\* queue is full keeps a single overflow marker and drops the rest.
Overflow == [mask |-> "overflow"]
Last(s) == s[Len(s)]
Merged(q, e) == q # <<>> /\ Last(q) = e
Dropped(q, e) == ~Merged(q, e) /\ Len(q) >= KernelMax
Queued(q, e) ==
    IF Merged(q, e) THEN q
    ELSE IF ~Dropped(q, e) THEN Append(q, e)
    ELSE IF \E i \in DOMAIN q : q[i] = Overflow THEN q
    ELSE Append(q, Overflow)

\* The paths in `ps' changed and the event e is all that says so.
Report(e, ps) ==
    IF Watching
    THEN /\ kq' = Queued(kq, e)
         /\ lost' = IF Dropped(kq, e) THEN lost \cup ps ELSE lost
         /\ UNCHANGED missed
    ELSE missed' = missed \cup ps /\ UNCHANGED <<kq, lost>>

\* With "touch", a program may leave the bytes as they are and renew the time alone.  None
\* writes back the bytes of an earlier version.
Versions(p) ==
    {Version(clock + 1, clock + 1)}
        \cup (IF "touch" \in env.ops /\ Exists(p) THEN {[file[p] EXCEPT !.mtime = clock + 1]} ELSE {})

\* A program opens p, creating it if need be, and writes; it may write again.
WriteFile(p) ==
    /\ "write" \in env.ops /\ clock < MaxClock
    /\ ~("link" \in env.ops /\ file[p].moved)
    /\ \E v \in Versions(p) : file' = [file EXCEPT ![p] = v]
    /\ clock' = clock + 1
    /\ open' = [open EXCEPT ![p] = TRUE]
    /\ IF Exists(p) THEN UNCHANGED <<kq, missed, lost>>
       ELSE Report([mask |-> "create", path |-> p], {})

CloseFile(p) ==
    /\ open[p]
    /\ open' = [open EXCEPT ![p] = FALSE]
    /\ Report([mask |-> "close_write", path |-> p], {p})
    /\ UNCHANGED <<file, clock>>

\* IN_EXCL_UNLINK: a file unlinked while open reports nothing when it is closed.
Vanish(p, op, mask) ==
    /\ op \in env.ops /\ Exists(p)
    /\ file' = [file EXCEPT ![p] = NoFile]
    /\ open' = [open EXCEPT ![p] = FALSE]
    /\ Report([mask |-> mask, path |-> p], {p})
    /\ UNCHANGED clock

DeleteFile(p) == Vanish(p, "delete", "delete")
MoveOut(p)    == Vanish(p, "moveout", "moved_from")

MoveIn(p) ==
    /\ "movein" \in env.ops /\ clock < MaxClock
    /\ file' = [file EXCEPT ![p] = Version(clock + 1, clock + 1)]
    /\ open' = [open EXCEPT ![p] = FALSE]
    /\ clock' = clock + 1
    /\ Report([mask |-> "moved_to", path |-> p, paired |-> FALSE], {p})

\* rename(p, q) replaces q and keeps the modification time; the kernel queues the two
\* halves back to back.  A version moves once, and so never comes back to a name it had.
RenameFile(p, q) ==
    LET from == [mask |-> "moved_from", path |-> p]
        to == [mask |-> "moved_to", path |-> q, paired |-> TRUE]
    IN  /\ "rename" \in env.ops /\ p # q /\ Exists(p) /\ ~file[p].moved
        /\ file' = [file EXCEPT ![p] = NoFile, ![q] = [file[p] EXCEPT !.moved = TRUE]]
        /\ open' = [open EXCEPT ![p] = FALSE, ![q] = open[p]]
        /\ IF Watching
           THEN /\ kq' = Queued(Queued(kq, from), to)
                /\ lost' = IF Dropped(kq, from) \/ Dropped(Queued(kq, from), to)
                           THEN lost \cup {p, q} ELSE lost
                /\ UNCHANGED missed
           ELSE missed' = missed \cup {p, q} /\ UNCHANGED <<kq, lost>>
        /\ UNCHANGED clock

\* A hard link: a new name, and IN_CREATE, of which the watcher makes nothing, is all the
\* kernel says about it.  Neither name is written again, so that the two need not share
\* their bytes.
LinkFile(p, q) ==
    LET linked == [file[p] EXCEPT !.moved = TRUE]
    IN  /\ "link" \in env.ops /\ Exists(p) /\ ~open[p] /\ ~file[p].moved /\ ~Exists(q)
        /\ file' = [file EXCEPT ![p] = linked, ![q] = linked]
        /\ kq' = IF Watching THEN Queued(kq, [mask |-> "create", path |-> q]) ELSE kq
        /\ missed' = missed \cup {q} /\ lost' = lost \cup {q}
        /\ UNCHANGED <<open, clock>>

FileSystem ==
    /\ \/ \E p \in env.names :
            WriteFile(p) \/ CloseFile(p) \/ DeleteFile(p) \/ MoveOut(p) \/ MoveIn(p)
       \/ \E p, q \in env.names : RenameFile(p, q) \/ LinkFile(p, q)
    /\ UNCHANGED <<env, watchVars, flagVars, workVars, row, saved, torn>>

-----------------------------------------------------------------------------
(***************************************************************************)
(* The watcher thread.                                                     *)
(***************************************************************************)

Index(p) == [kind |-> "Index", path |-> p]
Remove(p) == [kind |-> "Remove", path |-> p]

\* The daemon starts the worker first and adds the watch afterwards.
StartWatch ==
    /\ Running /\ wpc = "off"
    /\ wpc' = "poll"
    /\ UNCHANGED <<fsVars, kq, pending, flagVars, workVars, row, saved, history>>

\* Only runtime excludes are modelled: none of the configured ones is ever in the directory.
IsExcluded(p) == p \in excluded

\* What one event makes drain_events do: the work it queues, and its unpaired moves.
Front(s) == SubSeq(s, 1, Len(s) - 1)
Paired(e) == e.mask = "moved_to" /\ e.paired /\ pending # <<>>
Skipped(e) == IsExcluded(e.path) /\ e.mask \notin {"delete", "moved_from"}
ItemsOf(e) ==
    CASE e.mask = "close_write" -> <<Index(e.path)>>
      [] e.mask = "moved_to" ->
            (IF Paired(e) THEN <<Remove(Last(pending))>> ELSE <<>>) \o <<Index(e.path)>>
      [] e.mask = "delete" -> <<Remove(e.path)>>
      [] e.mask \in {"create", "moved_from"} -> <<>>
PendingAfter(e) ==
    CASE e.mask = "moved_from" -> Append(pending, e.path)
      [] Paired(e) -> Front(pending)
      [] e.mask # "moved_from" /\ ~Paired(e) -> pending
\* The path a move is pending of, whose removal will be queued behind this work.
Overtaken(e) ==
    {p \in {e.path} : e.mask \in {"close_write", "moved_to"}
                      /\ \E i \in DOMAIN PendingAfter(e) : PendingAfter(e)[i] = p}

DrainEvent ==
    /\ wpc \in {"poll", "drain"} /\ kq # <<>>
    /\ wpc' = "drain"
    /\ kq' = Tail(kq)
    /\ LET e == Head(kq) IN
        IF e = Overflow
        THEN reconcile' = TRUE /\ UNCHANGED <<pending, queue, lost>>
        ELSE IF Skipped(e) THEN UNCHANGED <<pending, queue, reconcile, lost>>
        ELSE /\ Len(queue) + Len(ItemsOf(e)) <= MaxQueue
             /\ queue' = queue \o ItemsOf(e)
             /\ pending' = PendingAfter(e)
             /\ lost' = lost \cup Overtaken(e)
             /\ UNCHANGED reconcile
    /\ UNCHANGED <<fsVars, reindex, excluded, workVars, row, saved, missed, torn>>

\* read() says EAGAIN: what is left in `pending' is taken for a move out of the tree.
DrainEnd ==
    /\ wpc = "drain" /\ kq = <<>>
    /\ wpc' = IF pending = <<>> THEN "poll" ELSE "flush"
    /\ UNCHANGED <<fsVars, kq, pending, flagVars, workVars, row, saved, history>>

FlushPending ==
    /\ wpc = "flush" /\ Len(queue) < MaxQueue
    /\ queue' = Append(queue, Remove(Head(pending)))
    /\ pending' = Tail(pending)
    /\ wpc' = IF Tail(pending) = <<>> THEN "poll" ELSE "flush"
    /\ UNCHANGED <<fsVars, kq, reconcile, reindex, excluded, workVars, row, saved, history>>

Watcher == StartWatch \/ DrainEvent \/ DrainEnd \/ FlushPending

-----------------------------------------------------------------------------
(***************************************************************************)
(* The control channel.                                                    *)
(***************************************************************************)

RequestReconcile ==
    /\ "reconcile" \in env.ops /\ Running /\ ~reconcile
    /\ reconcile' = TRUE
    /\ UNCHANGED <<queue, reindex, excluded>>

RequestReindex ==
    /\ "reindex" \in env.ops /\ Running /\ ~reindex
    /\ reindex' = TRUE
    /\ UNCHANGED <<queue, reconcile, excluded>>

\* A bug: no pass is requested.
AddRuntimeExcludeSilently(p) ==
    /\ "exclude" \in env.ops /\ Running /\ p \notin excluded
    /\ excluded' = excluded \cup {p}
    /\ UNCHANGED <<queue, reconcile, reindex>>
AddRuntimeExclude(p) ==
    /\ "exclude" \in env.ops /\ Running /\ p \notin excluded
    /\ excluded' = excluded \cup {p}
    /\ reconcile' = TRUE
    /\ UNCHANGED <<queue, reindex>>

Control ==
    /\ RequestReconcile \/ RequestReindex \/ \E p \in env.names : AddRuntimeExclude(p)
    /\ UNCHANGED <<fsVars, kq, watchVars, workVars, row, saved, history>>

-----------------------------------------------------------------------------
(***************************************************************************)
(* The worker thread: Indexer::run_loop and what it calls.                 *)
(***************************************************************************)

Indexed == {p \in Paths : row[p] # NoRow}
OverCap == env.cap > 0 /\ Cardinality(Indexed) > env.cap

Start ==
    /\ pc = "down"
    /\ pc' = "boot"
    /\ UNCHANGED <<task, todo, gone, batch, seen, since, capped,
                   flagVars, row, saved, missed>>

IntervalNeverDue == FALSE      \* a bug: the wait has no deadline
IntervalDue == env.periodic

\* A full pass: at start-up, on a request, or when the interval has elapsed.
BeginPass ==
    /\ pc = "boot" \/ (pc = "idle" /\ (reindex \/ reconcile \/ IntervalDue))
    /\ reindex' = FALSE
    /\ reconcile' = (reconcile /\ (reindex \/ pc = "boot"))
    /\ pc' = IF reindex THEN "clear" ELSE "begin"
    /\ UNCHANGED <<queue, excluded, task, todo, gone, batch, seen, since, capped,
                   row, saved, missed>>

\* Store::clear is three statements, each committed by itself; none fails here (ContentStore
\* has a clear of which some do).
ClearDocs ==
    /\ pc = "clear"
    /\ row' = [p \in Paths |-> [row[p] EXCEPT !.body = NoBody]]
    /\ saved' = row'
    /\ pc' = "dropped"
    /\ UNCHANGED <<task, todo, gone, batch, seen, since, capped, flagVars, missed>>

ClearFiles ==
    /\ pc = "dropped"
    /\ row' = [p \in Paths |-> NoRow]
    /\ saved' = row'
    /\ pc' = "begin"
    /\ UNCHANGED <<task, todo, gone, batch, seen, since, capped, flagVars, missed>>

\* Over the cap there is no walk, and deletions are reconciled all the same.
AfterCap == "scan"

\* The walk lists the directory as it is now.
CrawlBegin ==
    /\ pc = "begin"
    /\ capped' = OverCap
    /\ since' = 0
    /\ IF OverCap
       THEN pc' = AfterCap /\ todo' = Indexed /\ UNCHANGED <<task, missed>>
       ELSE pc' = "crawl" /\ task' = "crawl" /\ todo' = {p \in Paths : Exists(p)} /\ missed' = {}
    /\ UNCHANGED <<gone, batch, seen, flagVars, row, saved>>

CrawlFile(p) ==
    /\ pc = "crawl" /\ p \in todo
    /\ todo' = todo \ {p}
    /\ IF IsExcluded(p) THEN UNCHANGED <<pc, batch>>
       ELSE pc' = "stat" /\ batch' = <<Index(p)>>
    /\ UNCHANGED <<task, gone, seen, since, capped, flagVars, row, saved, missed>>

CrawlEnd ==
    /\ pc = "crawl" /\ todo = {}
    /\ saved' = row
    /\ pc' = "scan" /\ task' = "batch" /\ since' = 0 /\ todo' = Indexed
    /\ UNCHANGED <<gone, batch, seen, capped, flagVars, row, missed>>

BatchFull == since + 1 >= Batch

\* index_file returns, leaving the index at r.
cur == Head(batch).path
Return(r) ==
    /\ row' = r
    /\ seen' = NoSeen
    /\ batch' = Tail(batch)
    /\ IF task = "batch"
       THEN pc' = "batch" /\ UNCHANGED <<task, todo, since, capped, saved, missed>>
       ELSE IF ~BatchFull
       THEN pc' = "crawl" /\ since' = since + 1 /\ UNCHANGED <<task, todo, capped, saved, missed>>
       ELSE /\ saved' = r
            /\ since' = 0
            /\ IF env.cap > 0 /\ Cardinality({p \in Paths : r[p] # NoRow}) > env.cap
               THEN /\ capped' = TRUE /\ pc' = "scan" /\ task' = "batch"
                    /\ todo' = {p \in Paths : r[p] # NoRow}
                    /\ missed' = missed \cup todo
               ELSE pc' = "crawl" /\ UNCHANGED <<task, todo, capped, missed>>
    /\ UNCHANGED <<gone, flagVars>>

Removed == [row EXCEPT ![cur] = NoRow]
Touched == [row EXCEPT ![cur].mtime = seen.mtime, ![cur].state = "Indexed"]
Unchanged(r, f) == r.state = "Indexed" /\ r.mtime = f.mtime
SameHash(r, h) == r.hash # NoHash /\ r.hash = h

StatFile ==
    /\ pc = "stat"
    /\ IF ~Exists(cur) \/ IsExcluded(cur) THEN Return(Removed)
       ELSE IF Unchanged(row[cur], file[cur]) THEN Return(row)
       ELSE /\ seen' = [mtime |-> file[cur].mtime, hash |-> NoHash]
            /\ pc' = "hash"
            /\ UNCHANGED <<task, todo, gone, batch, since, capped, flagVars, row, saved, missed>>

HashFile ==
    /\ pc = "hash"
    /\ LET h == file[cur].data IN      \* NoHash when the file is gone
        IF SameHash(row[cur], h) THEN Return(Touched)
        ELSE /\ seen' = [seen EXCEPT !.hash = h]
             /\ pc' = "extract"
             /\ UNCHANGED <<task, todo, gone, batch, since, capped, flagVars, row, saved, missed>>

\* The extractor reads the file anew; a failure keeps the metadata alone.
Record(m, ok) == [mtime |-> m, hash |-> seen.hash,
                  body |-> IF ok THEN file[cur].data ELSE NoBody,
                  state |-> IF ok THEN "Indexed" ELSE "Error"]
PutRestat(ok) == [row EXCEPT ![cur] = Record(file[cur].mtime, ok)]    \* a bug: stat again
Put(ok) == [row EXCEPT ![cur] = Record(seen.mtime, ok)]
ExtractFile ==
    /\ pc = "extract"
    /\ \/ Exists(cur) /\ Return(Put(TRUE))
       \/ (~Exists(cur) \/ "exterror" \in env.ops) /\ Return(Put(FALSE))

\* reconcile_deletions: stat every row, then drop the ones found without a file.
ScanRow(p) ==
    /\ pc = "scan" /\ p \in todo
    /\ todo' = todo \ {p}
    /\ gone' = IF ~Exists(p) \/ IsExcluded(p) THEN gone \cup {p} ELSE gone
    /\ UNCHANGED <<pc, task, batch, seen, since, capped, flagVars, row, saved, missed>>

PurgeGone ==
    /\ pc = "scan" /\ todo = {}
    /\ row' = [p \in Paths |-> IF p \in gone THEN NoRow ELSE row[p]]
    /\ saved' = row'
    /\ gone' = {}
    /\ pc' = "idle"
    /\ UNCHANGED <<task, todo, batch, seen, since, capped, flagVars, missed>>

TakeBatch ==
    /\ pc = "idle" /\ ~reindex /\ ~reconcile /\ queue # <<>>
    /\ LET n == IF Len(queue) < Batch THEN Len(queue) ELSE Batch IN
        /\ batch' = SubSeq(queue, 1, n)
        /\ queue' = SubSeq(queue, n + 1, Len(queue))
    /\ pc' = "batch"
    /\ UNCHANGED <<reconcile, reindex, excluded, task, todo, gone, seen, since, capped,
                   row, saved, missed>>

BatchItem ==
    /\ pc = "batch" /\ batch # <<>>
    /\ IF Head(batch).kind = "Remove"
       THEN row' = Removed /\ batch' = Tail(batch) /\ UNCHANGED pc
       ELSE pc' = "stat" /\ UNCHANGED <<row, batch>>
    /\ UNCHANGED <<task, todo, gone, seen, since, capped, flagVars, saved, missed>>

BatchEnd ==
    /\ pc = "batch" /\ batch = <<>>
    /\ saved' = row
    /\ pc' = "idle"
    /\ UNCHANGED <<task, todo, gone, batch, seen, since, capped, flagVars, row, missed>>

Worker ==
    /\ \/ Start \/ BeginPass \/ ClearDocs \/ ClearFiles \/ CrawlBegin \/ CrawlEnd
       \/ \E p \in Paths : CrawlFile(p) \/ ScanRow(p)
       \/ StatFile \/ HashFile \/ ExtractFile \/ PurgeGone
       \/ TakeBatch \/ BatchItem \/ BatchEnd
    /\ torn' = (torn /\ pc # "dropped")      \* a clear that ends mends one cut short
    /\ UNCHANGED <<fsVars, kq, watchVars, lost>>

\* The daemon dies; the open transaction is lost, or a clean stop commits it.  Every
\* in-memory structure goes, the runtime excludes included.
Stop(r) ==
    /\ "crash" \in env.ops /\ Running
    /\ row' = r /\ saved' = r
    /\ pc' = "down" /\ wpc' = "off" /\ kq' = <<>> /\ pending' = <<>>
    /\ queue' = <<>> /\ reconcile' = FALSE /\ reindex' = FALSE
    /\ excluded' = {} /\ capped' = FALSE
    /\ task' = "batch" /\ todo' = {} /\ gone' = {} /\ batch' = <<>>
    /\ seen' = NoSeen /\ since' = 0
    /\ missed' = Paths /\ lost' = {} /\ torn' = (torn \/ pc = "dropped")
    /\ UNCHANGED fsVars
Crash == Stop(saved) \/ Stop(row)

Next == FileSystem \/ Watcher \/ Control \/ Worker \/ Crash

Spec == Init /\ [][Next]_vars

\* The two threads keep running.  A pass resets the deadline of the next one, so between
\* two passes the queue is served: strong fairness for TakeBatch.
FairSpec == Spec /\ WF_vars(Watcher) /\ WF_vars(Worker) /\ SF_vars(TakeBatch /\ Worker)

-----------------------------------------------------------------------------
(***************************************************************************)
(* Properties.                                                             *)
(***************************************************************************)

\* Nothing is under way that could still change the index.
Quiet ==
    /\ pc = "idle" /\ wpc = "poll" /\ kq = <<>>
    /\ queue = <<>> /\ ~reconcile /\ ~reindex
    /\ \A p \in Paths : ~open[p]

Indexable(p) == Exists(p) /\ ~IsExcluded(p)
Sound(p) == row[p] # NoRow =>
    /\ Indexable(p)
    /\ row[p].mtime = file[p].mtime
    /\ row[p].hash \in {NoHash, file[p].data}
    /\ row[p].body \in {NoBody, file[p].data}
Complete(p) == Indexable(p) => row[p] # NoRow

Searchable(p) == row[p].state = "Indexed" => row[p].body = file[p].data

\* What no event and no walk is sure to have told the indexer: changes made unseen since the
\* last walk, and, as an index at its cap is not walked, those of which an event was dropped.
Untold == missed \cup (IF env.cap > 0 THEN lost ELSE {})

\* Once everything has settled the index describes the files that are there (FR1, FR3, FR4
\* of docs/CONTENT_SEARCH.md), save what it was not told of: no crash, overflow, rebuild or
\* pass running alongside the changes leaves a row of a file that is gone, excluded or has
\* changed since; every indexable file has a row, if no event of it was dropped or overtaken
\* (one moved out of the tree and made anew within one drain is indexed and then removed,
\* see FlushPending); and, where the extractor does not fail and no clear was cut short, a row
\* marked Indexed is found by the text its file holds.
QuietExact == Quiet =>
    /\ \A p \in Paths \ Untold : Sound(p)
    /\ \A p \in Paths \ (missed \cup lost) : Complete(p)
    /\ "exterror" \notin env.ops /\ ~torn => \A p \in Paths \ Untold : Searchable(p)

\* A path excluded at run time stays in the index only while a pass that will drop it is
\* requested or running (FR8; indexer.cpp add_runtime_exclude).
ExcludedGoes == \A p \in excluded : row[p] # NoRow =>
    reconcile \/ task = "crawl" \/ pc \in {"boot", "clear", "dropped", "begin", "scan"}

\* With the periodic pass on, whatever was missed, dropped or applied out of order, the
\* index ends up describing the files as they are once they stop changing (section 4.5); at
\* the size cap rows of files that are gone are reclaimed all the same (indexer.cpp:253).
EventuallyFresh ==
    /\ env.cap = 0 => <>[](\A p \in Paths : Sound(p) /\ Complete(p))
    /\ <>[](\A p \in Paths : row[p] # NoRow => Indexable(p))

\* What store.cpp:826 says: every live row gets a doc.
LiveRowHasDoc == Quiet => \A p \in Paths : row[p].state = "Indexed" => row[p].body # NoBody
=============================================================================
