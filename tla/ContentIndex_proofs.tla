------------------------ MODULE ContentIndex_proofs ------------------------
(***************************************************************************)
(* Proofs about ContentIndex: its state keeps its type; a path that is     *)
(* excluded at run time leaves the index; and once everything has settled  *)
(* the index describes the files that are there.                           *)
(***************************************************************************)
EXTENDS ContentIndex, FiniteSetTheorems, SequenceTheorems, TLAPS

\* What the program counters say about the sequences they are about to read.
Shape ==
    /\ wpc = "flush" => pending # <<>>
    /\ pc \in {"stat", "hash", "extract"} => batch # <<>>

TypeInv == TypeOK /\ Shape

\* The kernel's queue keeps its type: merging and overflowing included.
LEMMA QueuedType ==
    ASSUME NEW q \in Seq(Events), NEW e \in Events
    PROVE  Queued(q, e) \in Seq(Events)
<1>1. Overflow \in Events BY DEF Overflow, Events
<1>2. QED BY <1>1 DEF Queued

\* What Report leaves unconstrained it leaves unchanged.
LEMMA ReportType ==
    ASSUME TypeOK, NEW e \in Events, NEW ps \in SUBSET Paths, Report(e, ps)
    PROVE  /\ kq' \in Seq(Events) /\ lost' \subseteq Paths /\ missed' \subseteq Paths
BY QueuedType DEF Report, TypeOK

\* The names programs use are paths of the directory.
LEMMA NamesType == ASSUME TypeOK PROVE env.names \subseteq Paths
BY ContentIndexAssumption DEF TypeOK

\* A version has the type of a file.
LEMMA VersionType ==
    ASSUME NEW m \in 0..MaxClock, NEW d \in 0..MaxClock
    PROVE  Version(m, d) \in Files
BY DEF Version, Files

\* The absent file has the type of a file.
LEMMA NoFileType == NoFile \in Files
BY ContentIndexAssumption DEF NoFile, Files

\* The absent row has the type of a row.
LEMMA NoRowType == NoRow \in Rows
BY ContentIndexAssumption DEF NoRow, Rows

\* Every initial state has the type.
LEMMA InitType == Init => TypeInv
<1> SUFFICES ASSUME Init PROVE TypeInv
    OBVIOUS
<1> USE ContentIndexAssumption DEF Init
<1>1. /\ file \in [Paths -> Files] /\ open \in [Paths -> BOOLEAN] /\ clock \in 0..MaxClock
      /\ row \in [Paths -> Rows] /\ saved \in [Paths -> Rows]
    BY NoFileType, NoRowType
<1>2. /\ kq \in Seq(Events) /\ pending \in Seq(Paths) /\ queue \in Seq(Items)
      /\ batch \in Seq(Items)
    OBVIOUS
<1>3. seen \in [mtime : 0..MaxClock, hash : 0..MaxClock] /\ since \in 0..(Batch - 1)
    BY DEF NoSeen, NoHash
<1>4. QED BY <1>1, <1>2, <1>3 DEF TypeInv, TypeOK, Shape

\* A step of the file system keeps the type.
LEMMA FileSystemType == TypeInv /\ FileSystem => TypeInv'
<1> SUFFICES ASSUME TypeInv, FileSystem PROVE TypeInv'
    OBVIOUS
<1> USE DEF TypeInv
<1>1. UNCHANGED <<env, watchVars, flagVars, workVars, row, saved, torn>>
    BY DEF FileSystem
<1>2. /\ file' \in [Paths -> Files] /\ open' \in [Paths -> BOOLEAN] /\ clock' \in 0..MaxClock
      /\ kq' \in Seq(Events) /\ lost' \subseteq Paths /\ missed' \subseteq Paths
    <2> USE ContentIndexAssumption, NoFileType
    <2>1. ASSUME NEW p \in Paths, WriteFile(p) PROVE <1>2
        <3>1. [mask |-> "create", path |-> p] \in Events
            BY DEF Events
        <3>2. /\ kq' \in Seq(Events) /\ lost' \subseteq Paths /\ missed' \subseteq Paths
            BY <2>1, <3>1, ReportType DEF WriteFile, TypeOK
        <3>3. PICK v \in Versions(p) : file' = [file EXCEPT ![p] = v]
            BY <2>1 DEF WriteFile
        <3>4. clock' = clock + 1 /\ clock + 1 \in 0..MaxClock
            BY <2>1 DEF WriteFile, TypeOK
        <3>5. v \in Files
            <4>1. CASE v = Version(clock + 1, clock + 1)
                BY <3>4, <4>1, VersionType
            <4>2. CASE v = [file[p] EXCEPT !.mtime = clock + 1]
                BY <3>4, <4>2 DEF TypeOK, Files
            <4>3. QED BY <3>3, <4>1, <4>2 DEF Versions
        <3>6. QED BY <2>1, <3>2, <3>3, <3>4, <3>5 DEF WriteFile, TypeOK
    <2>2. ASSUME NEW p \in Paths, CloseFile(p) PROVE <1>2
        <3>1. [mask |-> "close_write", path |-> p] \in Events
            BY DEF Events
        <3>2. QED BY <2>2, <3>1, ReportType DEF CloseFile, TypeOK
    <2>3. ASSUME NEW p \in Paths, DeleteFile(p) \/ MoveOut(p) PROVE <1>2
        <3>1. /\ [mask |-> "delete", path |-> p] \in Events
              /\ [mask |-> "moved_from", path |-> p] \in Events
            BY DEF Events
        <3>2. /\ file' = [file EXCEPT ![p] = NoFile] /\ open' = [open EXCEPT ![p] = FALSE]
              /\ clock' = clock
            BY <2>3 DEF DeleteFile, MoveOut, Vanish
        <3>3. \/ Report([mask |-> "delete", path |-> p], {p})
              \/ Report([mask |-> "moved_from", path |-> p], {p})
            BY <2>3 DEF DeleteFile, MoveOut, Vanish
        <3>4. /\ kq' \in Seq(Events) /\ lost' \subseteq Paths /\ missed' \subseteq Paths
            BY <3>1, <3>3, ReportType
        <3>5. QED BY <3>2, <3>4 DEF TypeOK
    <2>4. ASSUME NEW p \in Paths, MoveIn(p) PROVE <1>2
        <3>1. [mask |-> "moved_to", path |-> p, paired |-> FALSE] \in Events
            BY DEF Events
        <3>2. clock + 1 \in 0..MaxClock /\ clock' = clock + 1
            BY <2>4 DEF MoveIn, TypeOK
        <3>3. Version(clock + 1, clock + 1) \in Files
            BY <3>2, VersionType
        <3>4. /\ kq' \in Seq(Events) /\ lost' \subseteq Paths /\ missed' \subseteq Paths
            BY <2>4, <3>1, ReportType DEF MoveIn
        <3>5. /\ file' = [file EXCEPT ![p] = Version(clock + 1, clock + 1)]
              /\ open' = [open EXCEPT ![p] = FALSE]
            BY <2>4 DEF MoveIn
        <3>6. file' \in [Paths -> Files] /\ open' \in [Paths -> BOOLEAN]
            BY <3>3, <3>5 DEF TypeOK
        <3>7. clock' \in 0..MaxClock
            BY <3>2
        <3>8. QED BY <3>4, <3>6, <3>7
    <2>5. ASSUME NEW p \in Paths, NEW q \in Paths, RenameFile(p, q) PROVE <1>2
        <3>1. /\ [mask |-> "moved_from", path |-> p] \in Events
              /\ [mask |-> "moved_to", path |-> q, paired |-> TRUE] \in Events
            BY DEF Events
        <3>2. [file[p] EXCEPT !.moved = TRUE] \in Files
            BY DEF TypeOK, Files
        <3>3. file' \in [Paths -> Files] /\ open' \in [Paths -> BOOLEAN] /\ clock' \in 0..MaxClock
            BY <2>5, <3>2 DEF RenameFile, TypeOK
        <3>4. /\ kq' \in Seq(Events) /\ lost' \subseteq Paths /\ missed' \subseteq Paths
            <4>1. kq \in Seq(Events) /\ lost \subseteq Paths /\ missed \subseteq Paths
                BY DEF TypeOK
            <4>2. Queued(kq, [mask |-> "moved_from", path |-> p]) \in Seq(Events)
                BY <3>1, <4>1, QueuedType
            <4>3. Queued(Queued(kq, [mask |-> "moved_from", path |-> p]),
                         [mask |-> "moved_to", path |-> q, paired |-> TRUE]) \in Seq(Events)
                BY <3>1, <4>2, QueuedType
            <4>4. QED BY <2>5, <4>1, <4>3 DEF RenameFile
        <3>5. QED BY <3>3, <3>4
    <2>6. ASSUME NEW p \in Paths, NEW q \in Paths, LinkFile(p, q) PROVE <1>2
        <3>1. [mask |-> "create", path |-> q] \in Events
            BY DEF Events
        <3>2. [file[p] EXCEPT !.moved = TRUE] \in Files
            BY DEF TypeOK, Files
        <3>3. file' \in [Paths -> Files] /\ open' \in [Paths -> BOOLEAN] /\ clock' \in 0..MaxClock
            BY <2>6, <3>2 DEF LinkFile, TypeOK
        <3>4. /\ kq' \in Seq(Events) /\ lost' \subseteq Paths /\ missed' \subseteq Paths
            BY <2>6, <3>1, QueuedType DEF LinkFile, TypeOK
        <3>5. QED BY <3>3, <3>4
    <2>7. env.names \subseteq Paths
        BY NamesType
    <2>8. QED BY <2>1, <2>2, <2>3, <2>4, <2>5, <2>6, <2>7 DEF FileSystem
<1>3. QED BY <1>1, <1>2 DEF TypeOK, Shape, watchVars, flagVars, workVars

\* The work one event makes has the type of work.
LEMMA ItemsType ==
    ASSUME TypeOK, NEW e \in Events, e # Overflow
    PROVE  ItemsOf(e) \in Seq(Items) /\ PendingAfter(e) \in Seq(Paths)
<1>1. \A p \in Paths : Index(p) \in Items /\ Remove(p) \in Items
    BY DEF Index, Remove, Items
<1>2. e.path \in Paths /\ e.mask \in {"create", "close_write", "moved_from", "delete", "moved_to"}
    BY DEF Events, Overflow
<1>3. Paired(e) => Last(pending) \in Paths /\ Front(pending) \in Seq(Paths)
    BY DEF Paired, Last, Front, TypeOK
<1>4. ItemsOf(e) \in Seq(Items)
    BY <1>1, <1>2, <1>3 DEF ItemsOf
<1>5. PendingAfter(e) \in Seq(Paths)
    BY <1>2, <1>3 DEF PendingAfter, TypeOK
<1>6. QED BY <1>4, <1>5

\* A step of the watcher keeps the type.
LEMMA WatcherType == TypeInv /\ Watcher => TypeInv'
<1> SUFFICES ASSUME TypeInv, Watcher PROVE TypeInv'
    OBVIOUS
<1> USE DEF TypeInv
<1>1. CASE StartWatch
    BY <1>1 DEF StartWatch, TypeOK, Shape, fsVars, flagVars, workVars, history
<1>2. CASE DrainEvent
    <2>1. Head(kq) \in Events /\ kq' \in Seq(Events)
        BY <1>2 DEF DrainEvent, TypeOK
    <2>2. /\ queue' \in Seq(Items) /\ pending' \in Seq(Paths) /\ reconcile' \in BOOLEAN
        <3>1. CASE Head(kq) = Overflow
            BY <1>2, <3>1 DEF DrainEvent, TypeOK
        <3>2. CASE Head(kq) # Overflow /\ Skipped(Head(kq))
            BY <1>2, <3>2 DEF DrainEvent, TypeOK
        <3>3. CASE Head(kq) # Overflow /\ ~Skipped(Head(kq))
            <4>1. ItemsOf(Head(kq)) \in Seq(Items) /\ PendingAfter(Head(kq)) \in Seq(Paths)
                BY <2>1, <3>3, ItemsType
            <4>2. /\ queue' = queue \o ItemsOf(Head(kq)) /\ pending' = PendingAfter(Head(kq))
                  /\ reconcile' = reconcile
                BY <1>2, <3>3 DEF DrainEvent
            <4>3. QED BY <4>1, <4>2 DEF TypeOK
        <3>4. QED BY <3>1, <3>2, <3>3
    <2>3. lost' \subseteq Paths
        BY <1>2, <2>1 DEF DrainEvent, TypeOK, Overtaken, Skipped, Events, Overflow
    <2>4. QED BY <1>2, <2>1, <2>2, <2>3 DEF DrainEvent, TypeOK, Shape, fsVars, workVars
<1>3. CASE DrainEnd
    BY <1>3 DEF DrainEnd, TypeOK, Shape, fsVars, flagVars, workVars, history
<1>4. CASE FlushPending
    <2>1. pending # <<>> /\ Head(pending) \in Paths /\ Tail(pending) \in Seq(Paths)
        BY <1>4 DEF FlushPending, TypeOK, Shape
    <2>2. Append(queue, Remove(Head(pending))) \in Seq(Items)
        <3>1. Remove(Head(pending)) \in Items
            BY <2>1 DEF Remove, Items
        <3>2. queue \in Seq(Items)
            BY DEF TypeOK
        <3>3. QED BY <3>1, <3>2
    <2>3. wpc' = "flush" => Tail(pending) # <<>>
        BY <1>4, <2>1 DEF FlushPending, TypeOK
    <2>4. QED BY <1>4, <2>1, <2>2, <2>3, SMTT(30)
             DEF FlushPending, TypeOK, Shape, fsVars, workVars, history
<1>5. QED BY <1>1, <1>2, <1>3, <1>4 DEF Watcher

\* A request of the control channel keeps the type.
LEMMA ControlType == TypeInv /\ Control => TypeInv'
<1> SUFFICES ASSUME TypeInv, Control PROVE TypeInv'
    OBVIOUS
<1>1. UNCHANGED <<fsVars, kq, watchVars, workVars, row, saved, history>>
    BY DEF Control
<1>2. /\ queue' \in Seq(Items) /\ excluded' \subseteq Paths
    BY NamesType DEF TypeInv, TypeOK, Control, RequestReconcile, RequestReindex, AddRuntimeExclude
<1>3. reconcile' \in BOOLEAN /\ reindex' \in BOOLEAN
    BY Zenon DEF TypeInv, TypeOK, Control, RequestReconcile, RequestReindex, AddRuntimeExclude
<1>4. QED BY <1>1, <1>2, <1>3
         DEF TypeInv, TypeOK, Shape, fsVars, watchVars, workVars, history

\* What index_file leaves behind keeps the type.
LEMMA ReturnType ==
    ASSUME TypeInv, NEW r \in [Paths -> Rows], Return(r),
           pc \in {"stat", "hash", "extract"}, UNCHANGED <<fsVars, kq, watchVars, lost>>,
           torn' \in BOOLEAN
    PROVE  TypeInv'
<1> USE DEF TypeInv
<1>1. batch' \in Seq(Items)
    BY DEF Return, TypeOK, Shape
<1>2. /\ row' \in [Paths -> Rows] /\ saved' \in [Paths -> Rows] /\ todo' \subseteq Paths
      /\ missed' \subseteq Paths /\ pc' \in {"crawl", "batch", "scan"}
      /\ task' \in {"crawl", "batch"}
    BY DEF Return, TypeOK
<1>3. seen' \in [mtime : 0..MaxClock, hash : 0..MaxClock]
    BY ContentIndexAssumption DEF Return, NoSeen, NoHash
<1>4. since' \in 0..(Batch - 1)
    BY ContentIndexAssumption DEF Return, TypeOK, BatchFull
<1>5. capped' \in BOOLEAN
    BY Zenon DEF Return, TypeOK
<1>6. QED BY <1>1, <1>2, <1>3, <1>4, <1>5
         DEF Return, TypeOK, Shape, fsVars, watchVars, flagVars

\* The path index_file works on is a path, and the rows it may write are rows.
LEMMA CurType ==
    ASSUME TypeInv, pc \in {"stat", "hash", "extract"}
    PROVE  /\ cur \in Paths
           /\ Removed \in [Paths -> Rows] /\ Touched \in [Paths -> Rows]
           /\ \A ok \in BOOLEAN : Put(ok) \in [Paths -> Rows]
<1> USE DEF TypeInv
<1>1. cur \in Paths
    <2>1. Head(batch) \in Items
        BY DEF TypeOK, Shape
    <2>2. QED BY <2>1 DEF cur, Items
<1>2. Removed \in [Paths -> Rows]
    BY <1>1, NoRowType DEF Removed, TypeOK
<1>3. Touched \in [Paths -> Rows]
    <2>1. row \in [Paths -> Rows]
        BY DEF TypeOK
    <2>2. [row[cur] EXCEPT !.mtime = seen.mtime, !.state = "Indexed"] \in Rows
        BY <1>1, <2>1 DEF TypeOK, Rows
    <2>3. QED BY <1>1, <2>1, <2>2 DEF Touched
<1>4. ASSUME NEW ok \in BOOLEAN PROVE Put(ok) \in [Paths -> Rows]
    <2>1. Record(seen.mtime, ok) \in Rows
        BY <1>1, ContentIndexAssumption DEF Record, TypeOK, Rows, Files, NoBody
    <2>2. QED BY <1>1, <2>1 DEF Put, TypeOK
<1>5. QED BY <1>1, <1>2, <1>3, <1>4

\* A step of the worker keeps the type.
LEMMA WorkerType == TypeInv /\ Worker => TypeInv'
<1> SUFFICES ASSUME TypeInv, Worker PROVE TypeInv'
    OBVIOUS
<1> USE DEF TypeInv, flagVars
<1>0. UNCHANGED <<fsVars, kq, watchVars, lost>> /\ torn' = (torn /\ pc # "dropped")
    BY DEF Worker
<1>a. /\ UNCHANGED <<env, file, open, clock, kq, wpc, pending, lost>> /\ torn' \in BOOLEAN
    BY <1>0, Zenon DEF fsVars, watchVars
<1>1. CASE Start
    BY <1>1, <1>a DEF Start, TypeOK, Shape
<1>2. CASE BeginPass
    <2>1. reconcile' \in BOOLEAN /\ reindex' \in BOOLEAN
        BY <1>2, Zenon DEF BeginPass
    <2>2. QED BY <1>2, <1>a, <2>1 DEF BeginPass, TypeOK, Shape
<1>3. CASE ClearDocs
    <2>1. ASSUME NEW p \in Paths PROVE [row[p] EXCEPT !.body = NoBody] \in Rows
        <3>1. NoBody \in 0..MaxClock /\ row[p] \in Rows
            BY ContentIndexAssumption DEF TypeOK, NoBody
        <3>2. QED BY <3>1 DEF Rows
    <2>2. QED BY <1>3, <1>a, <2>1 DEF ClearDocs, TypeOK, Shape
<1>4. CASE ClearFiles
    BY <1>4, <1>a, NoRowType DEF ClearFiles, TypeOK, Shape
<1>5. CASE CrawlBegin
    <2>1. capped' \in BOOLEAN
        BY <1>5, Zenon DEF CrawlBegin, OverCap
    <2>2. QED BY <1>5, <1>a, <2>1, ContentIndexAssumption
             DEF CrawlBegin, TypeOK, Shape, Indexed, AfterCap
<1>6. CASE \E p \in Paths : CrawlFile(p)
    <2>1. PICK p \in Paths : CrawlFile(p)
        BY <1>6
    <2>2. <<Index(p)>> \in Seq(Items) /\ <<Index(p)>> # <<>>
        BY DEF Index, Items
    <2>3. QED BY <2>1, <2>2, <1>a DEF CrawlFile, TypeOK, Shape
<1>7. CASE CrawlEnd
    BY <1>7, <1>a, ContentIndexAssumption DEF CrawlEnd, TypeOK, Shape, Indexed
<1>8. CASE StatFile
    <2>1. CASE \E r \in {Removed, row} : Return(r)
        BY <1>8, <2>1, <1>0, <1>a, ReturnType, CurType DEF StatFile, TypeOK
    <2>2. CASE ~ \E r \in {Removed, row} : Return(r)
        <3>1. /\ seen' = [mtime |-> file[cur].mtime, hash |-> NoHash] /\ pc' = "hash"
              /\ UNCHANGED <<task, todo, gone, batch, since, capped, flagVars, row, saved, missed>>
            BY <1>8, <2>2 DEF StatFile
        <3>2. seen' \in [mtime : 0..MaxClock, hash : 0..MaxClock]
            BY <1>8, <3>1, CurType, ContentIndexAssumption DEF StatFile, TypeOK, Files, NoHash
        <3>3. batch # <<>>
            BY <1>8 DEF StatFile, Shape
        <3>4. QED BY <3>1, <3>2, <3>3, <1>a DEF TypeOK, Shape
    <2>3. QED BY <2>1, <2>2
<1>9. CASE HashFile
    <2>1. CASE Return(Touched)
        BY <1>9, <2>1, <1>0, <1>a, ReturnType, CurType DEF HashFile
    <2>2. CASE ~Return(Touched)
        <3>1. /\ seen' = [seen EXCEPT !.hash = file[cur].data] /\ pc' = "extract"
              /\ UNCHANGED <<task, todo, gone, batch, since, capped, flagVars, row, saved, missed>>
            BY <1>9, <2>2 DEF HashFile
        <3>2. seen' \in [mtime : 0..MaxClock, hash : 0..MaxClock]
            BY <1>9, <3>1, CurType DEF HashFile, TypeOK, Files
        <3>3. batch # <<>>
            BY <1>9 DEF HashFile, Shape
        <3>4. QED BY <3>1, <3>2, <3>3, <1>a DEF TypeOK, Shape
    <2>3. QED BY <2>1, <2>2
<1>10. CASE ExtractFile
    <2>1. PICK ok \in BOOLEAN : Return(Put(ok))
        BY <1>10 DEF ExtractFile
    <2>2. QED BY <1>10, <2>1, <1>0, <1>a, ReturnType, CurType DEF ExtractFile
<1>11. CASE \E p \in Paths : ScanRow(p)
    BY <1>11, <1>a DEF ScanRow, TypeOK, Shape
<1>12. CASE PurgeGone
    BY <1>12, <1>a, NoRowType DEF PurgeGone, TypeOK, Shape
<1>13. CASE TakeBatch
    <2>1. batch' \in Seq(Items) /\ queue' \in Seq(Items)
        BY <1>13, ContentIndexAssumption DEF TakeBatch, TypeOK
    <2>2. QED BY <1>13, <1>a, <2>1 DEF TakeBatch, TypeOK, Shape
<1>14. CASE BatchItem
    <2>1. CASE Head(batch).kind = "Remove"
        <3>1. Head(batch) \in Items /\ Tail(batch) \in Seq(Items)
            BY <1>14 DEF BatchItem, TypeOK
        <3>2. Removed \in [Paths -> Rows]
            BY <3>1, NoRowType DEF Removed, cur, Items, TypeOK
        <3>3. QED BY <1>14, <1>a, <2>1, <3>1, <3>2 DEF BatchItem, TypeOK, Shape
    <2>2. CASE Head(batch).kind # "Remove"
        BY <1>14, <1>a, <2>2 DEF BatchItem, TypeOK, Shape
    <2>3. QED BY <2>1, <2>2
<1>15. CASE BatchEnd
    BY <1>15, <1>a DEF BatchEnd, TypeOK, Shape
<1>16. QED
    BY <1>1, <1>2, <1>3, <1>4, <1>5, <1>6, <1>7, <1>8, <1>9, <1>10, <1>11, <1>12, <1>13,
       <1>14, <1>15 DEF Worker

\* A crash keeps the type.
LEMMA CrashType == TypeInv /\ Crash => TypeInv'
<1> SUFFICES ASSUME TypeInv, NEW r \in [Paths -> Rows], Stop(r) PROVE TypeInv'
    BY DEF Crash, TypeInv, TypeOK
<1>1. seen' \in [mtime : 0..MaxClock, hash : 0..MaxClock] /\ since' \in 0..(Batch - 1)
    BY ContentIndexAssumption DEF Stop, NoSeen, NoHash
<1>2. kq' = <<>> /\ pending' = <<>> /\ queue' = <<>> /\ batch' = <<>>
    BY DEF Stop
<1>3. /\ kq' \in Seq(Events) /\ pending' \in Seq(Paths) /\ queue' \in Seq(Items)
      /\ batch' \in Seq(Items)
    BY <1>2
<1>4. UNCHANGED <<env, file, open, clock>> /\ pc' = "down" /\ wpc' = "off" /\ torn' \in BOOLEAN
    BY DEF Stop, fsVars
<1>5. QED BY <1>1, <1>3, <1>4 DEF Stop, TypeInv, TypeOK, Shape

\* Every step keeps the type.
LEMMA NextType == TypeInv /\ [Next]_vars => TypeInv'
<1> SUFFICES ASSUME TypeInv, [Next]_vars PROVE TypeInv'
    OBVIOUS
<1>1. CASE UNCHANGED vars
    <2>1. /\ UNCHANGED <<env, file, open, clock, kq, wpc, pending, queue, reconcile, reindex, excluded>>
          /\ UNCHANGED <<pc, task, todo, gone, batch, seen, since, capped, row, saved, missed, lost, torn>>
        BY <1>1 DEF vars, fsVars, watchVars, flagVars, workVars, history
    <2>2. QED BY <2>1 DEF TypeInv, TypeOK, Shape
<1>2. QED BY <1>1, FileSystemType, WatcherType, ControlType, WorkerType, CrashType DEF Next

\* The state of the indexer keeps its type for every directory, queue bound, batch size and
\* cap: no step of any thread, and no crash, leaves a counter or a cursor out of range.
THEOREM TypeCorrect == Spec => []TypeOK
<1>1. Spec => []TypeInv
    BY InitType, NextType, PTL DEF Spec
<1>2. QED BY <1>1, PTL DEF TypeInv

-----------------------------------------------------------------------------
(***************************************************************************)
(* A path excluded at run time leaves the index.                           *)
(***************************************************************************)

\* A pass is running that has not yet listed what to drop.
InPass == task = "crawl" \/ pc \in {"boot", "clear", "dropped", "begin"}

\* A pass that is requested or running will drop the rows of the excluded paths: it has
\* not listed the rows yet, or it is about to look at this one, or it found it excluded.
\* And the worker writes the row of an excluded path only with a request outstanding,
\* since it looked at the exclusions when it began with the file.
ExclusionInv ==
    /\ task = "crawl" => pc \in {"crawl", "stat", "hash", "extract"}
    /\ pc = "crawl" => task = "crawl"
    /\ \A p \in excluded : row[p] # NoRow =>
            reconcile \/ InPass \/ (pc = "scan" /\ p \in todo \cup gone)
    /\ task = "batch" /\ pc \in {"hash", "extract"} /\ cur \in excluded => reconcile

\* index_file returning keeps the invariant if it adds a row only to a path that is not
\* excluded or has a request outstanding.
LEMMA ReturnExclusion ==
    ASSUME TypeInv, ExclusionInv, pc \in {"stat", "hash", "extract"},
           NEW r \in [Paths -> Rows], Return(r),
           task = "batch" => \A p \in excluded : r[p] # NoRow => row[p] # NoRow \/ reconcile
    PROVE  ExclusionInv'
<1> USE DEF TypeInv
<1>1. UNCHANGED <<queue, reconcile, reindex, excluded, gone>> /\ row' = r
    BY DEF Return, flagVars
<1>2. CASE task = "batch"
    BY <1>1, <1>2 DEF Return, ExclusionInv, InPass
<1>3. CASE task = "crawl"
    <2>1. CASE task' = "crawl"
        BY <1>1, <1>3, <2>1 DEF Return, ExclusionInv, InPass
    <2>2. CASE task' # "crawl"
        <3>1. pc' = "scan" /\ todo' = {p \in Paths : r[p] # NoRow} /\ task' = "batch"
            BY <1>3, <2>2 DEF Return
        <3>2. excluded' \subseteq Paths
            BY <1>1 DEF TypeOK
        <3>3. QED BY <1>1, <3>1, <3>2 DEF ExclusionInv, InPass
    <2>3. QED BY <2>1, <2>2
<1>4. QED BY <1>2, <1>3 DEF TypeOK

\* A step of the worker keeps the invariant.
LEMMA WorkerExclusion == TypeInv /\ ExclusionInv /\ Worker => ExclusionInv'
<1> SUFFICES ASSUME TypeInv, ExclusionInv, Worker PROVE ExclusionInv'
    OBVIOUS
<1> USE DEF TypeInv, flagVars
<1>0. excluded \subseteq Paths /\ task \in {"crawl", "batch"}
    BY DEF TypeOK
<1>1. CASE Start \/ BeginPass \/ ClearDocs \/ ClearFiles
    BY <1>0, <1>1 DEF Start, BeginPass, ClearDocs, ClearFiles, ExclusionInv, InPass
<1>2. CASE CrawlBegin
    BY <1>0, <1>2 DEF CrawlBegin, ExclusionInv, InPass, AfterCap, Indexed
<1>3. CASE \E p \in Paths : CrawlFile(p)
    BY <1>3 DEF CrawlFile, IsExcluded, ExclusionInv, InPass
<1>4. CASE CrawlEnd
    BY <1>0, <1>4 DEF CrawlEnd, ExclusionInv, InPass, Indexed
<1>5. CASE StatFile
    <2>1. CASE Return(Removed)
        <3>1. \A p \in excluded : Removed[p] # NoRow => row[p] # NoRow
            BY <1>0, <1>5, CurType DEF Removed, TypeOK, StatFile, IsExcluded
        <3>2. QED BY <1>5, <2>1, <3>1, ReturnExclusion, CurType DEF StatFile, IsExcluded
    <2>2. CASE Return(row)
        BY <1>5, <2>2, ReturnExclusion DEF StatFile, IsExcluded, TypeOK
    <2>3. CASE ~Return(Removed) /\ ~Return(row)
        <3>1. cur \notin excluded /\ pc' = "hash"
              /\ UNCHANGED <<task, todo, gone, batch, reconcile, excluded, row>>
            BY <1>5, <2>3 DEF StatFile, IsExcluded
        <3>2. QED BY <1>0, <1>5, <3>1 DEF StatFile, IsExcluded, ExclusionInv, InPass, cur
    <2>4. QED BY <2>1, <2>2, <2>3
<1>6. CASE HashFile
    <2>1. CASE Return(Touched)
        <3>1. task = "batch" => \A p \in excluded : Touched[p] # NoRow => row[p] # NoRow \/ reconcile
            BY <1>0, <1>6, CurType DEF Touched, TypeOK, HashFile, ExclusionInv
        <3>2. QED BY <1>6, <2>1, <3>1, ReturnExclusion, CurType DEF HashFile
    <2>2. CASE ~Return(Touched)
        <3>1. pc' = "extract" /\ UNCHANGED <<task, todo, gone, batch, reconcile, excluded, row>>
            BY <1>6, <2>2 DEF HashFile
        <3>2. QED BY <1>0, <1>6, <3>1 DEF HashFile, ExclusionInv, InPass, cur
    <2>3. QED BY <2>1, <2>2
<1>7. CASE ExtractFile
    <2>1. PICK ok \in BOOLEAN : Return(Put(ok))
        BY <1>7 DEF ExtractFile
    <2>2. task = "batch" => \A p \in excluded : Put(ok)[p] # NoRow => row[p] # NoRow \/ reconcile
        BY <1>0, <1>7, CurType DEF Put, TypeOK, ExtractFile, ExclusionInv
    <2>3. QED BY <1>7, <2>1, <2>2, ReturnExclusion, CurType DEF ExtractFile
<1>8. CASE \E p \in Paths : ScanRow(p)
    BY <1>0, <1>8 DEF ScanRow, IsExcluded, ExclusionInv, InPass
<1>9. CASE PurgeGone
    BY <1>0, <1>9 DEF PurgeGone, ExclusionInv, InPass
<1>10. CASE TakeBatch \/ BatchEnd
    BY <1>0, <1>10 DEF TakeBatch, BatchEnd, ExclusionInv, InPass
<1>11. CASE BatchItem
    <2>1. \A p \in excluded : row'[p] # NoRow => row[p] # NoRow
        BY <1>0, <1>11 DEF BatchItem, Removed, TypeOK
    <2>2. QED BY <1>0, <1>11, <2>1 DEF BatchItem, ExclusionInv, InPass
<1>12. QED
    BY <1>1, <1>2, <1>3, <1>4, <1>5, <1>6, <1>7, <1>8, <1>9, <1>10, <1>11 DEF Worker

\* Every step keeps the invariant.
LEMMA NextExclusion == TypeInv /\ ExclusionInv /\ [Next]_vars => ExclusionInv'
<1> SUFFICES ASSUME TypeInv, ExclusionInv, [Next]_vars PROVE ExclusionInv'
    OBVIOUS
<1>1. CASE UNCHANGED vars
    <2>1. UNCHANGED <<reconcile, excluded, pc, task, todo, gone, batch, row>>
        BY <1>1 DEF vars, flagVars, workVars
    <2>2. QED BY <2>1 DEF ExclusionInv, InPass, cur
<1>2. CASE FileSystem \/ Watcher
    <2>1. UNCHANGED <<excluded, pc, task, todo, gone, batch, row>> /\ (reconcile => reconcile')
        BY <1>2 DEF FileSystem, Watcher, StartWatch, DrainEvent, DrainEnd, FlushPending,
                    flagVars, workVars
    <2>2. QED BY <2>1 DEF ExclusionInv, InPass, cur
<1>3. CASE Control
    <2>1. UNCHANGED <<pc, task, todo, gone, batch, row>>
        BY <1>3 DEF Control, workVars
    <2>2. UNCHANGED <<excluded, reconcile>> \/ reconcile'
        BY <1>3 DEF Control, RequestReconcile, RequestReindex, AddRuntimeExclude
    <2>3. QED BY <2>1, <2>2 DEF ExclusionInv, InPass, cur
<1>4. CASE Crash
    BY <1>4 DEF Crash, Stop, ExclusionInv, InPass
<1>5. QED BY <1>1, <1>2, <1>3, <1>4, WorkerExclusion DEF Next

\* A path excluded through the control channel is in the index only while a pass that will
\* drop it is requested or running, whatever the worker was doing with the file when the
\* exclusion arrived, for any number of files and any batch size.
THEOREM ExclusionHolds == Spec => []ExcludedGoes
<1>1. Init => ExclusionInv
    BY DEF Init, ExclusionInv, InPass
<1>2. TypeInv /\ ExclusionInv => ExcludedGoes
    BY DEF ExclusionInv, InPass, ExcludedGoes
<1>3. QED BY <1>1, <1>2, InitType, NextType, NextExclusion, PTL DEF Spec

-----------------------------------------------------------------------------
(***************************************************************************)
(* What sequences hold: events, names and work on their way.               *)
(***************************************************************************)

Holds(s, X) == \E i \in DOMAIN s : s[i] \in X

\* Behind every element of X comes one of Y.
Followed(s, X, Y) == \A i \in DOMAIN s : s[i] \in X => \E j \in DOMAIN s : j > i /\ s[j] \in Y

\* The head is taken.
LEMMA TailHolds ==
    ASSUME NEW S, NEW s \in Seq(S), s # <<>>, NEW X
    PROVE  /\ Holds(s, X) => Head(s) \in X \/ Holds(Tail(s), X)
           /\ Holds(Tail(s), X) => Holds(s, X)
<1>1. /\ Len(s) \in Nat /\ Len(s) > 0 /\ DOMAIN s = 1..Len(s) /\ DOMAIN Tail(s) = 1..(Len(s) - 1)
      /\ Head(s) = s[1] /\ \A i \in 1..(Len(s) - 1) : Tail(s)[i] = s[i + 1]
    OBVIOUS
<1>2. ASSUME Holds(s, X), Head(s) \notin X PROVE Holds(Tail(s), X)
    <2>1. PICK i \in DOMAIN s : s[i] \in X
        BY <1>2 DEF Holds
    <2>2. i - 1 \in DOMAIN Tail(s) /\ Tail(s)[i - 1] = s[i]
        BY <1>1, <1>2, <2>1
    <2>3. QED BY <2>1, <2>2 DEF Holds
<1>3. ASSUME Holds(Tail(s), X) PROVE Holds(s, X)
    <2>1. PICK i \in DOMAIN Tail(s) : Tail(s)[i] \in X
        BY <1>3 DEF Holds
    <2>2. i + 1 \in DOMAIN s /\ s[i + 1] = Tail(s)[i]
        BY <1>1, <2>1
    <2>3. QED BY <2>1, <2>2 DEF Holds
<1>4. QED BY <1>2, <1>3

\* What was followed is followed still, by what is left.
LEMMA TailFollowed ==
    ASSUME NEW S, NEW s \in Seq(S), s # <<>>, NEW X, NEW Y, Followed(s, X, Y)
    PROVE  Followed(Tail(s), X, Y) /\ (Head(s) \in X => Holds(Tail(s), Y))
<1>1. /\ Len(s) \in Nat /\ Len(s) > 0 /\ DOMAIN s = 1..Len(s) /\ DOMAIN Tail(s) = 1..(Len(s) - 1)
      /\ Head(s) = s[1] /\ \A i \in 1..(Len(s) - 1) : Tail(s)[i] = s[i + 1]
    OBVIOUS
<1>2. ASSUME NEW i \in DOMAIN s, NEW j \in DOMAIN s, j > i
      PROVE  j - 1 \in DOMAIN Tail(s) /\ Tail(s)[j - 1] = s[j]
    BY <1>1, <1>2
<1>3. ASSUME NEW i \in DOMAIN Tail(s), Tail(s)[i] \in X
      PROVE  \E j \in DOMAIN Tail(s) : j > i /\ Tail(s)[j] \in Y
    <2>1. i + 1 \in DOMAIN s /\ s[i + 1] \in X
        BY <1>1, <1>3
    <2>2. PICK j \in DOMAIN s : j > i + 1 /\ s[j] \in Y
        BY <2>1 DEF Followed
    <2>3. j - 1 \in DOMAIN Tail(s) /\ Tail(s)[j - 1] = s[j] /\ j - 1 > i
        BY <1>1, <1>2, <1>3, <2>1, <2>2
    <2>4. QED BY <2>2, <2>3
<1>4. ASSUME Head(s) \in X PROVE Holds(Tail(s), Y)
    <2>1. 1 \in DOMAIN s /\ s[1] \in X
        BY <1>1, <1>4
    <2>2. PICK j \in DOMAIN s : j > 1 /\ s[j] \in Y
        BY <2>1 DEF Followed
    <2>3. QED BY <1>2, <2>1, <2>2 DEF Holds
<1>5. QED BY <1>3, <1>4 DEF Followed

\* More is put behind.
LEMMA ConcatHolds ==
    ASSUME NEW S, NEW s \in Seq(S), NEW t \in Seq(S), NEW X
    PROVE  Holds(s \o t, X) <=> Holds(s, X) \/ Holds(t, X)
<1>1. /\ Len(s) \in Nat /\ Len(t) \in Nat /\ DOMAIN s = 1..Len(s) /\ DOMAIN t = 1..Len(t)
      /\ DOMAIN (s \o t) = 1..(Len(s) + Len(t))
      /\ \A i \in 1..(Len(s) + Len(t)) : (s \o t)[i] = IF i <= Len(s) THEN s[i] ELSE t[i - Len(s)]
    OBVIOUS
<1>2. ASSUME NEW i \in DOMAIN (s \o t), (s \o t)[i] \in X PROVE Holds(s, X) \/ Holds(t, X)
    <2>1. CASE i <= Len(s)
        BY <1>1, <1>2, <2>1 DEF Holds
    <2>2. CASE i > Len(s)
        <3>1. i - Len(s) \in DOMAIN t /\ t[i - Len(s)] \in X
            BY <1>1, <1>2, <2>2
        <3>2. QED BY <3>1 DEF Holds
    <2>3. QED BY <1>1, <2>1, <2>2
<1>3. ASSUME NEW i \in DOMAIN s, s[i] \in X PROVE Holds(s \o t, X)
    <2>1. i \in DOMAIN (s \o t) /\ (s \o t)[i] = s[i]
        BY <1>1
    <2>2. QED BY <1>3, <2>1 DEF Holds
<1>4. ASSUME NEW i \in DOMAIN t, t[i] \in X PROVE Holds(s \o t, X)
    <2>1. i + Len(s) \in DOMAIN (s \o t) /\ (s \o t)[i + Len(s)] = t[i]
        BY <1>1
    <2>2. QED BY <1>4, <2>1 DEF Holds
<1>5. QED BY <1>2, <1>3, <1>4 DEF Holds

\* Two sequences, one behind the other.
LEMMA ConcatFollowed ==
    ASSUME NEW S, NEW s \in Seq(S), NEW t \in Seq(S), NEW X, NEW Y
    PROVE  /\ Followed(s, X, Y) /\ Followed(t, X, Y) => Followed(s \o t, X, Y)
           /\ Holds(t, Y) /\ Followed(t, X, Y) => Followed(s \o t, X, Y)
           /\ Followed(s \o t, X, Y) => Followed(t, X, Y) /\ (Followed(s, X, Y) \/ Holds(t, Y))
<1>1. /\ Len(s) \in Nat /\ Len(t) \in Nat /\ DOMAIN s = 1..Len(s) /\ DOMAIN t = 1..Len(t)
      /\ DOMAIN (s \o t) = 1..(Len(s) + Len(t))
    OBVIOUS
<1>2. \A i \in DOMAIN s : i \in DOMAIN (s \o t) /\ (s \o t)[i] = s[i]
    BY <1>1
<1>3. \A i \in DOMAIN t : i + Len(s) \in DOMAIN (s \o t) /\ (s \o t)[i + Len(s)] = t[i]
    BY <1>1
<1>4. \A i \in DOMAIN (s \o t) : i \notin DOMAIN s =>
         i - Len(s) \in DOMAIN t /\ (s \o t)[i] = t[i - Len(s)]
    BY <1>1
<1>5. ASSUME Followed(t, X, Y), NEW i \in DOMAIN (s \o t), (s \o t)[i] \in X, i \notin DOMAIN s
      PROVE  \E j \in DOMAIN (s \o t) : j > i /\ (s \o t)[j] \in Y
    <2>1. i - Len(s) \in DOMAIN t /\ t[i - Len(s)] \in X
        BY <1>4, <1>5
    <2>2. PICK j \in DOMAIN t : j > i - Len(s) /\ t[j] \in Y
        BY <1>5, <2>1 DEF Followed
    <2>3. j + Len(s) \in DOMAIN (s \o t) /\ (s \o t)[j + Len(s)] \in Y /\ j + Len(s) > i
        BY <1>1, <1>3, <2>2
    <2>4. QED BY <2>3
<1>6. ASSUME Followed(s, X, Y), NEW i \in DOMAIN s, s[i] \in X
      PROVE  \E j \in DOMAIN (s \o t) : j > i /\ (s \o t)[j] \in Y
    <2>1. PICK j \in DOMAIN s : j > i /\ s[j] \in Y
        BY <1>6 DEF Followed
    <2>2. QED BY <1>2, <2>1
<1>7. ASSUME Holds(t, Y), NEW i \in DOMAIN s
      PROVE  \E j \in DOMAIN (s \o t) : j > i /\ (s \o t)[j] \in Y
    <2>1. PICK j \in DOMAIN t : t[j] \in Y
        BY <1>7 DEF Holds
    <2>2. j + Len(s) \in DOMAIN (s \o t) /\ (s \o t)[j + Len(s)] \in Y /\ j + Len(s) > i
        BY <1>1, <1>3, <2>1
    <2>3. QED BY <2>2
<1>8. ASSUME Followed(s \o t, X, Y) PROVE Followed(t, X, Y)
    <2>1. SUFFICES ASSUME NEW i \in DOMAIN t, t[i] \in X
                   PROVE  \E j \in DOMAIN t : j > i /\ t[j] \in Y
        BY DEF Followed
    <2>2. PICK j \in DOMAIN (s \o t) : j > i + Len(s) /\ (s \o t)[j] \in Y
        BY <1>3, <1>8, <2>1 DEF Followed
    <2>3. j - Len(s) \in DOMAIN t /\ t[j - Len(s)] \in Y /\ j - Len(s) > i
        BY <1>1, <1>4, <2>1, <2>2
    <2>4. QED BY <2>3
<1>9. ASSUME Followed(s \o t, X, Y), ~Holds(t, Y) PROVE Followed(s, X, Y)
    <2>1. SUFFICES ASSUME NEW i \in DOMAIN s, s[i] \in X
                   PROVE  \E j \in DOMAIN s : j > i /\ s[j] \in Y
        BY DEF Followed
    <2>2. PICK j \in DOMAIN (s \o t) : j > i /\ (s \o t)[j] \in Y
        BY <1>2, <1>9, <2>1 DEF Followed
    <2>3. j \in DOMAIN s
        BY <1>4, <1>9, <2>2 DEF Holds
    <2>4. QED BY <1>2, <2>2, <2>3
<1>10. Followed(s, X, Y) /\ Followed(t, X, Y) => Followed(s \o t, X, Y)
    BY <1>2, <1>5, <1>6 DEF Followed
<1>11. Holds(t, Y) /\ Followed(t, X, Y) => Followed(s \o t, X, Y)
    BY <1>2, <1>5, <1>7 DEF Followed
<1>12. QED BY <1>8, <1>9, <1>10, <1>11

\* One more element.
LEMMA OneHolds ==
    /\ \A e, X : Holds(<<e>>, X) <=> e \in X
    /\ \A e, X, Y : e \notin X => Followed(<<e>>, X, Y)
<1>1. \A e : DOMAIN <<e>> = {1} /\ <<e>>[1] = e
    OBVIOUS
<1>2. QED BY <1>1, Zenon DEF Holds, Followed

\* The empty sequence holds nothing.
LEMMA NoneHolds ==
    ASSUME NEW X, NEW Y
    PROVE  ~Holds(<<>>, X) /\ Followed(<<>>, X, Y)
BY DEF Holds, Followed

\* A sequence that ends in an element of Y.
LEMMA LastFollows ==
    ASSUME NEW S, NEW s \in Seq(S), s # <<>>, NEW X, NEW Y, Last(s) \in Y, Last(s) \notin X
    PROVE  Followed(s, X, Y) /\ Holds(s, Y)
<1>1. Len(s) \in Nat /\ Len(s) > 0 /\ DOMAIN s = 1..Len(s) /\ Last(s) = s[Len(s)]
    BY DEF Last
<1>2. Len(s) \in DOMAIN s /\ \A i \in DOMAIN s : s[i] \in X => Len(s) > i
    BY <1>1
<1>3. QED BY <1>1, <1>2 DEF Followed, Holds

\* The first n elements and the rest.
LEMMA Split ==
    ASSUME NEW S, NEW s \in Seq(S), NEW n \in 0..Len(s)
    PROVE  /\ SubSeq(s, 1, n) \in Seq(S) /\ SubSeq(s, n + 1, Len(s)) \in Seq(S)
           /\ s = SubSeq(s, 1, n) \o SubSeq(s, n + 1, Len(s))
<1>1. Len(s) \in Nat /\ n \in Int /\ n + 1 \in Int /\ 1 \in Int
    OBVIOUS
<1>2. \A i \in 1..Len(s) : s[i] \in S
    OBVIOUS
<1>3. SubSeq(s, 1, n) \in Seq(S)
    BY <1>1, <1>2, SubSeqProperties
<1>4. SubSeq(s, n + 1, Len(s)) \in Seq(S)
    BY <1>1, <1>2, SubSeqProperties
<1>5. 1 \in 1..(Len(s) + 1) /\ n \in (1 - 1)..Len(s) /\ Len(s) \in n..Len(s)
    BY <1>1
<1>6. SubSeq(s, 1, n) \o SubSeq(s, n + 1, Len(s)) = SubSeq(s, 1, Len(s))
    BY <1>5, ConcatAdjacentSubSeq
<1>7. SubSeq(s, 1, Len(s)) = s
    BY SubSeqFull
<1>8. QED BY <1>3, <1>4, <1>6, <1>7

\* A batch is the head of the queue.
LEMMA TakeSplits ==
    ASSUME TypeInv, TakeBatch
    PROVE  batch' \in Seq(Items) /\ queue' \in Seq(Items) /\ queue = batch' \o queue'
<1> DEFINE n == IF Len(queue) < Batch THEN Len(queue) ELSE Batch
<1>1. queue \in Seq(Items) /\ n \in 0..Len(queue)
    BY ContentIndexAssumption DEF TypeInv, TypeOK
<1>2. batch' = SubSeq(queue, 1, n) /\ queue' = SubSeq(queue, n + 1, Len(queue))
    BY DEF TakeBatch
<1> HIDE DEF n
<1>3. QED BY <1>1, <1>2, Split

-----------------------------------------------------------------------------
(***************************************************************************)
(* What a step of the file system leaves for the watcher.                  *)
(***************************************************************************)

Leaves(p) == {e \in Events : e.mask \in {"delete", "moved_from"} /\ e.path = p}
Arrives(p) == {e \in Events : e.mask \in {"close_write", "moved_to"} /\ e.path = p}
About(p) == Leaves(p) \cup Arrives(p)

\* Something says that p has changed, or nothing ever will.
Told(p) ==
    \/ p \in missed
    \/ p \in lost /\ Holds(kq, {Overflow})
    \/ Holds(kq, About(p))

\* The last that is said of p is that it is there.
Came(p) ==
    \/ p \in lost
    \/ p \in missed /\ ~Watching
    \/ kq # <<>> /\ Last(kq) \in Arrives(p)

Same(p) ==
    /\ open'[p] = open[p] /\ (Exists(p)' <=> Exists(p))
    /\ file'[p].mtime = file[p].mtime /\ file'[p].data = file[p].data

Grown(t) == kq' = kq \o t /\ (Watching \/ t = <<>>)

FileEffect ==
    /\ lost \subseteq lost' /\ missed \subseteq missed'
    /\ \E t \in Seq(Events) :
        /\ Grown(t)
        /\ \A p \in Paths :
            \/ Same(p) /\ ~Holds(t, Leaves(p))
            \/ open'[p]
            \/ Told(p)' /\ (Exists(p)' => Came(p)')

\* The kernel's queue grows at its end, by the event or by the marker that it is full.
LEMMA QueuedGrows ==
    ASSUME NEW q \in Seq(Events), NEW e \in Events
    PROVE  /\ \E t \in Seq(Events) :
                  /\ Queued(q, e) = q \o t
                  /\ \A X : Holds(t, X) => e \in X \/ Overflow \in X
           /\ Queued(q, e) \in Seq(Events)
           /\ Dropped(q, e) => Holds(Queued(q, e), {Overflow})
           /\ ~Dropped(q, e) => Queued(q, e) # <<>> /\ Last(Queued(q, e)) = e
<1>1. Overflow \in Events BY DEF Overflow, Events
<1>2. <<>> \in Seq(Events) /\ q = q \o <<>>
    OBVIOUS
<1>3. ASSUME NEW f \in Events
      PROVE  /\ <<f>> \in Seq(Events) /\ Append(q, f) = q \o <<f>>
             /\ Append(q, f) # <<>> /\ Last(Append(q, f)) = f /\ Holds(Append(q, f), {f})
    <2>1. <<f>> \in Seq(Events) /\ Append(q, f) = q \o <<f>> /\ Append(q, f) # <<>>
        OBVIOUS
    <2>2. Last(Append(q, f)) = f
        BY DEF Last
    <2>3. Holds(Append(q, f), {f})
        <3>1. Holds(<<f>>, {f})
            BY OneHolds, Zenon
        <3>2. Holds(q \o <<f>>, {f})
            BY <2>1, <3>1, ConcatHolds, Zenon
        <3>3. QED BY <2>1, <3>2, Zenon
    <2>4. QED BY <2>1, <2>2, <2>3
<1>4. CASE Queued(q, e) = q /\ ~Dropped(q, e)
    <2>1. Merged(q, e)
        BY <1>3, <1>4 DEF Queued
    <2>2. QED BY <1>2, <1>4, <2>1, NoneHolds DEF Merged
<1>5. CASE Queued(q, e) = Append(q, e) /\ ~Dropped(q, e)
    <2>1. \A X : Holds(<<e>>, X) => e \in X
        BY OneHolds, Zenon
    <2>2. /\ <<e>> \in Seq(Events) /\ Queued(q, e) = q \o <<e>>
          /\ Queued(q, e) # <<>> /\ Last(Queued(q, e)) = e
        BY <1>3, <1>5, Zenon
    <2>3. QED BY <1>5, <2>1, <2>2, QueuedType, Zenon
<1>6. CASE Dropped(q, e) /\ \E i \in DOMAIN q : q[i] = Overflow
    <2>1. Queued(q, e) = q
        BY <1>6 DEF Queued, Dropped
    <2>2. Holds(q, {Overflow})
        BY <1>6 DEF Holds
    <2>3. QED BY <1>2, <1>6, <2>1, <2>2, NoneHolds
<1>7. CASE Dropped(q, e) /\ ~ \E i \in DOMAIN q : q[i] = Overflow
    <2>1. Queued(q, e) = Append(q, Overflow)
        BY <1>7 DEF Queued, Dropped
    <2>2. \A X : Holds(<<Overflow>>, X) => Overflow \in X
        BY OneHolds, Zenon
    <2>3. /\ <<Overflow>> \in Seq(Events) /\ Queued(q, e) = q \o <<Overflow>>
          /\ Holds(Queued(q, e), {Overflow}) /\ Queued(q, e) \in Seq(Events)
        BY <1>1, <1>3, <2>1
    <2>4. QED BY <1>7, <2>2, <2>3, Zenon
<1>8. QED BY <1>4, <1>5, <1>6, <1>7 DEF Queued

\* Nothing is said of a path by the marker, or by a creation.
LEMMA SaysNothing ==
    ASSUME NEW p
    PROVE  /\ Overflow \notin Leaves(p)
           /\ \A q : [mask |-> "create", path |-> q] \notin Leaves(p)
           /\ \A q, b : [mask |-> "moved_to", path |-> q, paired |-> b] \notin Leaves(p)
           /\ \A q : [mask |-> "close_write", path |-> q] \notin Leaves(p)
BY DEF Leaves, Overflow

\* A report reaches the queue's end, or is dropped, or nobody listens.
LEMMA ReportEffect ==
    ASSUME TypeInv, NEW e \in Events, NEW ps \in SUBSET Paths, Report(e, ps)
    PROVE  /\ lost \subseteq lost' /\ missed \subseteq missed'
           /\ \E t \in Seq(Events) : Grown(t) /\ \A X : Holds(t, X) => e \in X \/ Overflow \in X
           /\ \A p \in ps :
                \/ p \in missed' /\ ~Watching
                \/ p \in lost' /\ Holds(kq', {Overflow})
                \/ kq' # <<>> /\ Last(kq') = e
<1>1. kq \in Seq(Events)
    BY DEF TypeInv, TypeOK
<1>2. CASE Watching
    <2>1. kq' = Queued(kq, e) /\ lost' = (IF Dropped(kq, e) THEN lost \cup ps ELSE lost)
          /\ UNCHANGED missed
        BY <1>2 DEF Report
    <2>2. PICK t \in Seq(Events) : Queued(kq, e) = kq \o t /\ \A X : Holds(t, X) => e \in X \/ Overflow \in X
        BY <1>1, QueuedGrows
    <2>3. Dropped(kq, e) => Holds(kq', {Overflow})
        BY <1>1, <2>1, QueuedGrows
    <2>4. ~Dropped(kq, e) => kq' # <<>> /\ Last(kq') = e
        BY <1>1, <2>1, QueuedGrows
    <2>5. Grown(t)
        BY <1>2, <2>1, <2>2 DEF Grown
    <2>6. QED BY <2>1, <2>2, <2>3, <2>4, <2>5
<1>3. CASE ~Watching
    <2>1. missed' = missed \cup ps /\ UNCHANGED <<kq, lost>>
        BY <1>3 DEF Report
    <2>2. kq' = kq \o <<>> /\ <<>> \in Seq(Events) /\ \A X : ~Holds(<<>>, X)
        BY <1>1, <2>1, NoneHolds
    <2>3. QED BY <1>3, <2>1, <2>2 DEF Grown
<1>4. QED BY <1>2, <1>3

\* What a path reported by an event e is left with.
LEMMA ReportTells ==
    ASSUME TypeInv, wpc' = wpc, NEW p \in Paths, NEW e \in About(p),
           \/ p \in missed' /\ ~Watching
           \/ p \in lost' /\ Holds(kq', {Overflow})
           \/ kq' # <<>> /\ Last(kq') = e,
           kq' \in Seq(Events)
    PROVE  Told(p)' /\ (e \in Arrives(p) => Came(p)')
<1>1. ASSUME kq' # <<>>, Last(kq') = e PROVE Holds(kq', About(p))
    <2>1. Len(kq') \in DOMAIN kq' /\ kq'[Len(kq')] \in About(p)
        BY <1>1 DEF Last
    <2>2. QED BY <2>1 DEF Holds
<1>2. QED BY <1>1 DEF Told, Came, Watching

\* Every step of the file system leaves a path as it was, open, or told of.
LEMMA FileSystemEffect == TypeInv /\ FileSystem => FileEffect
<1> SUFFICES ASSUME TypeInv, FileSystem PROVE FileEffect
    OBVIOUS
<1>1. /\ kq \in Seq(Events) /\ kq' \in Seq(Events) /\ file \in [Paths -> Files]
      /\ open \in [Paths -> BOOLEAN]
    BY FileSystemType DEF TypeInv, TypeOK
<1>2. wpc' = wpc /\ env.names \subseteq Paths
    BY NamesType DEF FileSystem, watchVars, TypeInv
<1>3. ASSUME NEW p \in Paths, WriteFile(p) PROVE FileEffect
    <2> DEFINE e == [mask |-> "create", path |-> p]
    <2>1. e \in Events
        BY DEF Events
    <2>2. /\ lost \subseteq lost' /\ missed \subseteq missed'
          /\ \E t \in Seq(Events) : Grown(t) /\ \A X : Holds(t, X) => e \in X \/ Overflow \in X
        <3>1. CASE Exists(p)
            <4>1. UNCHANGED <<kq, missed, lost>>
                BY <1>3, <3>1 DEF WriteFile
            <4>2. kq' = kq \o <<>> /\ <<>> \in Seq(Events) /\ \A X : ~Holds(<<>>, X)
                BY <1>1, <4>1, NoneHolds
            <4>3. QED BY <4>1, <4>2 DEF Grown
        <3>2. CASE ~Exists(p)
            <4>1. Report(e, {})
                BY <1>3, <3>2 DEF WriteFile
            <4> HIDE DEF e
            <4>2. QED BY <2>1, <4>1, ReportEffect
        <3>3. QED BY <3>1, <3>2
    <2>3. PICK t \in Seq(Events) : Grown(t) /\ \A X : Holds(t, X) => e \in X \/ Overflow \in X
        BY <2>2
    <2>4. \A r \in Paths : ~Holds(t, Leaves(r))
        BY <2>3, SaysNothing
    <2>5. \A r \in Paths \ {p} : Same(r)
        BY <1>1, <1>3 DEF WriteFile, Same, Exists
    <2>6. open'[p]
        BY <1>1, <1>3 DEF WriteFile
    <2>7. QED BY <2>2, <2>3, <2>4, <2>5, <2>6 DEF FileEffect
<1>4. ASSUME NEW p \in Paths, NEW e \in About(p), Report(e, {p}), \A r \in Paths \ {p} : Same(r),
             Exists(p)' => e \in Arrives(p)
      PROVE  FileEffect
    <2>1. e \in Events
        BY <1>4 DEF About, Leaves, Arrives
    <2>2. /\ lost \subseteq lost' /\ missed \subseteq missed'
          /\ \E t \in Seq(Events) : Grown(t) /\ \A X : Holds(t, X) => e \in X \/ Overflow \in X
          /\ \/ p \in missed' /\ ~Watching
             \/ p \in lost' /\ Holds(kq', {Overflow})
             \/ kq' # <<>> /\ Last(kq') = e
        BY <1>4, <2>1, ReportEffect
    <2>3. PICK t \in Seq(Events) : Grown(t) /\ \A X : Holds(t, X) => e \in X \/ Overflow \in X
        BY <2>2
    <2>4. \A r \in Paths \ {p} : ~Holds(t, Leaves(r))
        <3>1. \A r \in Paths \ {p} : e \notin Leaves(r)
            BY <1>4 DEF About, Leaves, Arrives
        <3>2. QED BY <2>3, <3>1, SaysNothing
    <2>5. Told(p)' /\ (e \in Arrives(p) => Came(p)')
        BY <1>1, <1>2, <1>4, <2>2, ReportTells
    <2>6. QED BY <1>4, <2>2, <2>3, <2>4, <2>5 DEF FileEffect
<1>5. ASSUME NEW p \in Paths, CloseFile(p) PROVE FileEffect
    <2> DEFINE e == [mask |-> "close_write", path |-> p]
    <2>1. e \in Arrives(p)
        BY DEF Arrives, Events
    <2>2. \A r \in Paths \ {p} : Same(r)
        BY <1>1, <1>5 DEF CloseFile, Same, Exists
    <2>3. Report(e, {p})
        BY <1>5 DEF CloseFile
    <2> HIDE DEF e
    <2>4. QED BY <1>4, <2>1, <2>2, <2>3 DEF About
<1>6. ASSUME NEW p \in Paths, NEW op, NEW mask \in {"delete", "moved_from"}, Vanish(p, op, mask)
      PROVE  FileEffect
    <2> DEFINE e == [mask |-> mask, path |-> p]
    <2>1. e \in Leaves(p)
        BY DEF Leaves, Events
    <2>2. (\A r \in Paths \ {p} : Same(r)) /\ ~Exists(p)'
        BY <1>1, <1>6 DEF Vanish, Same, Exists
    <2>3. Report(e, {p})
        BY <1>6 DEF Vanish
    <2> HIDE DEF e
    <2>4. QED BY <1>4, <2>1, <2>2, <2>3 DEF About
<1>7. ASSUME NEW p \in Paths, MoveIn(p) PROVE FileEffect
    <2> DEFINE e == [mask |-> "moved_to", path |-> p, paired |-> FALSE]
    <2>1. e \in Arrives(p)
        BY DEF Arrives, Events
    <2>2. \A r \in Paths \ {p} : Same(r)
        BY <1>1, <1>7 DEF MoveIn, Same, Exists
    <2>3. Report(e, {p})
        BY <1>7 DEF MoveIn
    <2> HIDE DEF e
    <2>4. QED BY <1>4, <2>1, <2>2, <2>3 DEF About
<1>8. ASSUME NEW p \in Paths, NEW q \in Paths, RenameFile(p, q) PROVE FileEffect
    <2> DEFINE from == [mask |-> "moved_from", path |-> p]
               to == [mask |-> "moved_to", path |-> q, paired |-> TRUE]
               mid == Queued(kq, from)
    <2>1. from \in Leaves(p) /\ from \in Events /\ to \in Arrives(q) /\ to \in Events
        BY DEF Leaves, Arrives, Events
    <2>2. \A r \in Paths : /\ r # p => from \notin Leaves(r)
                           /\ to \notin Leaves(r) /\ Overflow \notin Leaves(r)
        BY SaysNothing DEF Leaves
    <2>3. \A r \in Paths \ {p, q} : Same(r)
        BY <1>1, <1>8 DEF RenameFile, Same, Exists
    <2>4. ~Exists(p)'
        BY <1>1, <1>8 DEF RenameFile, Exists
    <2>5. CASE ~Watching
        <3>1. missed' = missed \cup {p, q} /\ UNCHANGED <<kq, lost>>
            BY <1>8, <2>5 DEF RenameFile
        <3>2. kq' = kq \o <<>> /\ <<>> \in Seq(Events) /\ \A X : ~Holds(<<>>, X)
            BY <1>1, <3>1, NoneHolds
        <3>3. Grown(<<>>) /\ Told(p)' /\ Told(q)' /\ Came(q)'
            BY <1>2, <2>5, <3>1, <3>2 DEF Grown, Told, Came, Watching
        <3>4. QED BY <2>3, <2>4, <3>1, <3>2, <3>3 DEF FileEffect
    <2>6. CASE Watching
        <3>1. /\ kq' = Queued(mid, to) /\ UNCHANGED missed
              /\ lost' = IF Dropped(kq, from) \/ Dropped(mid, to) THEN lost \cup {p, q} ELSE lost
            BY <1>8, <2>6 DEF RenameFile
        <3> HIDE DEF from, to
        <3>2. PICK t1 \in Seq(Events) :
                 mid = kq \o t1 /\ \A X : Holds(t1, X) => from \in X \/ Overflow \in X
            BY <1>1, <2>1, QueuedGrows
        <3>3. mid \in Seq(Events)
            BY <1>1, <2>1, QueuedGrows
        <3>4. Dropped(kq, from) => Holds(mid, {Overflow})
            BY <1>1, <2>1, QueuedGrows
        <3>5. ~Dropped(kq, from) => mid # <<>> /\ Last(mid) = from
            BY <1>1, <2>1, QueuedGrows
        <3> HIDE DEF mid
        <3>6. PICK t2 \in Seq(Events) :
                 kq' = mid \o t2 /\ \A X : Holds(t2, X) => to \in X \/ Overflow \in X
            BY <2>1, <3>1, <3>3, QueuedGrows
        <3>7. Dropped(mid, to) => Holds(kq', {Overflow})
            BY <2>1, <3>1, <3>3, QueuedGrows
        <3>8. ~Dropped(mid, to) => kq' # <<>> /\ Last(kq') = to
            BY <2>1, <3>1, <3>3, QueuedGrows
        <3>9. \A X : Holds(mid, X) => Holds(kq', X)
            BY <3>3, <3>6, ConcatHolds
        <3>10. t1 \o t2 \in Seq(Events) /\ kq' = kq \o (t1 \o t2)
            BY <1>1, <3>2, <3>6, ConcatAssociative
        <3>11. \A r \in Paths \ {p} : ~Holds(t1 \o t2, Leaves(r))
            BY <2>2, <3>2, <3>6, ConcatHolds
        <3>12. CASE Dropped(kq, from) \/ Dropped(mid, to)
            <4>1. p \in lost' /\ q \in lost' /\ lost \subseteq lost'
                BY <3>1, <3>12
            <4>2. Holds(kq', {Overflow})
                BY <3>4, <3>7, <3>9, <3>12
            <4>3. Told(p)' /\ Told(q)' /\ Came(q)'
                BY <4>1, <4>2 DEF Told, Came
            <4>4. QED BY <2>3, <2>4, <2>6, <3>1, <3>10, <3>11, <4>1, <4>3 DEF FileEffect, Grown
        <3>13. CASE ~Dropped(kq, from) /\ ~Dropped(mid, to)
            <4>1. lost' = lost
                BY <3>1, <3>13
            <4>2. Holds(mid, About(p))
                <5>1. Len(mid) \in DOMAIN mid /\ mid[Len(mid)] = from
                    BY <3>3, <3>5, <3>13 DEF Last
                <5>2. QED BY <2>1, <5>1 DEF Holds, About
            <4>3. Told(p)'
                BY <3>9, <4>2 DEF Told
            <4>4. Told(q)' /\ Came(q)'
                <5>1. to \in About(q)
                    BY <2>1 DEF About
                <5>2. QED BY <1>1, <1>2, <2>1, <3>8, <3>13, <5>1, ReportTells
            <4>5. QED BY <2>3, <2>4, <2>6, <3>1, <3>10, <3>11, <4>1, <4>3, <4>4 DEF FileEffect, Grown
        <3>14. QED BY <3>12, <3>13
    <2>7. QED BY <2>5, <2>6
<1>9. ASSUME NEW p \in Paths, NEW q \in Paths, LinkFile(p, q) PROVE FileEffect
    <2> DEFINE e == [mask |-> "create", path |-> q]
    <2>1. e \in Events
        BY DEF Events
    <2>2. missed' = missed \cup {q} /\ lost' = lost \cup {q}
        BY <1>9 DEF LinkFile
    <2>3. \A r \in Paths \ {q} : Same(r)
        BY <1>1, <1>9 DEF LinkFile, Same, Exists, Files, NoFile
    <2>4. Told(q)' /\ Came(q)'
        BY <2>2 DEF Told, Came
    <2>5. \E t \in Seq(Events) : Grown(t) /\ \A X : Holds(t, X) => e \in X \/ Overflow \in X
        <3>1. kq' = IF Watching THEN Queued(kq, e) ELSE kq
            BY <1>9 DEF LinkFile
        <3>2. kq = kq \o <<>> /\ <<>> \in Seq(Events) /\ \A X : ~Holds(<<>>, X)
            BY <1>1, NoneHolds
        <3> HIDE DEF e
        <3>3. QED BY <1>1, <2>1, <3>1, <3>2, QueuedGrows DEF Grown
    <2>6. PICK t \in Seq(Events) : Grown(t) /\ \A X : Holds(t, X) => e \in X \/ Overflow \in X
        BY <2>5
    <2>7. \A r \in Paths : ~Holds(t, Leaves(r))
        BY <2>6, SaysNothing
    <2>8. QED BY <2>2, <2>3, <2>4, <2>6, <2>7 DEF FileEffect
<1>10. QED
    BY <1>2, <1>3, <1>5, <1>6, <1>7, <1>8, <1>9 DEF FileSystem, DeleteFile, MoveOut

-----------------------------------------------------------------------------
(***************************************************************************)
(* Where work can be.                                                      *)
(***************************************************************************)

AtFile == pc \in {"hash", "extract"}

\* Names wait only for the drain to end; a batch, or a list of rows to drop, belongs to the
\* places that work on it; and a directory that is not watched has sent no work.
PlaceInv ==
    /\ pending # <<>> => wpc \in {"drain", "flush"}
    /\ pc \notin {"batch", "stat", "hash", "extract"} => batch = <<>>
    /\ pc # "scan" => gone = {}
    /\ task = "crawl" /\ batch # <<>> => Tail(batch) = <<>>
    /\ pc = "down" => wpc = "off"
    /\ wpc = "off" => /\ kq = <<>> /\ pending = <<>> /\ queue = <<>>
                      /\ \A p \in Paths : ~Holds(batch, {Remove(p)})

\* What index_file returning does to them.
LEMMA ReturnPlace ==
    ASSUME TypeInv, ExclusionInv, PlaceInv, pc \in {"stat", "hash", "extract"},
           NEW r \in [Paths -> Rows], Return(r), UNCHANGED <<kq, watchVars>>
    PROVE  PlaceInv'
<1>1. batch \in Seq(Items) /\ batch # <<>> /\ task \in {"crawl", "batch"}
    BY DEF TypeInv, TypeOK, Shape
<1>2. /\ batch' = Tail(batch) /\ UNCHANGED <<queue, gone>> /\ pc' \in {"batch", "crawl", "scan"}
      /\ task = "batch" => pc' = "batch" /\ task' = "batch"
      /\ task = "crawl" => task' = "batch" \/ task' = "crawl"
    BY <1>1 DEF Return, flagVars
<1>3. gone' = {} /\ (task = "crawl" => batch' = <<>>)
    BY <1>1, <1>2 DEF PlaceInv
<1>4. \A p \in Paths : Holds(batch', {Remove(p)}) => Holds(batch, {Remove(p)})
    BY <1>1, <1>2, TailHolds
<1>5. QED BY <1>1, <1>2, <1>3, <1>4 DEF PlaceInv, watchVars

\* A step of the worker keeps work in its places.
LEMMA WorkerPlace == TypeInv /\ ExclusionInv /\ PlaceInv /\ Worker => PlaceInv'
<1> SUFFICES ASSUME TypeInv, ExclusionInv, PlaceInv, Worker PROVE PlaceInv'
    OBVIOUS
<1> USE DEF flagVars
<1>0. UNCHANGED <<kq, watchVars>> /\ batch \in Seq(Items) /\ queue \in Seq(Items)
    BY DEF Worker, TypeInv, TypeOK
<1>1. CASE Start \/ BeginPass \/ ClearDocs \/ ClearFiles \/ PurgeGone \/ BatchEnd
    BY <1>0, <1>1 DEF Start, BeginPass, ClearDocs, ClearFiles, PurgeGone, BatchEnd, PlaceInv, watchVars
<1>2. CASE CrawlBegin \/ CrawlEnd \/ \E p \in Paths : ScanRow(p)
    BY <1>0, <1>2 DEF CrawlBegin, AfterCap, CrawlEnd, ScanRow, PlaceInv, watchVars
<1>3. ASSUME NEW p \in Paths, CrawlFile(p) PROVE PlaceInv'
    <2>1. batch' = <<>> \/ batch' = <<Index(p)>>
        BY <1>3 DEF CrawlFile, PlaceInv
    <2>2. Tail(batch') = <<>> \/ batch' = <<>>
        <3>1. \A x : Tail(<<x>>) = <<>>
            OBVIOUS
        <3>2. QED BY <2>1, <3>1, Zenon
    <2>3. \A q \in Paths : Index(p) # Remove(q)
        BY DEF Index, Remove
    <2>4. \A q \in Paths : ~Holds(batch', {Remove(q)})
        <3>1. \A q \in Paths : Index(p) \notin {Remove(q)}
            BY <2>3
        <3>2. QED BY <2>1, <3>1, OneHolds, NoneHolds, Zenon
    <2>5. /\ pc' \in {"stat", "crawl"} /\ (pc' = "crawl" => batch' = batch)
          /\ UNCHANGED <<gone, queue>> /\ pc = "crawl"
        BY <1>3 DEF CrawlFile
    <2>6. QED BY <1>0, <2>2, <2>4, <2>5 DEF PlaceInv, watchVars
<1>4. CASE StatFile
    <2>1. CASE \E r \in {Removed, row} : Return(r)
        BY <1>0, <1>4, <2>1, ReturnPlace, CurType DEF StatFile, TypeInv, TypeOK
    <2>2. CASE ~ \E r \in {Removed, row} : Return(r)
        BY <1>0, <1>4, <2>2 DEF StatFile, PlaceInv, watchVars
    <2>3. QED BY <2>1, <2>2
<1>5. CASE HashFile
    <2>1. CASE Return(Touched)
        BY <1>0, <1>5, <2>1, ReturnPlace, CurType DEF HashFile
    <2>2. CASE ~Return(Touched)
        BY <1>0, <1>5, <2>2 DEF HashFile, PlaceInv, watchVars
    <2>3. QED BY <2>1, <2>2
<1>6. CASE ExtractFile
    <2>1. PICK ok \in BOOLEAN : Return(Put(ok))
        BY <1>6 DEF ExtractFile
    <2>2. QED BY <1>0, <1>6, <2>1, ReturnPlace, CurType DEF ExtractFile
<1>7. CASE TakeBatch
    <2>1. wpc # "off" /\ task = "batch" /\ pc' = "batch" /\ UNCHANGED <<gone, task>> /\ gone = {}
        BY <1>7 DEF TakeBatch, PlaceInv, ExclusionInv, TypeInv, TypeOK
    <2>2. QED BY <1>0, <2>1 DEF PlaceInv, watchVars
<1>8. CASE BatchItem
    <2>1. batch' = batch \/ batch' = Tail(batch)
        BY <1>8 DEF BatchItem
    <2>2. \A p \in Paths : Holds(batch', {Remove(p)}) => Holds(batch, {Remove(p)})
        BY <1>0, <1>8, <2>1, TailHolds DEF BatchItem
    <2>3. task = "batch" /\ pc' \in {"batch", "stat"} /\ UNCHANGED <<gone, task, queue>> /\ pc = "batch"
        BY <1>8 DEF BatchItem, ExclusionInv, TypeInv, TypeOK
    <2>4. QED BY <1>0, <2>2, <2>3 DEF PlaceInv, watchVars
<1>9. QED BY <1>1, <1>2, <1>3, <1>4, <1>5, <1>6, <1>7, <1>8 DEF Worker

\* Every step keeps work in its places.
LEMMA NextPlace == TypeInv /\ ExclusionInv /\ PlaceInv /\ [Next]_vars => PlaceInv'
<1> SUFFICES ASSUME TypeInv, ExclusionInv, PlaceInv, [Next]_vars PROVE PlaceInv'
    OBVIOUS
<1>1. CASE UNCHANGED vars
    <2>1. UNCHANGED <<kq, wpc, pending, queue, pc, task, gone, batch>>
        BY <1>1 DEF vars, watchVars, flagVars, workVars
    <2>2. QED BY <2>1 DEF PlaceInv
<1>2. CASE FileSystem
    <2>1. UNCHANGED <<wpc, pending, queue, pc, task, gone, batch>>
        BY <1>2 DEF FileSystem, watchVars, flagVars, workVars
    <2>2. wpc = "off" => kq' = kq
        <3>1. PICK t \in Seq(Events) : Grown(t)
            BY <1>2, FileSystemEffect DEF FileEffect
        <3>2. wpc = "off" => kq = <<>> /\ t = <<>>
            BY <3>1 DEF Grown, Watching, PlaceInv
        <3>3. <<>> \o <<>> = <<>>
            OBVIOUS
        <3>4. QED BY <3>1, <3>2, <3>3 DEF Grown
    <2>3. QED BY <2>1, <2>2 DEF PlaceInv
<1>3. CASE Watcher
    <2>1. UNCHANGED <<pc, task, gone, batch>> /\ wpc' # "off" /\ pc # "down"
        BY <1>3 DEF Watcher, StartWatch, DrainEvent, DrainEnd, FlushPending, workVars, Running, PlaceInv
    <2>2. pending' # <<>> => wpc' \in {"drain", "flush"}
        <3>1. CASE StartWatch
            BY <3>1 DEF StartWatch, PlaceInv
        <3>2. CASE DrainEvent
            BY <3>2 DEF DrainEvent
        <3>3. CASE DrainEnd
            BY <3>3 DEF DrainEnd
        <3>4. CASE FlushPending
            BY <3>4 DEF FlushPending
        <3>5. QED BY <1>3, <3>1, <3>2, <3>3, <3>4 DEF Watcher
    <2>3. QED BY <2>1, <2>2 DEF PlaceInv
<1>4. CASE Control
    <2>1. UNCHANGED <<kq, wpc, pending, queue, pc, task, gone, batch>>
        BY <1>4 DEF Control, RequestReconcile, RequestReindex, AddRuntimeExclude, watchVars, workVars
    <2>2. QED BY <2>1 DEF PlaceInv
<1>5. CASE Crash
    <2>1. /\ kq' = <<>> /\ pending' = <<>> /\ queue' = <<>> /\ batch' = <<>> /\ gone' = {}
          /\ wpc' = "off"
        BY <1>5 DEF Crash, Stop
    <2>2. \A p \in Paths : ~Holds(batch', {Remove(p)})
        BY <2>1, NoneHolds
    <2>3. QED BY <2>1, <2>2 DEF PlaceInv
<1>6. QED BY <1>1, <1>2, <1>3, <1>4, <1>5, WorkerPlace DEF Next

-----------------------------------------------------------------------------
(***************************************************************************)
(* What the index says of a version.                                       *)
(***************************************************************************)

\* A record that has the time, or the hash, of the file at p has nothing of another version:
\* no version comes back to where it was.  And one that says the text could not be had has
\* not the hash of a file that is there, unless the extractor fails.
Faithful(r, p) == Exists(p) =>
    /\ r.mtime = file[p].mtime => r.hash \in {NoHash, file[p].data} /\ r.body \in {NoBody, file[p].data}
    /\ r.hash = file[p].data => r.body \in {NoBody, file[p].data}
    /\ r.state = "Error" /\ r.hash = file[p].data => "exterror" \in env.ops

\* It has nothing of a version that is not at p and has never moved there.
Ignorant(r, o) == Exists(o) /\ ~file[o].moved =>
    r.mtime # file[o].mtime /\ r.hash # file[o].data /\ r.body # file[o].data

Old(r) == r.mtime <= clock /\ r.hash <= clock /\ r.body <= clock
Honest(r, p) == Old(r) /\ Faithful(r, p) /\ \A o \in Paths \ {p} : Ignorant(r, o)

\* What the worker has seen of the file it is at, as a record.
SeenRow == [mtime |-> seen.mtime, hash |-> seen.hash, body |-> NoBody, state |-> "none"]

FilesInv ==
    /\ \A p \in Paths : Exists(p) => file[p].mtime \in 1..clock /\ file[p].data \in 1..clock
    /\ \A p, q \in Paths : p # q /\ Exists(p) /\ Exists(q) /\ ~file[p].moved =>
            file[p].mtime # file[q].mtime /\ file[p].data # file[q].data

VersionInv ==
    /\ FilesInv
    /\ \A p \in Paths : Honest(row[p], p) /\ Honest(saved[p], p)
    /\ AtFile => Honest(SeenRow, cur)

\* Each step of the file system either takes files away or puts one new version in place.
LEMMA NewVersion ==
    ASSUME TypeInv, FilesInv, UNCHANGED env, NEW p \in Paths, NEW v \in Files,
           file' = [file EXCEPT ![p] = v], clock' = clock + 1, v.mtime = clock + 1,
           \/ v.data = clock + 1 /\ v.moved = FALSE
           \/ Exists(p) /\ v.data = file[p].data /\ v.moved = file[p].moved
    PROVE  FilesInv' /\ \A r \in Rows, x \in Paths : Honest(r, x) => Honest(r, x)'
<1>1. /\ \A x \in Paths : file[x] \in Files /\ file'[x] = IF x = p THEN v ELSE file[x]
      /\ clock \in Nat
    BY ContentIndexAssumption DEF TypeInv, TypeOK
<1>2. \A x \in Paths : /\ file[x].mtime \in Nat /\ file[x].data \in Nat
                       /\ x # p => (Exists(x)' <=> Exists(x))
    BY <1>1 DEF Files, Exists
<1>3. \A x \in Paths : Exists(x)' => file'[x].mtime \in 1..(clock + 1) /\ file'[x].data \in 1..(clock + 1)
    BY <1>1, <1>2 DEF FilesInv
<1>4. ASSUME NEW x \in Paths, NEW y \in Paths, x # y, Exists(x)', Exists(y)', ~file'[x].moved
      PROVE  file'[x].mtime # file'[y].mtime /\ file'[x].data # file'[y].data
    <2>1. CASE x # p /\ y # p
        BY <1>1, <1>2, <1>4, <2>1 DEF FilesInv
    <2>2. CASE x = p
        <3>1. Exists(y) /\ file'[y] = file[y] /\ file[y].mtime \in 1..clock /\ file[y].data \in 1..clock
            BY <1>1, <1>2, <1>4, <2>2 DEF FilesInv
        <3>2. CASE v.data = clock + 1
            BY <1>1, <2>2, <3>1, <3>2
        <3>3. CASE Exists(p) /\ v.data = file[p].data /\ v.moved = file[p].moved
            BY <1>1, <1>4, <2>2, <3>1, <3>3 DEF FilesInv
        <3>4. QED BY <3>2, <3>3
    <2>3. CASE y = p
        <3>1. Exists(x) /\ file'[x] = file[x] /\ file[x].mtime \in 1..clock /\ file[x].data \in 1..clock
            BY <1>1, <1>2, <1>4, <2>3 DEF FilesInv
        <3>2. CASE v.data = clock + 1
            BY <1>1, <2>3, <3>1, <3>2
        <3>3. CASE Exists(p) /\ v.data = file[p].data
            BY <1>1, <1>4, <2>3, <3>1, <3>3 DEF FilesInv
        <3>4. QED BY <3>2, <3>3
    <2>4. QED BY <2>1, <2>2, <2>3
<1>5. ASSUME NEW r \in Rows, NEW x \in Paths, Honest(r, x) PROVE Honest(r, x)'
    <2>1. r.mtime \in Nat /\ r.hash \in Nat /\ r.body \in Nat /\ Old(r)
        BY <1>5 DEF Rows, Honest
    <2>2. Old(r)'
        BY <1>1, <2>1 DEF Old
    <2>3. r.mtime # clock + 1 /\ r.hash # clock + 1 /\ r.body # clock + 1
        BY <1>1, <2>1 DEF Old
    <2>4. Faithful(r, x)'
        <3>1. CASE x # p
            BY <1>1, <1>2, <1>5, <3>1 DEF Honest, Faithful
        <3>2. CASE x = p
            BY <1>1, <1>5, <2>3, <3>2 DEF Honest, Faithful
        <3>3. QED BY <3>1, <3>2
    <2>5. ASSUME NEW o \in Paths \ {x} PROVE Ignorant(r, o)'
        <3>1. Ignorant(r, o)
            BY <1>5 DEF Honest
        <3>2. CASE o # p
            BY <1>1, <1>2, <3>1, <3>2 DEF Ignorant
        <3>3. CASE o = p
            BY <1>1, <2>3, <3>1, <3>3 DEF Ignorant
        <3>4. QED BY <3>2, <3>3
    <2>6. QED BY <2>2, <2>4, <2>5 DEF Honest
<1>6. FilesInv'
    BY <1>3, <1>4 DEF FilesInv
<1>7. QED BY <1>5, <1>6

\* The version at p is at q now, or at both, or at neither.
LEMMA OldVersion ==
    ASSUME TypeInv, FilesInv, UNCHANGED <<env, clock>>, NEW p \in Paths, NEW q \in Paths, file' \in [Paths -> Files],
           \A x \in Paths \ {p, q} : file'[x] = file[x],
           Exists(p)' => Exists(p) /\ file'[p].mtime = file[p].mtime /\ file'[p].data = file[p].data
                         /\ (file[p].moved => file'[p].moved),
           Exists(q)' /\ p # q =>
              /\ Exists(p) /\ ~file[p].moved /\ file'[q].moved /\ (Exists(p)' => file'[p].moved)
              /\ file'[q].mtime = file[p].mtime /\ file'[q].data = file[p].data
    PROVE  FilesInv' /\ \A r \in Rows, x \in Paths : Honest(r, x) => Honest(r, x)'
<1>1. \A x \in Paths : x \notin {p, q} => file'[x] = file[x] /\ (Exists(x)' <=> Exists(x))
    BY DEF Exists
<1>2. \A x \in Paths : Exists(x)' => file'[x].mtime \in 1..clock /\ file'[x].data \in 1..clock
    BY <1>1 DEF FilesInv
<1>3. ASSUME NEW x \in Paths, NEW y \in Paths, x # y, Exists(x)', Exists(y)', ~file'[x].moved
      PROVE  file'[x].mtime # file'[y].mtime /\ file'[x].data # file'[y].data
    <2>1. CASE p # q /\ x = q
        BY <1>3, <2>1
    <2>2. CASE p # q /\ y = q /\ x # q
        <3>1. x # p
            BY <1>3, <2>2
        <3>2. Exists(p) /\ Exists(x) /\ file'[x] = file[x] /\ ~file[p].moved
              /\ file'[y].mtime = file[p].mtime /\ file'[y].data = file[p].data
            BY <1>1, <1>3, <2>2, <3>1
        <3>3. QED BY <2>2, <3>1, <3>2 DEF FilesInv
    <2>3. CASE p = q \/ (x # q /\ y # q)
        <3>1. \A z \in {x, y} : Exists(z) /\ file'[z].mtime = file[z].mtime /\ file'[z].data = file[z].data
                               /\ (file[z].moved => file'[z].moved)
            BY <1>1, <1>3, <2>3
        <3>2. ~file[x].moved
            BY <1>3, <3>1
        <3>3. QED BY <1>3, <3>1, <3>2 DEF FilesInv
    <2>4. QED BY <2>1, <2>2, <2>3
<1>4. ASSUME NEW r \in Rows, NEW x \in Paths, Honest(r, x) PROVE Honest(r, x)'
    <2>1. Old(r)'
        BY <1>4 DEF Honest, Old
    <2>2. Faithful(r, x)'
        <3>1. CASE x \notin {p, q} \/ x = p
            BY <1>1, <1>4, <3>1 DEF Honest, Faithful
        <3>2. CASE x = q /\ p # q
            <4>1. Ignorant(r, p)
                BY <1>4, <3>2 DEF Honest
            <4>2. QED BY <3>2, <4>1 DEF Faithful, Ignorant
        <3>3. QED BY <3>1, <3>2
    <2>3. ASSUME NEW o \in Paths \ {x} PROVE Ignorant(r, o)'
        <3>1. Ignorant(r, o)
            BY <1>4 DEF Honest
        <3>2. CASE o \notin {p, q} \/ o = p
            BY <1>1, <3>1, <3>2 DEF Ignorant
        <3>3. CASE o = q /\ p # q
            BY <3>3 DEF Ignorant
        <3>4. QED BY <3>2, <3>3
    <2>4. QED BY <2>1, <2>2, <2>3 DEF Honest
<1>5. FilesInv'
    BY <1>2, <1>3 DEF FilesInv
<1>6. QED BY <1>4, <1>5

\* A step of the file system keeps files distinct, and honest records honest.
LEMMA FileSystemVersions ==
    TypeInv /\ FilesInv /\ FileSystem
        => FilesInv' /\ \A r \in Rows, x \in Paths : Honest(r, x) => Honest(r, x)'
<1> SUFFICES ASSUME TypeInv, FilesInv, FileSystem
             PROVE  FilesInv' /\ \A r \in Rows, x \in Paths : Honest(r, x) => Honest(r, x)'
    OBVIOUS
<1>1. /\ file \in [Paths -> Files] /\ file' \in [Paths -> Files] /\ env.names \subseteq Paths
      /\ clock \in Nat /\ clock' \in 0..MaxClock /\ UNCHANGED env
    BY FileSystemType, NamesType, ContentIndexAssumption, SMTT(30) DEF TypeInv, TypeOK, FileSystem
<1>2. ASSUME NEW p \in Paths, WriteFile(p) \/ MoveIn(p)
      PROVE  FilesInv' /\ \A r \in Rows, x \in Paths : Honest(r, x) => Honest(r, x)'
    <2>1. PICK v \in {Version(clock + 1, clock + 1)} \cup
                      (IF Exists(p) THEN {[file[p] EXCEPT !.mtime = clock + 1]} ELSE {}) :
             file' = [file EXCEPT ![p] = v] /\ clock' = clock + 1
        BY <1>2 DEF WriteFile, MoveIn, Versions
    <2>2. v \in Files
        BY <1>1, <2>1
    <2>3. /\ v.mtime = clock + 1
          /\ \/ v.data = clock + 1 /\ v.moved = FALSE
             \/ Exists(p) /\ v.data = file[p].data /\ v.moved = file[p].moved
        BY <1>1, <2>1 DEF Version, Files
    <2>4. QED BY <1>1, <2>1, <2>2, <2>3, NewVersion
<1>3. ASSUME NEW p \in Paths, CloseFile(p) \/ DeleteFile(p) \/ MoveOut(p)
      PROVE  FilesInv' /\ \A r \in Rows, x \in Paths : Honest(r, x) => Honest(r, x)'
    <2>1. UNCHANGED clock /\ (file' = file \/ file' = [file EXCEPT ![p] = NoFile])
        BY <1>3 DEF CloseFile, DeleteFile, MoveOut, Vanish
    <2>2. /\ \A x \in Paths \ {p, p} : file'[x] = file[x]
          /\ Exists(p)' => Exists(p) /\ file'[p] = file[p]
        BY <1>1, <2>1 DEF Exists
    <2>3. QED BY <1>1, <2>1, <2>2, OldVersion
<1>4. ASSUME NEW p \in Paths, NEW q \in Paths, RenameFile(p, q) \/ LinkFile(p, q)
      PROVE  FilesInv' /\ \A r \in Rows, x \in Paths : Honest(r, x) => Honest(r, x)'
    <2>1. UNCHANGED clock /\ Exists(p) /\ ~file[p].moved /\ p # q
        BY <1>4 DEF RenameFile, LinkFile
    <2> DEFINE v == [file[p] EXCEPT !.moved = TRUE]
    <2>2. v.mtime = file[p].mtime /\ v.data = file[p].data /\ v.moved
        BY <1>1 DEF Files
    <2>3. file' = [file EXCEPT ![p] = NoFile, ![q] = v] \/ file' = [file EXCEPT ![p] = v, ![q] = v]
        BY <1>4 DEF RenameFile, LinkFile
    <2> HIDE DEF v
    <2>4. /\ \A x \in Paths \ {p, q} : file'[x] = file[x]
          /\ file'[q] = v /\ (file'[p] = NoFile \/ file'[p] = v)
        BY <1>1, <2>1, <2>3
    <2>5. /\ Exists(p)' => Exists(p) /\ file'[p].mtime = file[p].mtime /\ file'[p].data = file[p].data
                           /\ (file[p].moved => file'[p].moved)
          /\ Exists(q)' /\ p # q =>
                /\ Exists(p) /\ ~file[p].moved /\ file'[q].moved /\ (Exists(p)' => file'[p].moved)
                /\ file'[q].mtime = file[p].mtime /\ file'[q].data = file[p].data
        BY <2>1, <2>2, <2>4 DEF Exists
    <2>6. QED BY <1>1, <2>1, <2>4, <2>5, OldVersion
<1>5. QED BY <1>1, <1>2, <1>3, <1>4 DEF FileSystem

\* The records the worker makes from those it has.
LEMMA NoRowHonest == ASSUME TypeInv, FilesInv, NEW p \in Paths PROVE Honest(NoRow, p)
<1>1. clock \in Nat /\ NoRow.mtime = 0 /\ NoRow.hash = 0 /\ NoRow.body = 0 /\ NoRow.state = "none"
    BY ContentIndexAssumption DEF TypeInv, TypeOK, NoRow
<1>2. \A x \in Paths : Exists(x) => file[x].mtime # 0 /\ file[x].data # 0
    BY <1>1 DEF FilesInv
<1>3. QED BY <1>1, <1>2 DEF Honest, Old, Faithful, Ignorant, NoHash, NoBody

\* A record may lose its text.
LEMMA BodylessHonest ==
    ASSUME TypeInv, FilesInv, NEW p \in Paths, NEW r \in Rows, Honest(r, p)
    PROVE  Honest([r EXCEPT !.body = NoBody], p)
<1> DEFINE s == [r EXCEPT !.body = NoBody]
<1>1. clock \in Nat /\ s.mtime = r.mtime /\ s.hash = r.hash /\ s.body = 0 /\ s.state = r.state
    BY ContentIndexAssumption DEF TypeInv, TypeOK, Rows, NoBody
<1>2. \A x \in Paths : Exists(x) => file[x].data # 0
    BY <1>1 DEF FilesInv
<1> HIDE DEF s
<1>3. QED BY <1>1, <1>2 DEF Honest, Old, Faithful, Ignorant, NoHash, NoBody

\* A record of the file at hand: the time it was seen with, a hash that has nothing of
\* another file, and a body that the hash vouches for or that was read now.
LEMMA CurHonest ==
    ASSUME TypeInv, VersionInv, AtFile, NEW r \in Rows, r.mtime = seen.mtime,
           \/ Exists(cur) /\ r.hash = file[cur].data /\ r.hash = row[cur].hash /\ r.body = row[cur].body
           \/ r.hash = seen.hash /\ r.body \in {NoBody, file[cur].data},
           r.state = "Error" => ~Exists(cur) \/ "exterror" \in env.ops
    PROVE  Honest(r, cur)
<1>1. cur \in Paths /\ clock \in Nat
    BY CurType, ContentIndexAssumption DEF AtFile, TypeInv, TypeOK
<1>2. /\ Honest(row[cur], cur) /\ Honest(SeenRow, cur)
      /\ SeenRow.mtime = seen.mtime /\ SeenRow.hash = seen.hash
    BY <1>1 DEF VersionInv, SeenRow
<1>3. \A x \in Paths : Exists(x) => file[x].data \in 1..clock
    BY DEF VersionInv, FilesInv
<1>4. ~Exists(cur) => file[cur].data = 0
    BY DEF Exists, NoFile
<1>5. Old(r)
    BY <1>1, <1>2, <1>3, <1>4 DEF Honest, Old, NoBody
<1>6. Faithful(r, cur)
    BY <1>1, <1>2 DEF Honest, Faithful
<1>7. ASSUME NEW o \in Paths \ {cur}, Exists(o), ~file[o].moved
      PROVE  r.mtime # file[o].mtime /\ r.hash # file[o].data /\ r.body # file[o].data
    <2>1. Exists(cur) => file[cur].data # file[o].data
        BY <1>1, <1>7 DEF VersionInv, FilesInv
    <2>2. file[cur].data # file[o].data /\ file[o].data # NoBody
        BY <1>3, <1>4, <1>7, <2>1 DEF NoBody
    <2>3. /\ seen.mtime # file[o].mtime /\ seen.hash # file[o].data
          /\ row[cur].hash # file[o].data /\ row[cur].body # file[o].data
        BY <1>2, <1>7 DEF Honest, Ignorant
    <2>4. QED BY <2>2, <2>3
<1>8. QED BY <1>5, <1>6, <1>7 DEF Honest, Ignorant

\* A step of the worker leaves the files alone, so only the records it makes matter.
LEMMA VersionStep ==
    ASSUME TypeInv, VersionInv, UNCHANGED <<env, file, clock>>,
           \A p \in Paths : Honest(row'[p], p) /\ Honest(saved'[p], p),
           AtFile' => Honest([mtime |-> seen'.mtime, hash |-> seen'.hash,
                              body |-> NoBody, state |-> "none"], cur')
    PROVE  VersionInv'
BY DEF VersionInv, FilesInv, Exists, AtFile, Honest, Old, Faithful, Ignorant, SeenRow

\* index_file returning keeps the records honest.
LEMMA ReturnVersion ==
    ASSUME TypeInv, VersionInv, UNCHANGED <<env, file, clock>>, task \in {"crawl", "batch"},
           NEW r, Return(r), \A p \in Paths : Honest(r[p], p)
    PROVE  VersionInv'
<1>1. row' = r /\ (saved' = saved \/ saved' = r) /\ pc' \in {"batch", "crawl", "scan"}
    BY DEF Return
<1>2. ~AtFile' /\ \A p \in Paths : Honest(row'[p], p) /\ Honest(saved'[p], p)
    BY <1>1 DEF AtFile, VersionInv
<1>3. QED BY <1>2, VersionStep

\* A step of the worker keeps the records honest.
LEMMA WorkerVersion == TypeInv /\ VersionInv /\ Worker => VersionInv'
<1> SUFFICES ASSUME TypeInv, VersionInv, Worker PROVE VersionInv'
    OBVIOUS
<1>0. /\ UNCHANGED <<env, file, clock>> /\ FilesInv /\ task \in {"crawl", "batch"}
      /\ \A p \in Paths : row[p] \in Rows /\ saved[p] \in Rows /\ file[p] \in Files
      /\ \A p \in Paths : Honest(row[p], p) /\ Honest(saved[p], p) /\ Honest(NoRow, p)
      /\ row \in [Paths -> Rows]
    BY NoRowHonest DEF Worker, fsVars, VersionInv, TypeInv, TypeOK
<1>1. CASE Start \/ BeginPass \/ CrawlBegin \/ CrawlEnd \/ TakeBatch \/ BatchEnd
           \/ \E p \in Paths : CrawlFile(p) \/ ScanRow(p)
    <2>1. ~AtFile' /\ row' = row /\ saved' \in {row, saved}
        BY <1>1 DEF Start, BeginPass, CrawlBegin, AfterCap, CrawlEnd, TakeBatch, BatchEnd,
                    CrawlFile, ScanRow, AtFile
    <2>2. QED BY <1>0, <2>1, VersionStep
<1>2. CASE ClearDocs
    <2>1. ~AtFile' /\ saved' = row' /\ \A p \in Paths : row'[p] = [row[p] EXCEPT !.body = NoBody]
        BY <1>2 DEF ClearDocs, AtFile
    <2>2. \A p \in Paths : Honest([row[p] EXCEPT !.body = NoBody], p)
        BY <1>0, BodylessHonest
    <2>3. QED BY <1>0, <2>1, <2>2, VersionStep
<1>3. CASE ClearFiles \/ PurgeGone
    <2>1. ~AtFile' /\ saved' = row' /\ \A p \in Paths : row'[p] \in {row[p], NoRow}
        BY <1>3 DEF ClearFiles, PurgeGone, AtFile
    <2>2. \A p \in Paths : Honest(row'[p], p)
        BY <1>0, <2>1
    <2>3. QED BY <1>0, <2>1, <2>2, VersionStep
<1>4. CASE BatchItem
    <2>1. ~AtFile' /\ saved' = saved /\ row' \in {row, Removed}
        BY <1>4 DEF BatchItem, AtFile
    <2>2. \A p \in Paths : Removed[p] \in {row[p], NoRow}
        BY <1>0 DEF Removed
    <2>3. \A p \in Paths : Honest(row'[p], p)
        BY <1>0, <2>1, <2>2
    <2>4. QED BY <1>0, <2>1, <2>3, VersionStep
<1>5. CASE StatFile
    <2>1. cur \in Paths /\ clock \in Nat
        BY <1>5, CurType, ContentIndexAssumption DEF StatFile, TypeInv, TypeOK
    <2>2. CASE Return(Removed)
        <3>1. \A p \in Paths : Honest(Removed[p], p)
            BY <1>0 DEF Removed
        <3>2. QED BY <1>0, <2>2, <3>1, ReturnVersion
    <2>3. CASE Return(row)
        BY <1>0, <2>3, ReturnVersion
    <2>4. CASE ~Return(Removed) /\ ~Return(row)
        <3>1. /\ Exists(cur) /\ seen' = [mtime |-> file[cur].mtime, hash |-> NoHash] /\ cur' = cur
              /\ UNCHANGED <<row, saved>>
            BY <1>5, <2>4 DEF StatFile, cur
        <3> DEFINE s == [mtime |-> file[cur].mtime, hash |-> NoHash, body |-> NoBody, state |-> "none"]
        <3>2. Honest(s, cur)
            <4>1. \A x \in Paths : Exists(x) => file[x].mtime \in 1..clock /\ file[x].data \in 1..clock
                BY <1>0 DEF FilesInv
            <4>2. s.mtime = file[cur].mtime /\ s.hash = 0 /\ s.body = 0 /\ s.state = "none"
                BY DEF NoHash, NoBody
            <4> HIDE DEF s
            <4>3. Old(s) /\ Faithful(s, cur)
                BY <2>1, <3>1, <4>1, <4>2 DEF Old, Faithful, NoHash, NoBody
            <4>4. \A o \in Paths \ {cur} : Ignorant(s, o)
                BY <1>0, <2>1, <3>1, <4>1, <4>2 DEF Ignorant, FilesInv
            <4>5. QED BY <4>3, <4>4 DEF Honest
        <3>3. QED BY <1>0, <3>1, <3>2, VersionStep
    <2>5. QED BY <2>2, <2>3, <2>4
<1>6. CASE HashFile
    <2>1. AtFile /\ cur \in Paths /\ clock \in Nat /\ row[cur] \in Rows /\ seen.mtime \in 0..MaxClock
        BY <1>0, <1>6, CurType, ContentIndexAssumption DEF HashFile, AtFile, TypeInv, TypeOK
    <2>2. CASE SameHash(row[cur], file[cur].data)
        <3> DEFINE r == [row[cur] EXCEPT !.mtime = seen.mtime, !.state = "Indexed"]
        <3>1. r \in Rows /\ r.mtime = seen.mtime /\ r.hash = row[cur].hash /\ r.body = row[cur].body
              /\ r.state = "Indexed"
            BY <2>1 DEF Rows
        <3>2. row[cur].hash = file[cur].data /\ Exists(cur)
            BY <2>2 DEF SameHash, NoHash, Exists, NoFile
        <3>3. \A p \in Paths : Touched[p] = IF p = cur THEN r ELSE row[p]
            BY <1>0, <2>1 DEF Touched
        <3> HIDE DEF r
        <3>4. Honest(r, cur)
            BY <2>1, <3>1, <3>2, CurHonest
        <3>5. Return(Touched)
            BY <1>6, <2>2 DEF HashFile
        <3>6. \A p \in Paths : Honest(Touched[p], p)
            BY <1>0, <3>3, <3>4
        <3>7. QED BY <1>0, <3>5, <3>6, ReturnVersion
    <2>3. CASE ~SameHash(row[cur], file[cur].data)
        <3>1. seen' = [seen EXCEPT !.hash = file[cur].data] /\ cur' = cur /\ UNCHANGED <<row, saved>>
            BY <1>6, <2>3 DEF HashFile, cur
        <3>2. seen'.mtime = seen.mtime /\ seen'.hash = file[cur].data
            BY <3>1 DEF TypeInv, TypeOK
        <3> DEFINE s == [mtime |-> seen.mtime, hash |-> file[cur].data, body |-> NoBody, state |-> "none"]
        <3>3. Honest(s, cur)
            <4>1. \A x \in Paths : Exists(x) => file[x].data \in 1..clock
                BY <1>0 DEF FilesInv
            <4>2. ~Exists(cur) => file[cur].data = 0
                BY DEF Exists, NoFile
            <4>3. /\ s.mtime = seen.mtime /\ s.hash = file[cur].data /\ s.body = 0 /\ s.state = "none"
                  /\ Honest(SeenRow, cur) /\ SeenRow.mtime = seen.mtime
                BY <2>1 DEF NoBody, VersionInv, SeenRow
            <4> HIDE DEF s
            <4>4. Old(s) /\ Faithful(s, cur)
                BY <2>1, <4>1, <4>2, <4>3 DEF Honest, Old, Faithful, NoBody
            <4>5. ASSUME NEW o \in Paths \ {cur} PROVE Ignorant(s, o)
                <5>1. Ignorant(SeenRow, o)
                    BY <4>3 DEF Honest
                <5>2. Exists(o) /\ ~file[o].moved => file[cur].data # file[o].data /\ file[o].data # 0
                    BY <1>0, <2>1, <4>1, <4>2 DEF FilesInv
                <5>3. QED BY <4>3, <5>1, <5>2 DEF Ignorant
            <4>6. QED BY <4>4, <4>5 DEF Honest
        <3>4. QED BY <1>0, <3>1, <3>2, <3>3, VersionStep
    <2>4. QED BY <2>2, <2>3
<1>7. CASE ExtractFile
    <2>1. AtFile /\ cur \in Paths
        BY <1>7, CurType DEF ExtractFile, AtFile
    <2>2. PICK ok \in BOOLEAN : Return(Put(ok)) /\ (ok \/ ~Exists(cur) \/ "exterror" \in env.ops)
        BY <1>7 DEF ExtractFile
    <2>3. Put(ok) \in [Paths -> Rows]
        BY <1>7, CurType DEF ExtractFile
    <2>4. \A p \in Paths : Put(ok)[p] = IF p = cur THEN Record(seen.mtime, ok) ELSE row[p]
        BY <1>0, <2>1 DEF Put
    <2>5. Honest(Record(seen.mtime, ok), cur)
        <3>1. Record(seen.mtime, ok) \in Rows
            BY <2>1, <2>3, <2>4
        <3>2. Record(seen.mtime, ok).mtime = seen.mtime /\ Record(seen.mtime, ok).hash = seen.hash
              /\ Record(seen.mtime, ok).body \in {NoBody, file[cur].data}
              /\ (Record(seen.mtime, ok).state = "Error" => ~ok)
            BY DEF Record
        <3>3. QED BY <2>1, <2>2, <3>1, <3>2, CurHonest
    <2>6. \A p \in Paths : Honest(Put(ok)[p], p)
        BY <1>0, <2>4, <2>5
    <2>7. QED BY <1>0, <2>2, <2>6, ReturnVersion
<1>8. QED BY <1>1, <1>2, <1>3, <1>4, <1>5, <1>6, <1>7 DEF Worker

\* Every step keeps the records honest.
LEMMA NextVersion == TypeInv /\ VersionInv /\ [Next]_vars => VersionInv'
<1> SUFFICES ASSUME TypeInv, VersionInv, [Next]_vars PROVE VersionInv'
    OBVIOUS
<1>1. CASE UNCHANGED vars
    <2>1. UNCHANGED <<env, file, clock, row, saved, seen, batch, pc>>
        BY <1>1 DEF vars, fsVars, workVars
    <2>2. QED BY <2>1 DEF VersionInv, FilesInv, Exists, AtFile, Honest, Old, Faithful, Ignorant, SeenRow, cur
<1>2. CASE FileSystem
    <2>1. FilesInv' /\ \A r \in Rows, x \in Paths : Honest(r, x) => Honest(r, x)'
        BY <1>2, FileSystemVersions DEF VersionInv
    <2>2. UNCHANGED <<env, row, saved, seen, batch, pc>>
        BY <1>2 DEF FileSystem, workVars
    <2>3. \A x \in Paths : row[x] \in Rows /\ saved[x] \in Rows
        BY DEF TypeInv, TypeOK
    <2>4. AtFile => SeenRow \in Rows /\ cur \in Paths
        BY CurType, ContentIndexAssumption, SMTT(30) DEF AtFile, TypeInv, TypeOK, SeenRow, Rows, NoBody
    <2>5. ASSUME NEW s \in Rows, NEW c \in Paths, s = SeenRow, c = cur, AtFile
          PROVE  Honest(SeenRow, cur)'
        <3>1. Honest(s, c)
            BY <2>5 DEF VersionInv
        <3>2. Honest(s, c)'
            BY <2>1, <3>1
        <3>3. SeenRow' = s /\ cur' = c
            BY <2>2, <2>5 DEF SeenRow, cur
        <3>4. QED BY <3>2, <3>3 DEF Honest, Old, Faithful, Ignorant, Exists
    <2>6. AtFile' => Honest(SeenRow, cur)'
        BY <2>2, <2>4, <2>5 DEF AtFile
    <2>7. \A x \in Paths : Honest(row[x], x)' /\ Honest(saved[x], x)'
        <3>1. ASSUME NEW x \in Paths, NEW r \in Rows, r = row[x] \/ r = saved[x] PROVE Honest(r, x)'
            BY <2>1, <3>1 DEF VersionInv
        <3>2. ASSUME NEW x \in Paths, NEW r \in Rows, r = row[x] PROVE Honest(row[x], x)'
            BY <2>2, <3>1, <3>2 DEF Honest, Old, Faithful, Ignorant, Exists
        <3>3. ASSUME NEW x \in Paths, NEW r \in Rows, r = saved[x] PROVE Honest(saved[x], x)'
            BY <2>2, <3>1, <3>3 DEF Honest, Old, Faithful, Ignorant, Exists
        <3>4. QED BY <2>3, <3>2, <3>3
    <2>8. QED BY <2>1, <2>6, <2>7 DEF VersionInv
<1>3. CASE Watcher \/ Control
    <2>1. UNCHANGED <<env, file, clock, row, saved, seen, batch, pc>>
        BY <1>3 DEF Watcher, StartWatch, DrainEvent, DrainEnd, FlushPending, Control, fsVars, workVars
    <2>2. QED BY <2>1 DEF VersionInv, FilesInv, Exists, AtFile, Honest, Old, Faithful, Ignorant, SeenRow, cur
<1>4. CASE Crash
    <2>1. UNCHANGED <<env, file, clock>> /\ saved' = row' /\ row' \in {row, saved} /\ ~AtFile'
        BY <1>4 DEF Crash, Stop, fsVars, AtFile
    <2>2. QED BY <2>1, VersionStep DEF VersionInv
<1>5. QED BY <1>1, <1>2, <1>3, <1>4, WorkerVersion DEF Next

-----------------------------------------------------------------------------
(***************************************************************************)
(* A row that is wrong has something coming that will put it right.        *)
(***************************************************************************)

Work(p) == {Index(p), Remove(p)}
InHand(p) == AtFile /\ cur = p

\* The row of p, or the one about to be written, tells of another version of its file.
Stale(p) == Indexable(p) /\ (\/ row[p] # NoRow /\ row[p].mtime # file[p].mtime
                             \/ InHand(p) /\ seen.mtime # file[p].mtime)
\* There is a row of p, or one about to be written, and no file to index.
Orphan(p) == ~Indexable(p) /\ (row[p] # NoRow \/ InHand(p))

PassComing == reconcile \/ reindex \/ pc \in {"boot", "clear", "dropped", "begin"}

\* The batch will bring p up to date, unless its file changed since the worker looked at it.
Batched(p) == Holds(batch, Work(p)) /\ (InHand(p) => Indexable(p) /\ seen.mtime = file[p].mtime)

\* What will bring the row of p up to date: the program that has the file open, an event,
\* an item of work, the walk, or, where there is no cap, a pass.
Coming(p) ==
    \/ open[p]
    \/ Holds(kq, About(p))
    \/ Holds(pending, {p})
    \/ Holds(queue, Work(p))
    \/ Batched(p)
    \/ task = "crawl" /\ p \in todo
    \/ pc = "scan" /\ p \in gone
    \/ env.cap = 0 /\ (PassComing \/ Holds(kq, {Overflow}))

\* What will drop it if there is no file to index: any pass that has still to look.
Reclaimed(p) ==
    \/ Coming(p)
    \/ PassComing
    \/ task = "crawl"
    \/ pc = "scan" /\ p \in todo
    \/ Holds(kq, {Overflow})

SoundAt(p) == (Stale(p) => Coming(p)) /\ (Orphan(p) => Reclaimed(p))
SoundInv == \A p \in Paths \ Untold : SoundAt(p)

\* An excluded path is taken care of whatever the kernel says of it.
LEMMA ExcludedSound ==
    ASSUME TypeInv, ExclusionInv, NEW p \in excluded
    PROVE  ~Indexable(p) /\ (Orphan(p) =>
               PassComing \/ task = "crawl" \/ (pc = "scan" /\ p \in todo \cup gone))
BY DEF TypeInv, TypeOK, ExclusionInv, InPass, Orphan, InHand, AtFile, PassComing, Indexable, IsExcluded

\* What an event leaves behind when the watcher has drained it.
LEMMA DrainKeeps ==
    ASSUME TypeInv, DrainEvent, Head(kq) # Overflow, ~Skipped(Head(kq)), NEW p \in Paths
    PROVE  /\ Holds(kq, About(p)) \/ Holds(pending, {p}) \/ Holds(queue, Work(p))
                => Holds(kq', About(p)) \/ Holds(pending', {p}) \/ Holds(queue', Work(p))
           /\ Holds(kq, {Overflow}) => Holds(kq', {Overflow})
<1> DEFINE e == Head(kq)
<1>1. /\ kq \in Seq(Events) /\ kq # <<>> /\ kq' = Tail(kq) /\ e \in Events /\ pending \in Seq(Paths)
      /\ queue \in Seq(Items) /\ queue' = queue \o ItemsOf(e) /\ pending' = PendingAfter(e)
    BY DEF TypeInv, TypeOK, DrainEvent
<1>2. ItemsOf(e) \in Seq(Items)
    BY <1>1, ItemsType DEF TypeInv
<1> HIDE DEF e
<1>3. Holds(queue, Work(p)) \/ Holds(ItemsOf(e), Work(p)) => Holds(queue', Work(p))
    BY <1>1, <1>2, ConcatHolds
<1>4. /\ Holds(kq, About(p)) => e \in About(p) \/ Holds(kq', About(p))
      /\ Holds(kq, {Overflow}) => e \in {Overflow} \/ Holds(kq', {Overflow})
    BY <1>1, TailHolds DEF e
<1>6. Holds(<<Index(p)>>, Work(p)) /\ Holds(<<Remove(p)>>, Work(p))
    BY OneHolds, Zenon DEF Work
<1>a. ASSUME NEW s \in Seq(Items), NEW t \in Seq(Items)
      PROVE  Holds(s, Work(p)) \/ Holds(t, Work(p)) => Holds(s \o t, Work(p))
    BY ConcatHolds
<1>7. ASSUME e \in About(p) PROVE Holds(pending', {p}) \/ Holds(queue', Work(p))
    <2>1. e.path = p /\ e.mask \in {"close_write", "moved_to", "delete", "moved_from"}
        BY <1>7 DEF About, Leaves, Arrives
    <2>2. CASE e.mask = "close_write"
        <3>1. ItemsOf(e) = <<Index(p)>>
            BY <2>1, <2>2 DEF ItemsOf
        <3>2. QED BY <1>3, <1>6, <3>1, Zenon
    <2>3. CASE e.mask = "delete"
        <3>1. ItemsOf(e) = <<Remove(p)>>
            BY <2>1, <2>3 DEF ItemsOf
        <3>2. QED BY <1>3, <1>6, <3>1, Zenon
    <2>4. CASE e.mask = "moved_to"
        <3>1. ItemsOf(e) = (IF Paired(e) THEN <<Remove(Last(pending))>> ELSE <<>>) \o <<Index(p)>>
            BY <2>1, <2>4 DEF ItemsOf
        <3>2. Paired(e) => Remove(Last(pending)) \in Items
            BY <1>1 DEF Paired, Last, Remove, Items
        <3>3. (IF Paired(e) THEN <<Remove(Last(pending))>> ELSE <<>>) \in Seq(Items)
            BY <3>2
        <3>4. <<Index(p)>> \in Seq(Items)
            BY DEF Index, Items
        <3>5. Holds(ItemsOf(e), Work(p))
            <4> DEFINE s == IF Paired(e) THEN <<Remove(Last(pending))>> ELSE <<>>
            <4>1. s \in Seq(Items) /\ ItemsOf(e) = s \o <<Index(p)>>
                BY <3>1, <3>3
            <4> HIDE DEF s
            <4>2. Holds(s \o <<Index(p)>>, Work(p))
                BY <1>6, <1>a, <3>4, <4>1, Zenon
            <4>3. QED BY <4>1, <4>2, Zenon
        <3>6. QED BY <1>3, <3>5
    <2>5. CASE e.mask = "moved_from"
        <3>1. pending' = Append(pending, p)
            BY <1>1, <2>1, <2>5 DEF PendingAfter, Paired
        <3>2. Len(pending') \in DOMAIN pending' /\ pending'[Len(pending')] = p
            BY <1>1, <3>1
        <3>3. QED BY <3>2 DEF Holds
    <2>6. QED BY <2>1, <2>2, <2>3, <2>4, <2>5
<1>8. ASSUME Holds(pending, {p}) PROVE Holds(pending', {p}) \/ Holds(queue', Work(p))
    <2>1. CASE pending' = pending
        BY <1>8, <2>1
    <2>2. CASE \E q : pending' = Append(pending, q)
        <3>1. PICK i \in DOMAIN pending : pending[i] = p
            BY <1>8 DEF Holds
        <3>2. i \in DOMAIN pending' /\ pending'[i] = p
            BY <1>1, <2>2, <3>1
        <3>3. QED BY <3>2 DEF Holds
    <2>3. CASE Paired(e) /\ pending' = Front(pending)
        <3>1. PICK i \in DOMAIN pending : pending[i] = p
            BY <1>8 DEF Holds
        <3>2. CASE i = Len(pending)
            <4>1. ItemsOf(e) = <<Remove(p)>> \o <<Index(e.path)>>
                BY <2>3, <3>1, <3>2 DEF ItemsOf, Paired, Last
            <4>2. <<Remove(p)>> \in Seq(Items) /\ <<Index(e.path)>> \in Seq(Items)
                BY <1>1, <2>3 DEF Remove, Index, Items, Paired, Events
            <4>3. Holds(ItemsOf(e), Work(p))
                <5>1. Holds(<<Remove(p)>> \o <<Index(e.path)>>, Work(p))
                    BY <1>6, <1>a, <4>2, Zenon
                <5>2. QED BY <4>1, <5>1, Zenon
            <4>4. QED BY <1>3, <4>3
        <3>3. CASE i # Len(pending)
            <4>1. i \in DOMAIN pending' /\ pending'[i] = p
                BY <1>1, <2>3, <3>1, <3>3 DEF Front
            <4>2. QED BY <4>1 DEF Holds
        <3>4. QED BY <3>2, <3>3
    <2>4. \/ pending' = pending
          \/ \E q : pending' = Append(pending, q)
          \/ Paired(e) /\ pending' = Front(pending)
        BY <1>1, Zenon DEF PendingAfter, Paired
    <2>5. QED BY <2>1, <2>2, <2>3, <2>4
<1>9. e \notin {Overflow}
    BY DEF e
<1>10. QED BY <1>3, <1>4, <1>7, <1>8, <1>9

\* What is taken from the names pending is queued.
LEMMA FlushKeeps ==
    ASSUME TypeInv, FlushPending, NEW p \in Paths
    PROVE  Holds(pending, {p}) \/ Holds(queue, Work(p)) => Holds(pending', {p}) \/ Holds(queue', Work(p))
<1>1. /\ pending \in Seq(Paths) /\ pending # <<>> /\ queue \in Seq(Items) /\ pending' = Tail(pending)
      /\ queue' = Append(queue, Remove(Head(pending))) /\ Remove(Head(pending)) \in Items
    BY DEF TypeInv, TypeOK, Shape, FlushPending, Remove, Items
<1>2. queue' = queue \o <<Remove(Head(pending))>> /\ <<Remove(Head(pending))>> \in Seq(Items)
    BY <1>1
<1>a. Holds(queue, Work(p)) \/ Holds(<<Remove(Head(pending))>>, Work(p)) => Holds(queue', Work(p))
    <2> DEFINE t == <<Remove(Head(pending))>>
    <2>1. queue \in Seq(Items) /\ t \in Seq(Items) /\ queue' = queue \o t
        BY <1>1, <1>2
    <2> HIDE DEF t
    <2>2. Holds(queue, Work(p)) \/ Holds(t, Work(p)) => Holds(queue \o t, Work(p))
        BY <2>1, ConcatHolds
    <2>3. QED BY <2>1, <2>2 DEF t
<1>3. Holds(queue, Work(p)) => Holds(queue', Work(p))
    BY <1>a
<1>4. Holds(pending, {p}) => Head(pending) = p \/ Holds(pending', {p})
    BY <1>1, TailHolds
<1>5. Head(pending) = p => Holds(queue', Work(p))
    <2>1. Head(pending) = p => Holds(<<Remove(Head(pending))>>, Work(p))
        <3>1. Head(pending) = p => Remove(Head(pending)) \in Work(p)
            BY DEF Work
        <3>2. QED BY <3>1, OneHolds, Zenon
    <2>2. QED BY <1>a, <2>1
<1>6. QED BY <1>3, <1>4, <1>5

\* The file system tells what it changes, or it is among what was never told.
LEMMA FileSystemSound == TypeInv /\ SoundInv /\ FileSystem => SoundInv'
<1> SUFFICES ASSUME TypeInv, SoundInv, FileSystem, NEW p \in Paths, p \notin Untold' PROVE SoundAt(p)'
    BY DEF SoundInv
<1>1. /\ UNCHANGED <<env, wpc, pending, reconcile, reindex, queue, excluded>>
      /\ UNCHANGED <<pc, task, todo, gone, batch, seen, row>>
    BY DEF FileSystem, watchVars, flagVars, workVars
<1>2. env.cap \in Nat /\ kq \in Seq(Events)
    BY ContentIndexAssumption DEF TypeInv, TypeOK
<1>3. lost \subseteq lost' /\ missed \subseteq missed'
    BY FileSystemEffect DEF FileEffect
<1>4. PICK t \in Seq(Events) :
        Grown(t) /\ (\/ Same(p) /\ ~Holds(t, Leaves(p))
                     \/ open'[p]
                     \/ Told(p)' /\ (Exists(p)' => Came(p)'))
    BY FileSystemEffect DEF FileEffect
<1>5. p \notin Untold /\ p \notin missed' /\ (env.cap > 0 => p \notin lost')
    BY <1>1, <1>3 DEF Untold
<1>6. \A X : Holds(kq, X) => Holds(kq', X)
    BY <1>2, <1>4, ConcatHolds DEF Grown
<1>7. CASE open'[p]
    BY <1>7 DEF SoundAt, Coming, Reclaimed
<1>8. CASE Told(p)'
    <2>1. Holds(kq', About(p)) \/ (Holds(kq', {Overflow}) /\ env.cap = 0)
        BY <1>1, <1>2, <1>5, <1>8 DEF Told
    <2>2. QED BY <1>1, <2>1 DEF SoundAt, Coming, Reclaimed
<1>9. CASE Same(p)
    <2>1. SoundAt(p)
        BY <1>5 DEF SoundInv
    <2>2. (Stale(p)' => Stale(p)) /\ (Orphan(p)' => Orphan(p))
        BY <1>1, <1>9 DEF Stale, Orphan, Same, Indexable, IsExcluded, Exists, InHand, AtFile, cur
    <2>3. Batched(p) => Batched(p)'
        BY <1>1, <1>9 DEF Batched, Same, Indexable, IsExcluded, Exists, InHand, AtFile, cur
    <2>4. Coming(p) => Coming(p)'
        BY <1>1, <1>6, <1>9, <2>3 DEF Coming, Same, PassComing
    <2>5. Reclaimed(p) => Reclaimed(p)'
        BY <1>1, <1>6, <2>4 DEF Reclaimed, PassComing
    <2>6. QED BY <2>1, <2>2, <2>4, <2>5 DEF SoundAt
<1>10. QED BY <1>4, <1>7, <1>8, <1>9

\* What the watcher takes from the kernel it hands on.
LEMMA WatcherSound == TypeInv /\ ExclusionInv /\ SoundInv /\ Watcher => SoundInv'
<1> SUFFICES ASSUME TypeInv, ExclusionInv, SoundInv, Watcher, NEW p \in Paths, p \notin Untold'
             PROVE  SoundAt(p)'
    BY DEF SoundInv
<1>1. /\ UNCHANGED <<env, file, open, reindex, excluded, missed>>
      /\ UNCHANGED <<pc, task, todo, gone, batch, seen, row>>
      /\ reconcile => reconcile'
    BY DEF Watcher, StartWatch, DrainEvent, DrainEnd, FlushPending, fsVars, flagVars, workVars, history
<1>2. SoundAt(p)
    <2>1. lost \subseteq lost'
        BY DEF Watcher, StartWatch, DrainEvent, DrainEnd, FlushPending, history
    <2>2. QED BY <1>1, <2>1 DEF Untold, SoundInv
<1>3. (Stale(p)' <=> Stale(p)) /\ (Orphan(p)' <=> Orphan(p)) /\ (Batched(p) => Batched(p)')
    BY <1>1 DEF Stale, Orphan, Batched, Indexable, IsExcluded, Exists, InHand, AtFile, cur
<1>4. ASSUME Holds(kq, About(p)) \/ Holds(pending, {p}) \/ Holds(queue, Work(p))
                 => Holds(kq', About(p)) \/ Holds(pending', {p}) \/ Holds(queue', Work(p)),
             Holds(kq, {Overflow}) => Holds(kq', {Overflow}) \/ reconcile'
      PROVE  SoundAt(p)'
    <2>1. Coming(p) => Coming(p)'
        BY <1>1, <1>3, <1>4 DEF Coming, PassComing
    <2>2. Reclaimed(p) => Reclaimed(p)'
        BY <1>1, <1>4, <2>1 DEF Reclaimed, PassComing
    <2>3. QED BY <1>2, <1>3, <2>1, <2>2 DEF SoundAt
<1>5. CASE StartWatch \/ DrainEnd
    <2>1. UNCHANGED <<kq, pending, queue>>
        BY <1>5 DEF StartWatch, DrainEnd, flagVars
    <2>2. QED BY <1>4, <2>1
<1>6. CASE FlushPending
    BY <1>4, <1>6, FlushKeeps DEF FlushPending
<1>7. CASE DrainEvent
    <2>1. kq \in Seq(Events) /\ kq # <<>> /\ kq' = Tail(kq)
        BY <1>7 DEF DrainEvent, TypeInv, TypeOK
    <2>2. \A X : Holds(kq, X) => Head(kq) \in X \/ Holds(kq', X)
        BY <2>1, TailHolds
    <2>3. CASE Head(kq) = Overflow
        <3>1. reconcile' /\ UNCHANGED <<pending, queue>>
            BY <1>7, <2>3 DEF DrainEvent
        <3>2. Head(kq) \notin About(p)
            BY <2>3 DEF Overflow, About, Leaves, Arrives
        <3>3. QED BY <1>4, <2>2, <3>1, <3>2
    <2>4. CASE Head(kq) # Overflow /\ Skipped(Head(kq)) /\ Head(kq).path # p
        <3>1. UNCHANGED <<pending, queue>>
            BY <1>7, <2>4 DEF DrainEvent
        <3>2. Head(kq) \notin About(p) /\ Head(kq) \notin {Overflow}
            BY <2>4 DEF About, Leaves, Arrives
        <3>3. QED BY <1>4, <2>2, <3>1, <3>2
    <2>5. CASE Head(kq) # Overflow /\ Skipped(Head(kq)) /\ Head(kq).path = p
        <3>1. p \in excluded
            BY <2>5 DEF Skipped, IsExcluded
        <3>2. /\ ~Indexable(p)
              /\ Orphan(p) => PassComing \/ task = "crawl" \/ (pc = "scan" /\ p \in todo \cup gone)
            BY <3>1, ExcludedSound
        <3>3. QED BY <1>1, <1>3, <3>2 DEF SoundAt, Reclaimed, Coming, PassComing, Stale
    <2>6. CASE Head(kq) # Overflow /\ ~Skipped(Head(kq))
        BY <1>4, <1>7, <2>6, DrainKeeps
    <2>7. QED BY <2>3, <2>4, <2>5, <2>6
<1>8. QED BY <1>5, <1>6, <1>7 DEF Watcher

\* A request only adds to what is coming, and an exclusion brings a pass with it.
LEMMA ControlSound == TypeInv /\ SoundInv /\ Control => SoundInv'
<1> SUFFICES ASSUME TypeInv, SoundInv, Control, NEW p \in Paths, p \notin Untold' PROVE SoundAt(p)'
    BY DEF SoundInv
<1>1. /\ UNCHANGED <<env, file, open, clock, kq, wpc, pending>>
      /\ UNCHANGED <<pc, task, todo, gone, batch, seen, row, missed, lost, queue>>
    BY DEF Control, fsVars, watchVars, workVars, history, RequestReconcile, RequestReindex, AddRuntimeExclude
<1>2. (reconcile => reconcile') /\ (reindex => reindex')
    BY DEF Control, RequestReconcile, RequestReindex, AddRuntimeExclude
<1>3. SoundAt(p)
    BY <1>1 DEF Untold, SoundInv
<1>4. CASE UNCHANGED excluded
    <2>1. (Stale(p)' <=> Stale(p)) /\ (Orphan(p)' <=> Orphan(p)) /\ (Batched(p) => Batched(p)')
        BY <1>1, <1>4 DEF Stale, Orphan, Batched, Indexable, IsExcluded, Exists, InHand, AtFile, cur
    <2>2. Coming(p) => Coming(p)'
        BY <1>1, <1>2, <2>1 DEF Coming, PassComing
    <2>3. Reclaimed(p) => Reclaimed(p)'
        BY <1>1, <1>2, <2>2 DEF Reclaimed, PassComing
    <2>4. QED BY <1>3, <2>1, <2>2, <2>3 DEF SoundAt
<1>5. CASE \E q \in Paths : AddRuntimeExclude(q)
    <2>1. reconcile' /\ excluded \subseteq excluded'
        BY <1>5 DEF AddRuntimeExclude
    <2>2. Reclaimed(p)'
        BY <2>1 DEF Reclaimed, PassComing
    <2>3. CASE p \in excluded'
        BY <2>2, <2>3 DEF SoundAt, Stale, Indexable, IsExcluded
    <2>4. CASE p \notin excluded'
        <3>1. p \notin excluded
            BY <2>1, <2>4
        <3>2. (Stale(p)' <=> Stale(p)) /\ (Batched(p) => Batched(p)')
            BY <1>1, <2>4, <3>1 DEF Stale, Batched, Indexable, IsExcluded, Exists, InHand, AtFile, cur
        <3>3. Coming(p) => Coming(p)'
            BY <1>1, <1>2, <3>2 DEF Coming, PassComing
        <3>4. QED BY <1>3, <2>2, <3>2, <3>3 DEF SoundAt
    <2>5. QED BY <2>3, <2>4
<1>6. QED BY <1>4, <1>5, NamesType DEF Control, RequestReconcile, RequestReindex, TypeInv

\* index_file returning: the row of the file it is at is right, is gone, or has the time the
\* file was seen with.
LEMMA ReturnSound ==
    ASSUME TypeInv, ExclusionInv, PlaceInv, SoundInv, pc \in {"stat", "hash", "extract"},
           NEW r \in [Paths -> Rows], Return(r), UNCHANGED <<fsVars, kq, watchVars, lost>>,
           \A q \in Paths : q # cur => r[q] = row[q],
           r[cur] # NoRow => \/ Indexable(cur) /\ r[cur].mtime = file[cur].mtime
                             \/ AtFile /\ r[cur].mtime = seen.mtime
    PROVE  SoundInv'
<1> SUFFICES ASSUME NEW p \in Paths, p \notin Untold' PROVE SoundAt(p)'
    BY DEF SoundInv
<1>1. /\ UNCHANGED <<env, file, open, kq, pending, queue, reconcile, reindex, excluded, lost, gone>>
      /\ row' = r /\ batch' = Tail(batch)
    BY DEF Return, fsVars, watchVars, flagVars
<1>2. /\ batch \in Seq(Items) /\ batch # <<>> /\ Head(batch) \in Items /\ task \in {"crawl", "batch"}
      /\ cur \in Paths
    BY CurType DEF TypeInv, TypeOK, Shape
<1>3. /\ pc' \in {"batch", "crawl", "scan"} /\ missed \subseteq missed'
      /\ task = "batch" => UNCHANGED <<task, todo>>
    BY <1>2 DEF Return
<1>4. task = "crawl" => \/ task' = "crawl" /\ todo' = todo
                        \/ /\ pc' = "scan" /\ todo' = {q \in Paths : r[q] # NoRow} /\ p \notin todo
    <2>1. p \notin missed'
        BY DEF Untold
    <2>2. QED BY <2>1 DEF Return
<1>5. SoundAt(p) /\ ~AtFile'
    BY <1>1, <1>3 DEF Untold, SoundInv, AtFile
<1>6. p # cur => (Batched(p) => Batched(p)')
    <2>1. p # cur => Head(batch) \notin Work(p)
        BY <1>2 DEF Work, Index, Remove, cur
    <2>2. Holds(batch, Work(p)) => Head(batch) \in Work(p) \/ Holds(batch', Work(p))
        BY <1>1, <1>2, TailHolds
    <2>3. QED BY <1>5, <2>1, <2>2 DEF Batched, InHand
<1>7. Coming(p) /\ (p = cur => ~Batched(p)) => Coming(p)'
    BY <1>1, <1>3, <1>4, <1>6 DEF Coming, PassComing
<1>8. Reclaimed(p) /\ (p = cur => ~Batched(p)) /\ r[p] # NoRow => Reclaimed(p)'
    BY <1>1, <1>3, <1>4, <1>7 DEF Reclaimed, PassComing
<1>9. CASE p # cur
    <2>1. (Stale(p)' => Stale(p)) /\ (Orphan(p)' => Orphan(p) /\ r[p] # NoRow)
        BY <1>1, <1>5, <1>9 DEF Stale, Orphan, Indexable, IsExcluded, Exists, InHand
    <2>2. QED BY <1>5, <1>7, <1>8, <1>9, <2>1 DEF SoundAt
<1>10. CASE p = cur
    <2>1. (Stale(p)' => r[p] # NoRow) /\ (Orphan(p)' => r[p] # NoRow)
        BY <1>1, <1>5 DEF Stale, Orphan, InHand
    <2>2. (Indexable(p)' <=> Indexable(p)) /\ file' = file
        BY <1>1 DEF Indexable, IsExcluded, Exists
    <2>3. CASE Indexable(p) /\ r[p].mtime = file[p].mtime
        BY <1>1, <1>5, <2>2, <2>3 DEF SoundAt, Stale, Orphan, InHand
    <2>4. CASE AtFile /\ r[p].mtime = seen.mtime /\ ~(Indexable(p) /\ r[p].mtime = file[p].mtime)
        <3>1. InHand(p) /\ ~Batched(p)
            BY <1>10, <2>4 DEF InHand, Batched
        <3>2. (Stale(p)' => Stale(p)) /\ (Orphan(p)' => Orphan(p))
            BY <1>1, <1>5, <2>2, <2>4, <3>1 DEF Stale, Orphan, InHand
        <3>3. QED BY <1>5, <1>7, <1>8, <2>1, <3>1, <3>2 DEF SoundAt
    <2>5. QED BY <1>10, <2>1, <2>3, <2>4 DEF SoundAt
<1>11. QED BY <1>9, <1>10

\* A step of the worker puts a row right, or leaves what will.
LEMMA WorkerSound == TypeInv /\ ExclusionInv /\ PlaceInv /\ SoundInv /\ Worker => SoundInv'
<1> SUFFICES ASSUME TypeInv, ExclusionInv, PlaceInv, SoundInv, Worker PROVE SoundInv'
    OBVIOUS
<1> USE DEF flagVars
<1>0. /\ UNCHANGED <<fsVars, kq, watchVars, lost>>
      /\ UNCHANGED <<env, file, open, kq, pending, lost>>
      /\ batch \in Seq(Items) /\ queue \in Seq(Items) /\ task \in {"crawl", "batch"} /\ env.cap \in Nat
      /\ row \in [Paths -> Rows]
    BY ContentIndexAssumption DEF Worker, fsVars, watchVars, TypeInv, TypeOK
<1>a. \A p \in Paths : SoundAt(p) => (Stale(p) => Coming(p)) /\ (Orphan(p) => Reclaimed(p))
    BY DEF SoundAt
\* A step that changes no row and stays away from the files, and what of a path it keeps.
<1>b. ASSUME ~AtFile', NEW p \in Paths, SoundAt(p), excluded' = excluded,
             row'[p] # NoRow => row[p] # NoRow /\ row'[p].mtime = row[p].mtime,
             Coming(p) => Coming(p)' \/ ~Indexable(p), Reclaimed(p) /\ row'[p] # NoRow => Reclaimed(p)'
      PROVE  SoundAt(p)'
    <2>1. (Indexable(p)' <=> Indexable(p)) /\ file' = file
        BY <1>0, <1>b DEF Indexable, IsExcluded, Exists
    <2>2. (Stale(p)' => Stale(p)) /\ (Orphan(p)' => Orphan(p) /\ row'[p] # NoRow)
        BY <1>b, <2>1 DEF Stale, Orphan, InHand
    <2>3. Stale(p) => Indexable(p)
        BY DEF Stale
    <2>4. QED BY <1>b, <2>2, <2>3 DEF SoundAt
<1>1. CASE Start \/ BeginPass \/ ClearDocs
    <2>1. /\ ~AtFile' /\ pc' \in {"boot", "clear", "begin", "dropped"} /\ pc # "scan"
          /\ UNCHANGED <<queue, excluded, task, todo, gone, batch, missed>>
        BY <1>1 DEF Start, BeginPass, ClearDocs, AtFile
    <2>2. ASSUME NEW p \in Paths, p \notin Untold' PROVE SoundAt(p)'
        <3>1. SoundAt(p)
            BY <1>0, <2>1, <2>2 DEF Untold, SoundInv
        <3>2. row'[p] # NoRow => row[p] # NoRow /\ row'[p].mtime = row[p].mtime
            <4>1. CASE row' = row
                BY <4>1
            <4>2. CASE ClearDocs
                <5>1. row'[p] = [row[p] EXCEPT !.body = NoBody] /\ row[p] \in Rows
                    BY <1>0, <4>2 DEF ClearDocs
                <5>2. row[p] = NoRow => row'[p] = NoRow
                    BY <5>1 DEF NoRow, NoBody
                <5>3. QED BY <5>1, <5>2 DEF Rows
            <4>3. QED BY <1>1, <4>1, <4>2 DEF Start, BeginPass
        <3>3. PassComing'
            BY <2>1 DEF PassComing
        <3>4. Batched(p) => Batched(p)'
            BY <2>1 DEF Batched, InHand
        <3>5. Coming(p) => Coming(p)'
            BY <1>0, <2>1, <3>3, <3>4 DEF Coming
        <3>6. Reclaimed(p)'
            BY <3>3 DEF Reclaimed
        <3>7. QED BY <1>b, <2>1, <3>1, <3>2, <3>5, <3>6
    <2>3. QED BY <2>2 DEF SoundInv
<1>2. CASE ClearFiles
    <2>1. ~AtFile' /\ \A p \in Paths : row'[p] = NoRow
        BY <1>2 DEF ClearFiles, AtFile
    <2>2. QED BY <2>1 DEF SoundInv, SoundAt, Stale, Orphan, InHand
<1>3. CASE CrawlBegin
    <2>1. ~AtFile' /\ task = "batch" /\ UNCHANGED <<queue, reconcile, reindex, excluded, gone, batch, row>>
          /\ pc = "begin" /\ pc' \in {"scan", "crawl"}
        BY <1>0, <1>3 DEF CrawlBegin, AfterCap, AtFile, ExclusionInv
    <2>2. CASE OverCap
        <3>1. env.cap > 0 /\ pc' = "scan" /\ todo' = Indexed /\ UNCHANGED <<task, missed>>
            BY <1>3, <2>2 DEF CrawlBegin, AfterCap, OverCap
        <3>2. ASSUME NEW p \in Paths, p \notin Untold' PROVE SoundAt(p)'
            <4>1. SoundAt(p)
                BY <1>0, <3>1, <3>2 DEF Untold, SoundInv
            <4>2. Batched(p) => Batched(p)'
                BY <2>1 DEF Batched, InHand
            <4>3. Coming(p) => Coming(p)'
                BY <1>0, <2>1, <3>1, <4>2 DEF Coming
            <4>4. row'[p] # NoRow => Reclaimed(p)'
                BY <2>1, <3>1 DEF Reclaimed, Indexed
            <4>5. QED BY <1>b, <2>1, <4>1, <4>3, <4>4
        <3>3. QED BY <3>2 DEF SoundInv
    <2>3. CASE ~OverCap
        <3>1. pc' = "crawl" /\ task' = "crawl" /\ todo' = {p \in Paths : Exists(p)}
            BY <1>3, <2>3 DEF CrawlBegin
        <3>2. ASSUME NEW p \in Paths PROVE Exists(p)' => Coming(p)'
            BY <1>0, <3>1 DEF Coming, Exists
        <3>3. QED BY <3>1, <3>2 DEF SoundInv, SoundAt, Stale, Indexable, Reclaimed
    <2>4. QED BY <2>2, <2>3
<1>4. CASE \E q \in Paths : CrawlFile(q)
    <2>1. PICK q \in Paths : CrawlFile(q)
        BY <1>4
    <2>2. /\ ~AtFile' /\ pc = "crawl" /\ task = "crawl" /\ batch = <<>> /\ todo' = todo \ {q}
          /\ UNCHANGED <<queue, reconcile, reindex, excluded, gone, row, task, missed>>
          /\ pc' \in {"crawl", "stat"}
        BY <2>1 DEF CrawlFile, AtFile, ExclusionInv, PlaceInv
    <2>3. \A p : ~Batched(p)
        BY <2>2, NoneHolds DEF Batched
    <2>4. ~IsExcluded(q) => Batched(q)'
        <3>1. ~IsExcluded(q) => batch' = <<Index(q)>>
            BY <2>1 DEF CrawlFile
        <3>2. Holds(<<Index(q)>>, Work(q))
            BY OneHolds, Zenon DEF Work
        <3>3. Work(q)' = Work(q)
            BY DEF Work, Index, Remove
        <3>4. QED BY <2>2, <3>1, <3>2, <3>3 DEF Batched, InHand
    <2>5. ASSUME NEW p \in Paths, p \notin Untold' PROVE SoundAt(p)'
        <3>1. SoundAt(p)
            BY <1>0, <2>2, <2>5 DEF Untold, SoundInv
        <3>2. Coming(p) => Coming(p)' \/ ~Indexable(p)
            BY <1>0, <2>2, <2>3, <2>4 DEF Coming, PassComing, Indexable
        <3>3. Reclaimed(p)'
            BY <2>2 DEF Reclaimed
        <3>4. QED BY <1>b, <2>2, <3>1, <3>2, <3>3
    <2>6. QED BY <2>5 DEF SoundInv
<1>5. CASE CrawlEnd
    <2>1. /\ ~AtFile' /\ todo = {} /\ pc = "crawl" /\ pc' = "scan" /\ todo' = Indexed
          /\ UNCHANGED <<queue, reconcile, reindex, excluded, gone, row, batch, missed>>
        BY <1>5 DEF CrawlEnd, AtFile
    <2>2. ASSUME NEW p \in Paths, p \notin Untold' PROVE SoundAt(p)'
        <3>1. SoundAt(p)
            BY <1>0, <2>1, <2>2 DEF Untold, SoundInv
        <3>2. Batched(p) => Batched(p)'
            BY <2>1 DEF Batched, InHand
        <3>3. Coming(p) => Coming(p)'
            BY <1>0, <2>1, <3>2 DEF Coming, PassComing
        <3>4. row'[p] # NoRow => Reclaimed(p)'
            BY <2>1 DEF Reclaimed, Indexed
        <3>5. QED BY <1>b, <2>1, <3>1, <3>3, <3>4
    <2>3. QED BY <2>2 DEF SoundInv
<1>6. CASE StatFile
    <2>1. cur \in Paths /\ Removed \in [Paths -> Rows] /\ pc = "stat"
        BY <1>6, CurType DEF StatFile
    <2>2. CASE ~Exists(cur) \/ IsExcluded(cur)
        <3>0. Return(Removed)
            BY <1>6, <2>2 DEF StatFile
        <3>1. Removed[cur] = NoRow /\ \A q \in Paths : q # cur => Removed[q] = row[q]
            BY <1>0, <2>1 DEF Removed
        <3>2. QED BY <1>0, <2>1, <3>0, <3>1, ReturnSound
    <2>3. CASE Indexable(cur) /\ Unchanged(row[cur], file[cur])
        <3>1. Return(row)
            BY <1>6, <2>3 DEF StatFile, Indexable
        <3>2. Indexable(cur) /\ row[cur].mtime = file[cur].mtime
            BY <2>3 DEF Unchanged
        <3>3. QED BY <1>0, <2>1, <3>1, <3>2, ReturnSound
    <2>4. CASE Indexable(cur) /\ ~Unchanged(row[cur], file[cur])
        <3>1. /\ Exists(cur) /\ ~IsExcluded(cur) /\ pc' = "hash"
              /\ seen' = [mtime |-> file[cur].mtime, hash |-> NoHash]
              /\ UNCHANGED <<task, todo, gone, batch, queue, reconcile, reindex, excluded, row, missed>>
            BY <1>6, <2>4 DEF StatFile, Indexable
        <3>2. seen'.mtime = file[cur].mtime /\ cur' = cur /\ Indexable(cur) /\ ~AtFile
            BY <2>1, <3>1 DEF cur, Indexable, AtFile
        <3>3. ASSUME NEW p \in Paths, p \notin Untold' PROVE SoundAt(p)'
            <4>1. SoundAt(p)
                BY <1>0, <3>1, <3>3 DEF Untold, SoundInv
            <4>2. (Indexable(p)' <=> Indexable(p)) /\ (InHand(p)' => p = cur) /\ file' = file
                BY <1>0, <3>1, <3>2 DEF Indexable, IsExcluded, Exists, InHand
            <4>3. Batched(p) => Batched(p)'
                BY <3>1, <3>2, <4>2 DEF Batched
            <4>4. (Stale(p)' => Stale(p)) /\ (Orphan(p)' => Orphan(p))
                BY <3>1, <3>2, <4>2 DEF Stale, Orphan
            <4>5. Coming(p) => Coming(p)'
                BY <1>0, <2>1, <3>1, <4>3 DEF Coming, PassComing
            <4>6. Reclaimed(p) => Reclaimed(p)'
                BY <1>0, <2>1, <3>1, <4>5 DEF Reclaimed, PassComing
            <4>7. QED BY <4>1, <4>4, <4>5, <4>6 DEF SoundAt
        <3>4. QED BY <3>3 DEF SoundInv
    <2>5. QED BY <2>2, <2>3, <2>4 DEF Indexable
<1>7. CASE HashFile
    <2>1. cur \in Paths /\ Touched \in [Paths -> Rows] /\ pc = "hash" /\ AtFile
        BY <1>7, CurType DEF HashFile, AtFile
    <2>2. CASE Return(Touched)
        <3>1. Touched[cur].mtime = seen.mtime /\ \A q \in Paths : q # cur => Touched[q] = row[q]
            <4>1. row[cur] \in Rows
                BY <1>0, <2>1
            <4>2. [row[cur] EXCEPT !.mtime = seen.mtime, !.state = "Indexed"].mtime = seen.mtime
                BY <4>1 DEF Rows
            <4>3. QED BY <1>0, <2>1, <4>2 DEF Touched
        <3>2. QED BY <1>0, <2>1, <2>2, <3>1, ReturnSound
    <2>3. CASE ~Return(Touched)
        <3>1. /\ pc' = "extract" /\ seen' = [seen EXCEPT !.hash = file[cur].data]
              /\ UNCHANGED <<task, todo, gone, batch, queue, reconcile, reindex, excluded, row, missed>>
            BY <1>7, <2>3 DEF HashFile
        <3>2. seen'.mtime = seen.mtime /\ cur' = cur
            BY <3>1 DEF TypeInv, TypeOK, cur
        <3>3. ASSUME NEW p \in Paths, p \notin Untold' PROVE SoundAt(p)'
            <4>1. SoundAt(p)
                BY <1>0, <3>1, <3>3 DEF Untold, SoundInv
            <4>2. (Indexable(p)' <=> Indexable(p)) /\ (InHand(p)' <=> InHand(p)) /\ file' = file
                BY <1>0, <2>1, <3>1, <3>2 DEF Indexable, IsExcluded, Exists, InHand, AtFile
            <4>3. Batched(p) => Batched(p)'
                BY <3>1, <3>2, <4>2 DEF Batched
            <4>4. (Stale(p)' => Stale(p)) /\ (Orphan(p)' => Orphan(p))
                BY <3>1, <3>2, <4>2 DEF Stale, Orphan
            <4>5. Coming(p) => Coming(p)'
                BY <1>0, <2>1, <3>1, <4>3 DEF Coming, PassComing
            <4>6. Reclaimed(p) => Reclaimed(p)'
                BY <1>0, <2>1, <3>1, <4>5 DEF Reclaimed, PassComing
            <4>7. QED BY <4>1, <4>4, <4>5, <4>6 DEF SoundAt
        <3>4. QED BY <3>3 DEF SoundInv
    <2>4. QED BY <2>2, <2>3
<1>8. CASE ExtractFile
    <2>1. cur \in Paths /\ pc = "extract" /\ AtFile
        BY <1>8, CurType DEF ExtractFile, AtFile
    <2>2. PICK ok \in BOOLEAN : Return(Put(ok))
        BY <1>8 DEF ExtractFile
    <2>3. Put(ok) \in [Paths -> Rows]
        BY <1>8, CurType DEF ExtractFile
    <2>4. Put(ok)[cur].mtime = seen.mtime /\ \A q \in Paths : q # cur => Put(ok)[q] = row[q]
        BY <1>0, <2>1 DEF Put, Record
    <2>5. QED BY <1>0, <2>1, <2>2, <2>3, <2>4, ReturnSound
<1>9. CASE \E q \in Paths : ScanRow(q)
    <2>1. PICK q \in Paths : ScanRow(q)
        BY <1>9
    <2>2. /\ ~AtFile' /\ pc = "scan" /\ pc' = "scan" /\ task = "batch" /\ todo' = todo \ {q}
          /\ gone' = (IF ~Exists(q) \/ IsExcluded(q) THEN gone \cup {q} ELSE gone)
          /\ UNCHANGED <<queue, reconcile, reindex, excluded, row, task, batch, missed>>
        BY <1>0, <2>1 DEF ScanRow, AtFile, ExclusionInv
    <2>3. ASSUME NEW p \in Paths, p \notin Untold' PROVE SoundAt(p)'
        <3>1. SoundAt(p)
            BY <1>0, <2>2, <2>3 DEF Untold, SoundInv
        <3>2. Batched(p) => Batched(p)'
            BY <2>2 DEF Batched, InHand
        <3>3. gone \subseteq gone' /\ (~Indexable(q) => q \in gone')
            BY <2>2 DEF Indexable
        <3>4. Coming(p) => Coming(p)'
            BY <1>0, <2>2, <3>2, <3>3 DEF Coming, PassComing
        <3>5. CASE Indexable(p)
            <4>1. (Indexable(p)' <=> Indexable(p)) /\ file' = file
                BY <1>0, <2>2 DEF Indexable, IsExcluded, Exists
            <4>2. Stale(p)' => Stale(p)
                BY <2>2, <4>1 DEF Stale, InHand
            <4>3. QED BY <3>1, <3>4, <3>5, <4>1, <4>2 DEF SoundAt, Orphan
        <3>6. CASE ~Indexable(p)
            <4>1. Reclaimed(p) => Reclaimed(p)'
                <5>1. p = q => Coming(p)'
                    BY <2>2, <3>3, <3>6 DEF Coming
                <5>2. p # q => (p \in todo => p \in todo')
                    BY <2>2
                <5>3. QED BY <1>0, <2>2, <3>4, <5>1, <5>2 DEF Reclaimed, PassComing
            <4>2. QED BY <1>b, <2>2, <3>1, <3>4, <4>1
        <3>7. QED BY <3>5, <3>6
    <2>4. QED BY <2>3 DEF SoundInv
<1>10. CASE PurgeGone
    <2>1. /\ ~AtFile' /\ pc = "scan" /\ pc' = "idle" /\ task = "batch" /\ todo = {}
          /\ \A p \in Paths : row'[p] = IF p \in gone THEN NoRow ELSE row[p]
          /\ UNCHANGED <<queue, reconcile, reindex, excluded, task, todo, batch, missed>>
        BY <1>0, <1>10 DEF PurgeGone, AtFile, ExclusionInv
    <2>2. ASSUME NEW p \in Paths, p \notin Untold' PROVE SoundAt(p)'
        <3>1. SoundAt(p)
            BY <1>0, <2>1, <2>2 DEF Untold, SoundInv
        <3>2. CASE row'[p] = NoRow
            BY <2>1, <3>2 DEF SoundAt, Stale, Orphan, InHand
        <3>3. CASE row'[p] # NoRow
            <4>1. p \notin gone /\ row'[p] = row[p]
                BY <2>1, <3>3
            <4>2. Batched(p) => Batched(p)'
                BY <2>1 DEF Batched, InHand
            <4>3. Coming(p) => Coming(p)'
                BY <1>0, <2>1, <4>1, <4>2 DEF Coming, PassComing
            <4>4. Reclaimed(p) => Reclaimed(p)'
                BY <1>0, <2>1, <4>3 DEF Reclaimed, PassComing
            <4>5. QED BY <1>b, <2>1, <3>1, <4>1, <4>3, <4>4
        <3>4. QED BY <3>2, <3>3
    <2>3. QED BY <2>2 DEF SoundInv
<1>11. CASE TakeBatch
    <2>1. /\ ~AtFile' /\ pc = "idle" /\ pc' = "batch" /\ batch = <<>>
          /\ UNCHANGED <<reconcile, reindex, excluded, task, todo, gone, row, missed>>
        BY <1>11 DEF TakeBatch, AtFile, PlaceInv
    <2>2. batch' \in Seq(Items) /\ queue' \in Seq(Items) /\ queue = batch' \o queue'
        BY <1>0, <1>11, TakeSplits
    <2>3. ASSUME NEW p \in Paths, p \notin Untold' PROVE SoundAt(p)'
        <3>1. SoundAt(p)
            BY <1>0, <2>1, <2>3 DEF Untold, SoundInv
        <3>2. Holds(queue, Work(p)) => Batched(p)' \/ Holds(queue', Work(p))
            <4>1. Holds(batch' \o queue', Work(p)) => Holds(batch', Work(p)) \/ Holds(queue', Work(p))
                BY <2>2, ConcatHolds
            <4>2. QED BY <2>1, <2>2, <4>1 DEF Batched, InHand, Work, Index, Remove
        <3>3. ~Batched(p)
            BY <2>1, NoneHolds DEF Batched
        <3>4. Coming(p) => Coming(p)'
            BY <1>0, <2>1, <3>2, <3>3 DEF Coming, PassComing
        <3>5. Reclaimed(p) => Reclaimed(p)'
            BY <1>0, <2>1, <3>4 DEF Reclaimed, PassComing
        <3>6. QED BY <1>b, <2>1, <3>1, <3>4, <3>5
    <2>4. QED BY <2>3 DEF SoundInv
<1>12. CASE BatchItem
    <2>1. /\ ~AtFile' /\ pc = "batch" /\ pc' \in {"batch", "stat"} /\ batch # <<>>
          /\ UNCHANGED <<queue, reconcile, reindex, excluded, task, todo, gone, missed>>
          /\ UNCHANGED <<row, batch>> \/ (row' = Removed /\ batch' = Tail(batch))
        BY <1>12 DEF BatchItem, AtFile
    <2>2. cur \in Paths /\ Head(batch) \in Items
        <3>1. Head(batch) \in Items
            BY <1>0, <2>1
        <3>2. QED BY <3>1 DEF cur, Items
    <2>3. \A p \in Paths : row'[p] = row[p] \/ (row'[p] = NoRow /\ p = cur)
        BY <1>0, <2>1 DEF Removed
    <2>4. ASSUME NEW p \in Paths, p \notin Untold' PROVE SoundAt(p)'
        <3>1. SoundAt(p)
            BY <1>0, <2>1, <2>4 DEF Untold, SoundInv
        <3>2. CASE row'[p] = NoRow
            BY <2>1, <3>2 DEF SoundAt, Stale, Orphan, InHand
        <3>3. CASE row'[p] # NoRow
            <4>1. batch' = batch \/ (batch' = Tail(batch) /\ p # cur)
                BY <1>0, <2>1, <2>2, <3>3 DEF Removed
            <4>2. p # cur => Head(batch) \notin Work(p)
                BY <2>2 DEF Work, Index, Remove, cur
            <4>3. Holds(batch, Work(p)) => Head(batch) \in Work(p) \/ Holds(Tail(batch), Work(p))
                BY <1>0, <2>1, TailHolds
            <4>4. Batched(p) => Batched(p)'
                BY <2>1, <4>1, <4>2, <4>3 DEF Batched, InHand, Work, Index, Remove
            <4>5. Coming(p) => Coming(p)'
                BY <1>0, <2>1, <4>4 DEF Coming, PassComing
            <4>6. Reclaimed(p) => Reclaimed(p)'
                BY <1>0, <2>1, <4>5 DEF Reclaimed, PassComing
            <4>7. QED BY <1>b, <2>1, <2>3, <3>1, <3>3, <4>5, <4>6
        <3>4. QED BY <3>2, <3>3
    <2>5. QED BY <2>4 DEF SoundInv
<1>13. CASE BatchEnd
    <2>1. /\ ~AtFile' /\ pc = "batch" /\ pc' = "idle"
          /\ UNCHANGED <<queue, reconcile, reindex, excluded, task, todo, gone, batch, row, missed>>
        BY <1>13 DEF BatchEnd, AtFile
    <2>2. ASSUME NEW p \in Paths, p \notin Untold' PROVE SoundAt(p)'
        <3>1. SoundAt(p)
            BY <1>0, <2>1, <2>2 DEF Untold, SoundInv
        <3>2. Batched(p) => Batched(p)'
            BY <2>1 DEF Batched, InHand
        <3>3. Coming(p) => Coming(p)'
            BY <1>0, <2>1, <3>2 DEF Coming, PassComing
        <3>4. Reclaimed(p) => Reclaimed(p)'
            BY <1>0, <2>1, <3>3 DEF Reclaimed, PassComing
        <3>5. QED BY <1>b, <2>1, <3>1, <3>3, <3>4
    <2>3. QED BY <2>2 DEF SoundInv
<1>14. QED
    BY <1>1, <1>2, <1>3, <1>4, <1>5, <1>6, <1>7, <1>8, <1>9, <1>10, <1>11, <1>12, <1>13 DEF Worker

\* Every step leaves a wrong row with something coming.
LEMMA NextSound == TypeInv /\ ExclusionInv /\ PlaceInv /\ SoundInv /\ [Next]_vars => SoundInv'
<1> SUFFICES ASSUME TypeInv, ExclusionInv, PlaceInv, SoundInv, [Next]_vars PROVE SoundInv'
    OBVIOUS
<1>1. CASE UNCHANGED vars
    <2>1. /\ UNCHANGED <<env, file, open, kq, pending, queue, reconcile, reindex, excluded, pc, task>>
          /\ UNCHANGED <<todo, gone, batch, seen, row, missed, lost>>
        BY <1>1 DEF vars, fsVars, watchVars, flagVars, workVars, history
    <2>2. \A p \in Paths : SoundAt(p) => SoundAt(p)'
        BY <2>1 DEF SoundAt, Stale, Orphan, Reclaimed, Coming, Batched, PassComing, Indexable,
                    IsExcluded, Exists, InHand, AtFile, cur
    <2>3. QED BY <2>1, <2>2 DEF SoundInv, Untold
<1>2. CASE Crash
    <2>1. missed' = Paths
        BY <1>2 DEF Crash, Stop
    <2>2. QED BY <2>1 DEF SoundInv, Untold
<1>3. QED BY <1>1, <1>2, FileSystemSound, WatcherSound, ControlSound, WorkerSound DEF Next

-----------------------------------------------------------------------------
(***************************************************************************)
(* A removal of a file that is there has its indexing behind it.           *)
(***************************************************************************)

Arriving(p) == open[p] \/ Holds(kq, Arrives(p))
Queuing(p) == Arriving(p) \/ Holds(queue, {Index(p)})

\* Wherever the news that p has gone has got to, the news that it is there comes after.
RemoveAt(p) == Indexable(p) =>
    /\ open[p] \/ Followed(kq, Leaves(p), Arrives(p))
    /\ Holds(pending, {p}) => Arriving(p)
    /\ Arriving(p) \/ Followed(queue, {Remove(p)}, {Index(p)})
    /\ Queuing(p) \/ Followed(batch, {Remove(p)}, {Index(p)})
RemoveInv == \A p \in Paths \ lost : RemoveAt(p)

\* What arrives is told of behind what left.
LEMMA FileSystemRemove == TypeInv /\ PlaceInv /\ PlaceInv' /\ RemoveInv /\ FileSystem => RemoveInv'
<1> SUFFICES ASSUME TypeInv, PlaceInv, PlaceInv', RemoveInv, FileSystem, NEW p \in Paths,
                    p \notin lost', Indexable(p)'
             PROVE  RemoveAt(p)'
    BY DEF RemoveInv, RemoveAt
<1>1. UNCHANGED <<wpc, pending, queue, excluded, batch>> /\ Exists(p)'
    BY DEF FileSystem, watchVars, flagVars, workVars, Indexable
<1>2. /\ kq \in Seq(Events) /\ kq' \in Seq(Events) /\ queue \in Seq(Items) /\ batch \in Seq(Items)
      /\ pending \in Seq(Paths)
    BY FileSystemType DEF TypeInv, TypeOK
<1>3. p \notin lost
    BY FileSystemEffect DEF FileEffect
<1>4. PICK t \in Seq(Events) :
        Grown(t) /\ (\/ Same(p) /\ ~Holds(t, Leaves(p))
                     \/ open'[p]
                     \/ Told(p)' /\ (Exists(p)' => Came(p)'))
    BY FileSystemEffect DEF FileEffect
<1>5. (\A X : Holds(kq, X) => Holds(kq', X)) /\ kq' = kq \o t
    BY <1>2, <1>4, ConcatHolds DEF Grown
<1>6. /\ Leaves(p)' = Leaves(p) /\ Arrives(p)' = Arrives(p)
      /\ Index(p)' = Index(p) /\ Remove(p)' = Remove(p)
    BY DEF Leaves, Arrives, Index, Remove, Events
<1>7. CASE open'[p]
    BY <1>7 DEF RemoveAt, Arriving, Queuing
<1>8. CASE Same(p) /\ ~Holds(t, Leaves(p))
    <2>1. RemoveAt(p)
        BY <1>3 DEF RemoveInv
    <2>2. Indexable(p)
        BY <1>1, <1>8 DEF Indexable, Same, IsExcluded
    <2>3. Followed(t, Leaves(p), Arrives(p))
        BY <1>8 DEF Followed, Holds
    <2>4. Followed(kq, Leaves(p), Arrives(p)) => Followed(kq', Leaves(p), Arrives(p))
        BY <1>2, <1>5, <2>3, ConcatFollowed
    <2>5. open'[p] = open[p]
        BY <1>8 DEF Same
    <2>6. QED BY <1>1, <1>5, <1>6, <2>1, <2>2, <2>4, <2>5 DEF RemoveAt, Arriving, Queuing
<1>9. CASE Came(p)' /\ Watching
    <2>1. kq' # <<>> /\ Last(kq') \in Arrives(p)
        BY <1>1, <1>6, <1>9 DEF Came, Watching
    <2>2. Last(kq') \notin Leaves(p)
        BY <2>1 DEF Arrives, Leaves
    <2>3. Followed(kq', Leaves(p), Arrives(p)) /\ Holds(kq', Arrives(p))
        BY <1>2, <2>1, <2>2, LastFollows
    <2>4. QED BY <1>6, <2>3 DEF RemoveAt, Arriving, Queuing
<1>10. CASE ~Watching
    <2>1. kq' = <<>> /\ pending' = <<>> /\ queue' = <<>> /\ ~Holds(batch', {Remove(p)})
        BY <1>1, <1>6, <1>10 DEF Watching, PlaceInv
    <2>2. \A X, Y : ~Holds(<<>>, X) /\ Followed(<<>>, X, Y)
        BY NoneHolds
    <2>3. \A Y : Followed(batch', {Remove(p)}, Y)
        BY <2>1 DEF Holds, Followed
    <2>4. QED BY <1>6, <2>1, <2>2, <2>3 DEF RemoveAt
<1>11. QED BY <1>1, <1>4, <1>7, <1>8, <1>9, <1>10

\* The watcher queues in the order it is told, unless a path is overtaken.
LEMMA WatcherRemove == TypeInv /\ RemoveInv /\ Watcher => RemoveInv'
<1> SUFFICES ASSUME TypeInv, RemoveInv, Watcher, NEW p \in Paths, p \notin lost', Indexable(p)'
             PROVE  RemoveAt(p)'
    BY DEF RemoveInv, RemoveAt
<1>1. UNCHANGED <<file, open, excluded, batch>> /\ lost \subseteq lost'
    BY DEF Watcher, StartWatch, DrainEvent, DrainEnd, FlushPending, fsVars, flagVars, workVars, history
<1>2. /\ kq \in Seq(Events) /\ queue \in Seq(Items) /\ batch \in Seq(Items) /\ pending \in Seq(Paths)
    BY DEF TypeInv, TypeOK
<1>3. RemoveAt(p) /\ Indexable(p) /\ open'[p] = open[p]
    BY <1>1 DEF RemoveInv, Indexable, Exists, IsExcluded
<1>4. /\ Leaves(p)' = Leaves(p) /\ Arrives(p)' = Arrives(p)
      /\ Index(p)' = Index(p) /\ Remove(p)' = Remove(p)
    BY DEF Leaves, Arrives, Index, Remove, Events
<1>5. CASE StartWatch \/ DrainEnd
    <2>1. UNCHANGED <<kq, pending, queue>>
        BY <1>5 DEF StartWatch, DrainEnd, flagVars
    <2>2. QED BY <1>1, <1>3, <1>4, <2>1 DEF RemoveAt, Arriving, Queuing
<1>6. CASE FlushPending
    <2>1. /\ kq' = kq /\ pending # <<>> /\ pending' = Tail(pending)
          /\ queue' = Append(queue, Remove(Head(pending))) /\ Remove(Head(pending)) \in Items
        BY <1>2, <1>6 DEF FlushPending, TypeInv, Shape, Remove, Items
    <2> DEFINE t == <<Remove(Head(pending))>>
    <2>2. queue' = queue \o t /\ t \in Seq(Items)
        BY <1>2, <2>1
    <2>3. Head(pending) # p => Followed(t, {Remove(p)}, {Index(p)})
        <3>1. Head(pending) # p => Remove(Head(pending)) \notin {Remove(p)}
            BY DEF Remove
        <3>2. QED BY <3>1, OneHolds, Zenon
    <2> HIDE DEF t
    <2>4. Head(pending) = p => Holds(pending, {p})
        BY <1>2, <2>1 DEF Holds
    <2>5. Holds(pending', {p}) => Holds(pending, {p})
        BY <1>2, <2>1, TailHolds
    <2>6. Holds(queue, {Index(p)}) => Holds(queue', {Index(p)})
        BY <1>2, <2>2, ConcatHolds
    <2>7. Head(pending) # p /\ Followed(queue, {Remove(p)}, {Index(p)})
             => Followed(queue', {Remove(p)}, {Index(p)})
        BY <1>2, <2>2, <2>3, ConcatFollowed
    <2>8. QED BY <1>1, <1>3, <1>4, <2>1, <2>4, <2>5, <2>6, <2>7 DEF RemoveAt, Arriving, Queuing
<1>7. CASE DrainEvent
    <2> DEFINE e == Head(kq)
    <2>1. /\ kq # <<>> /\ kq' = Tail(kq) /\ e \in Events
          /\ e = Overflow \/ Skipped(e) => UNCHANGED <<pending, queue>>
        BY <1>2, <1>7 DEF DrainEvent
    <2>2. /\ Followed(kq, Leaves(p), Arrives(p)) => Followed(kq', Leaves(p), Arrives(p))
          /\ Followed(kq, Leaves(p), Arrives(p)) /\ e \in Leaves(p) => Holds(kq', Arrives(p))
          /\ Holds(kq, Arrives(p)) => e \in Arrives(p) \/ Holds(kq', Arrives(p))
        BY <1>2, <2>1, TailFollowed, TailHolds
    <2>3. CASE e \in Leaves(p)
        <3>1. Arriving(p)'
            BY <1>1, <1>3, <1>4, <2>2, <2>3 DEF RemoveAt, Arriving
        <3>2. open'[p] \/ Followed(kq', Leaves(p), Arrives(p))
            BY <1>3, <2>2 DEF RemoveAt
        <3>3. QED BY <1>4, <3>1, <3>2 DEF RemoveAt, Queuing
    <2>4. CASE e = Overflow \/ (Skipped(e) /\ e \notin Leaves(p))
        <3>1. e \notin Arrives(p)
            <4>1. e \in Arrives(p) => e.path = p
                BY DEF Arrives
            <4>2. Overflow \notin Arrives(p)
                BY DEF Arrives, Overflow
            <4>3. QED BY <1>3, <2>4, <4>1, <4>2 DEF Skipped, Indexable
        <3>2. QED BY <1>1, <1>3, <1>4, <2>1, <2>2, <2>4, <3>1 DEF RemoveAt, Arriving, Queuing
    <2>5. CASE e # Overflow /\ ~Skipped(e)
        <3>1. /\ queue' = queue \o ItemsOf(e) /\ pending' = PendingAfter(e) /\ lost' = lost \cup Overtaken(e)
              /\ ItemsOf(e) \in Seq(Items)
            BY <1>7, <2>1, <2>5, ItemsType DEF DrainEvent, TypeInv
        <3> HIDE DEF e
        <3>2. Holds(queue, {Index(p)}) => Holds(queue', {Index(p)})
            BY <1>2, <3>1, ConcatHolds
        <3>3. CASE e \in Arrives(p)
            <4>1. e.path = p /\ e.mask \in {"close_write", "moved_to"}
                BY <3>3 DEF Arrives
            <4>2. ~Holds(pending', {p})
                BY <1>2, <3>1, <4>1 DEF Overtaken, Holds
            <4>3. PICK s \in Seq(Items) : ItemsOf(e) = s \o <<Index(p)>>
                <5>1. CASE e.mask = "close_write"
                    <6>1. ItemsOf(e) = <<Index(p)>>
                        BY <4>1, <5>1 DEF ItemsOf
                    <6>2. <<>> \in Seq(Items) /\ <<Index(p)>> = <<>> \o <<Index(p)>>
                        OBVIOUS
                    <6>3. QED BY <6>1, <6>2
                <5>2. CASE e.mask = "moved_to"
                    <6> DEFINE s == IF Paired(e) THEN <<Remove(Last(pending))>> ELSE <<>>
                    <6>1. ItemsOf(e) = s \o <<Index(p)>>
                        BY <4>1, <5>2 DEF ItemsOf
                    <6>2. Paired(e) => Remove(Last(pending)) \in Items
                        BY <1>2 DEF Paired, Last, Remove, Items
                    <6>3. s \in Seq(Items)
                        BY <6>2
                    <6> HIDE DEF s
                    <6>4. QED BY <6>1, <6>3
                <5>3. QED BY <4>1, <5>1, <5>2
            <4> DEFINE t == <<Index(p)>>
            <4>4. t \in Seq(Items)
                BY DEF Index, Items
            <4>5. Holds(t, {Index(p)}) /\ Followed(t, {Remove(p)}, {Index(p)})
                <5>1. Index(p) \notin {Remove(p)}
                    BY DEF Index, Remove
                <5>2. QED BY <5>1, OneHolds, Zenon
            <4> HIDE DEF t
            <4>6. queue \o s \in Seq(Items) /\ queue' = (queue \o s) \o t
                <5>1. queue' = queue \o (s \o t)
                    BY <3>1, <4>3 DEF t
                <5>2. (queue \o s) \o t = queue \o (s \o t)
                    BY <1>2, <4>3, <4>4, ConcatAssociative, SMTT(30)
                <5>3. queue \o s \in Seq(Items)
                    BY <1>2, <4>3
                <5>4. QED BY <5>1, <5>2, <5>3, Zenon
            <4>7. Followed(queue', {Remove(p)}, {Index(p)}) /\ Holds(queue', {Index(p)})
                BY <4>4, <4>5, <4>6, ConcatFollowed, ConcatHolds
            <4>8. QED BY <1>3, <1>4, <2>2, <4>2, <4>7 DEF RemoveAt, Queuing
        <3>4. CASE e \notin Leaves(p) /\ e \notin Arrives(p)
            <4>1. e.path = p => e.mask = "create"
                <5>1. e.mask \in {"create", "close_write", "moved_from", "delete", "moved_to"}
                    BY <2>1, <2>5 DEF Events, Overflow
                <5>2. QED BY <2>1, <3>4, <5>1 DEF Leaves, Arrives
            <4>2. Arriving(p) => Arriving(p)'
                BY <1>3, <1>4, <2>2, <3>4 DEF Arriving
            <4>3. Holds(pending', {p}) => Holds(pending, {p})
                <5>1. CASE e.mask = "moved_from"
                    <6>1. pending' = Append(pending, e.path) /\ e.path # p
                        BY <3>1, <4>1, <5>1 DEF PendingAfter, Paired
                    <6>2. QED BY <1>2, <6>1 DEF Holds
                <5>2. CASE Paired(e)
                    <6>1. pending' = Front(pending) /\ pending # <<>>
                        BY <3>1, <5>2 DEF PendingAfter, Paired
                    <6>2. QED BY <1>2, <6>1 DEF Holds, Front
                <5>3. CASE e.mask # "moved_from" /\ ~Paired(e)
                    BY <3>1, <5>3 DEF PendingAfter
                <5>4. QED BY <5>1, <5>2, <5>3
            <4>4. \/ Followed(ItemsOf(e), {Remove(p)}, {Index(p)})
                  \/ Holds(pending, {p})
                <5>1. \A q : q # p => Remove(q) \notin {Remove(p)} /\ Index(q) \notin {Remove(p)}
                    BY DEF Remove, Index
                <5>2. \A q : q # p => /\ Followed(<<Remove(q)>>, {Remove(p)}, {Index(p)})
                                     /\ Followed(<<Index(q)>>, {Remove(p)}, {Index(p)})
                    BY <5>1, OneHolds, Zenon
                <5>3. Followed(<<>>, {Remove(p)}, {Index(p)})
                    BY NoneHolds
                <5>4. CASE e.mask \in {"create", "moved_from"}
                    BY <5>3, <5>4 DEF ItemsOf
                <5>5. CASE e.mask \in {"close_write", "delete"}
                    <6>1. ItemsOf(e) = <<Index(e.path)>> \/ ItemsOf(e) = <<Remove(e.path)>>
                        BY <5>5 DEF ItemsOf
                    <6>2. e.path # p
                        BY <4>1, <5>5
                    <6>3. QED BY <5>2, <6>1, <6>2, Zenon
                <5>6. CASE e.mask = "moved_to" /\ ~Paired(e)
                    <6>1. ItemsOf(e) = <<>> \o <<Index(e.path)>>
                        BY <5>6 DEF ItemsOf
                    <6>2. \A x : <<>> \o <<x>> = <<x>>
                        OBVIOUS
                    <6>3. e.path # p
                        BY <4>1, <5>6
                    <6>4. QED BY <5>2, <6>1, <6>2, <6>3, Zenon
                <5>7. CASE Paired(e)
                    <6> DEFINE s == <<Remove(Last(pending))>>
                               t == <<Index(e.path)>>
                    <6>1. ItemsOf(e) = s \o t /\ e.path # p /\ pending # <<>>
                        BY <4>1, <5>7 DEF ItemsOf, Paired
                    <6>2. s \in Seq(Items) /\ t \in Seq(Items)
                        BY <1>2, <2>1, <2>5, <5>7, <6>1 DEF Remove, Index, Items, Paired, Events, Overflow, Last
                    <6>3. Followed(t, {Remove(p)}, {Index(p)})
                        BY <5>2, <6>1, Zenon
                    <6>4. Last(pending) # p => Followed(s, {Remove(p)}, {Index(p)})
                        BY <5>2, Zenon
                    <6>5. Last(pending) = p => Holds(pending, {p})
                        BY <1>2, <6>1 DEF Last, Holds
                    <6> HIDE DEF s, t
                    <6>6. QED BY <6>1, <6>2, <6>3, <6>4, <6>5, ConcatFollowed
                <5>8. e.mask \in {"create", "close_write", "moved_from", "delete", "moved_to"}
                    BY <2>1, <2>5 DEF Events, Overflow
                <5>9. QED BY <5>4, <5>5, <5>6, <5>7, <5>8
            <4>5. Followed(queue, {Remove(p)}, {Index(p)}) /\ Followed(ItemsOf(e), {Remove(p)}, {Index(p)})
                    => Followed(queue', {Remove(p)}, {Index(p)})
                BY <1>2, <3>1, ConcatFollowed
            <4>6. QED BY <1>1, <1>3, <1>4, <2>2, <3>2, <4>2, <4>3, <4>4, <4>5 DEF RemoveAt, Queuing
        <3>5. QED BY <2>3, <3>3, <3>4
    <2>6. QED BY <2>3, <2>4, <2>5
<1>8. QED BY <1>5, <1>6, <1>7 DEF Watcher

\* The worker takes from the head, and puts nothing but an indexing in.
LEMMA WorkerRemove == TypeInv /\ PlaceInv /\ RemoveInv /\ Worker => RemoveInv'
<1> SUFFICES ASSUME TypeInv, PlaceInv, RemoveInv, Worker, NEW p \in Paths, p \notin lost', Indexable(p)'
             PROVE  RemoveAt(p)'
    BY DEF RemoveInv, RemoveAt
<1>1. UNCHANGED <<file, open, kq, pending, lost>>
    BY DEF Worker, fsVars, watchVars
<1>2. queue \in Seq(Items) /\ batch \in Seq(Items)
    BY DEF TypeInv, TypeOK
<1>3. excluded' = excluded
    BY DEF Worker, Start, BeginPass, ClearDocs, ClearFiles, CrawlBegin, CrawlEnd, CrawlFile, ScanRow,
           StatFile, HashFile, ExtractFile, Return, PurgeGone, TakeBatch, BatchItem, BatchEnd, flagVars
<1>4. RemoveAt(p) /\ Indexable(p) /\ (Arriving(p)' <=> Arriving(p))
    BY <1>1, <1>3 DEF RemoveInv, Indexable, Exists, IsExcluded, Arriving, Arrives
<1>5. /\ Leaves(p)' = Leaves(p) /\ Arrives(p)' = Arrives(p)
      /\ Index(p)' = Index(p) /\ Remove(p)' = Remove(p)
    BY DEF Leaves, Arrives, Index, Remove, Events
<1>6. ASSUME queue' = queue,
             Followed(batch, {Remove(p)}, {Index(p)}) => Followed(batch', {Remove(p)}, {Index(p)})
      PROVE  RemoveAt(p)'
    BY <1>1, <1>4, <1>5, <1>6 DEF RemoveAt, Queuing
<1>7. CASE TakeBatch
    <2>1. batch' \in Seq(Items) /\ queue' \in Seq(Items) /\ queue = batch' \o queue'
        BY <1>7, TakeSplits
    <2>2. Followed(batch' \o queue', {Remove(p)}, {Index(p)})
             => /\ Followed(queue', {Remove(p)}, {Index(p)})
                /\ Followed(batch', {Remove(p)}, {Index(p)}) \/ Holds(queue', {Index(p)})
        BY <2>1, ConcatFollowed
    <2>3. QED BY <1>1, <1>4, <1>5, <2>1, <2>2 DEF RemoveAt, Queuing
<1>8. CASE \E q \in Paths : CrawlFile(q)
    <2>1. PICK q \in Paths : batch' = batch \/ batch' = <<Index(q)>>
        BY <1>8 DEF CrawlFile
    <2>2. Index(q) \notin {Remove(p)}
        BY DEF Index, Remove
    <2>3. Followed(<<Index(q)>>, {Remove(p)}, {Index(p)})
        BY <2>2, OneHolds, Zenon
    <2>4. queue' = queue
        BY <1>8 DEF CrawlFile, flagVars
    <2>5. QED BY <1>6, <2>1, <2>3, <2>4
<1>9. CASE BatchItem \/ StatFile \/ HashFile \/ ExtractFile
    <2>1. queue' = queue /\ (batch' = batch \/ batch' = Tail(batch))
        BY <1>9 DEF BatchItem, StatFile, HashFile, ExtractFile, Return, flagVars
    <2>2. batch # <<>>
        BY <1>9 DEF BatchItem, StatFile, HashFile, ExtractFile, TypeInv, Shape
    <2>3. Followed(batch, {Remove(p)}, {Index(p)}) => Followed(Tail(batch), {Remove(p)}, {Index(p)})
        BY <1>2, <2>2, TailFollowed
    <2>4. QED BY <1>6, <2>1, <2>3
<1>10. CASE \/ Start \/ BeginPass \/ ClearDocs \/ ClearFiles \/ CrawlBegin \/ CrawlEnd
            \/ (\E q \in Paths : ScanRow(q)) \/ PurgeGone \/ BatchEnd
    <2>1. UNCHANGED <<queue, batch>>
        BY <1>10 DEF Start, BeginPass, ClearDocs, ClearFiles, CrawlBegin, CrawlEnd, ScanRow,
                     PurgeGone, BatchEnd, flagVars
    <2>2. QED BY <1>6, <2>1
<1>11. QED BY <1>7, <1>8, <1>9, <1>10 DEF Worker

\* Every step leaves a removal of a file that is there with its indexing behind it.
LEMMA NextRemove == TypeInv /\ PlaceInv /\ PlaceInv' /\ RemoveInv /\ [Next]_vars => RemoveInv'
<1> SUFFICES ASSUME TypeInv, PlaceInv, PlaceInv', RemoveInv, [Next]_vars PROVE RemoveInv'
    OBVIOUS
<1>1. CASE UNCHANGED vars
    <2>1. UNCHANGED <<file, open, kq, pending, queue, excluded, batch, lost>>
        BY <1>1 DEF vars, fsVars, watchVars, flagVars, workVars, history
    <2>2. \A p \in Paths : RemoveAt(p) => RemoveAt(p)'
        BY <2>1 DEF RemoveAt, Arriving, Queuing, Indexable, Exists, IsExcluded, Leaves, Arrives,
                    Index, Remove, Events
    <2>3. QED BY <2>1, <2>2 DEF RemoveInv
<1>2. CASE Control
    <2>1. UNCHANGED <<file, open, kq, pending, queue, batch, lost>> /\ excluded \subseteq excluded'
        BY <1>2 DEF Control, RequestReconcile, RequestReindex, AddRuntimeExclude, fsVars, watchVars,
                    workVars, history
    <2>2. \A p \in Paths : RemoveAt(p) => RemoveAt(p)'
        BY <2>1 DEF RemoveAt, Arriving, Queuing, Indexable, Exists, IsExcluded, Leaves, Arrives,
                    Index, Remove, Events
    <2>3. QED BY <2>1, <2>2 DEF RemoveInv
<1>3. CASE Crash
    <2>1. kq' = <<>> /\ pending' = <<>> /\ queue' = <<>> /\ batch' = <<>>
        BY <1>3 DEF Crash, Stop
    <2>2. \A X, Y : Followed(<<>>, X, Y) /\ ~Holds(<<>>, X)
        BY NoneHolds
    <2>3. QED BY <2>1, <2>2 DEF RemoveInv, RemoveAt
<1>4. QED BY <1>1, <1>2, <1>3, FileSystemRemove, WatcherRemove, WorkerRemove DEF Next

-----------------------------------------------------------------------------
(***************************************************************************)
(* A file that is there has a row, or work that will write one.            *)
(***************************************************************************)

CompleteAt(p) == Indexable(p) =>
    /\ row[p] = NoRow =>
          \/ Queuing(p)
          \/ Holds(batch, {Index(p)})
          \/ task = "crawl" /\ p \in todo
          \/ pc = "dropped" \/ (pc = "begin" /\ Indexed = {})
    /\ p \in gone => Queuing(p)
CompleteInv == \A p \in Paths \ (missed \cup lost) : CompleteAt(p)

\* A file that appears is told of.
LEMMA FileSystemComplete == TypeInv /\ CompleteInv /\ FileSystem => CompleteInv'
<1> SUFFICES ASSUME TypeInv, CompleteInv, FileSystem, NEW p \in Paths, p \notin missed', p \notin lost',
                    Indexable(p)'
             PROVE  CompleteAt(p)'
    BY DEF CompleteInv, CompleteAt
<1>1. UNCHANGED <<wpc, queue, excluded, batch, pc, task, todo, gone, row>> /\ Exists(p)'
    BY DEF FileSystem, watchVars, flagVars, workVars, Indexable
<1>2. kq \in Seq(Events) /\ kq' \in Seq(Events)
    BY FileSystemType DEF TypeInv, TypeOK
<1>3. p \notin missed /\ p \notin lost
    BY FileSystemEffect DEF FileEffect
<1>4. PICK t \in Seq(Events) :
        Grown(t) /\ (\/ Same(p) /\ ~Holds(t, Leaves(p))
                     \/ open'[p]
                     \/ Told(p)' /\ (Exists(p)' => Came(p)'))
    BY FileSystemEffect DEF FileEffect
<1>5. \A X : Holds(kq, X) => Holds(kq', X)
    BY <1>2, <1>4, ConcatHolds DEF Grown
<1>6. Arrives(p)' = Arrives(p) /\ Index(p)' = Index(p)
    BY DEF Arrives, Index, Events
<1>7. CASE open'[p]
    BY <1>7 DEF CompleteAt, Arriving, Queuing
<1>8. CASE Same(p)
    <2>1. CompleteAt(p)
        BY <1>3 DEF CompleteInv
    <2>2. Indexable(p) /\ open'[p] = open[p]
        BY <1>1, <1>8 DEF Indexable, Same, IsExcluded
    <2>3. QED BY <1>1, <1>5, <1>6, <2>1, <2>2 DEF CompleteAt, Arriving, Queuing, Indexed
<1>9. CASE Came(p)'
    <2>1. kq' # <<>> /\ Last(kq') \in Arrives(p)
        BY <1>6, <1>9 DEF Came
    <2>2. Holds(kq', Arrives(p))
        BY <1>2, <2>1 DEF Last, Holds
    <2>3. QED BY <1>6, <2>2 DEF CompleteAt, Arriving, Queuing
<1>10. QED BY <1>1, <1>4, <1>7, <1>8, <1>9

\* The watcher passes on the arrivals of every path that is not excluded.
LEMMA WatcherComplete == TypeInv /\ CompleteInv /\ Watcher => CompleteInv'
<1> SUFFICES ASSUME TypeInv, CompleteInv, Watcher, NEW p \in Paths, p \notin missed', p \notin lost',
                    Indexable(p)'
             PROVE  CompleteAt(p)'
    BY DEF CompleteInv, CompleteAt
<1>1. UNCHANGED <<file, open, excluded, batch, pc, task, todo, gone, row, missed>> /\ lost \subseteq lost'
    BY DEF Watcher, StartWatch, DrainEvent, DrainEnd, FlushPending, fsVars, flagVars, workVars, history
<1>2. kq \in Seq(Events) /\ queue \in Seq(Items) /\ pending \in Seq(Paths)
    BY DEF TypeInv, TypeOK
<1>3. CompleteAt(p) /\ Indexable(p) /\ ~IsExcluded(p)
    BY <1>1 DEF CompleteInv, Indexable, Exists, IsExcluded
<1>4. Arrives(p)' = Arrives(p) /\ Index(p)' = Index(p)
    BY DEF Arrives, Index, Events
<1>5. SUFFICES ASSUME Queuing(p) PROVE Queuing(p)'
    BY <1>1, <1>3, <1>4 DEF CompleteAt, Indexed
<1>6. CASE StartWatch \/ DrainEnd
    BY <1>1, <1>4, <1>5, <1>6 DEF StartWatch, DrainEnd, flagVars, Queuing, Arriving
<1>7. CASE FlushPending
    <2>1. kq' = kq /\ queue' = Append(queue, Remove(Head(pending)))
        BY <1>7 DEF FlushPending
    <2>2. Holds(queue, {Index(p)}) => Holds(queue', {Index(p)})
        BY <1>2, <2>1, SMTT(30) DEF Holds
    <2>3. QED BY <1>1, <1>4, <1>5, <2>1, <2>2 DEF Queuing, Arriving
<1>8. CASE DrainEvent
    <2> DEFINE e == Head(kq)
    <2>1. /\ kq # <<>> /\ kq' = Tail(kq) /\ e \in Events
          /\ e = Overflow \/ Skipped(e) => UNCHANGED <<pending, queue>>
        BY <1>2, <1>8 DEF DrainEvent
    <2>2. Holds(kq, Arrives(p)) => e \in Arrives(p) \/ Holds(kq', Arrives(p))
        BY <1>2, <2>1, TailHolds
    <2>3. CASE e = Overflow \/ Skipped(e)
        <3>1. e \in Arrives(p) => e.path = p /\ e # Overflow /\ e.mask \in {"close_write", "moved_to"}
            BY DEF Arrives, Overflow
        <3>2. e \notin Arrives(p)
            BY <1>3, <2>3, <3>1 DEF Skipped
        <3>3. QED BY <1>1, <1>4, <1>5, <2>1, <2>2, <2>3, <3>2 DEF Queuing, Arriving
    <2>4. CASE e # Overflow /\ ~Skipped(e)
        <3>1. queue' = queue \o ItemsOf(e) /\ ItemsOf(e) \in Seq(Items)
            BY <1>8, <2>1, <2>4, ItemsType DEF DrainEvent, TypeInv
        <3> HIDE DEF e
        <3>2. Holds(queue, {Index(p)}) \/ Holds(ItemsOf(e), {Index(p)}) => Holds(queue', {Index(p)})
            BY <1>2, <3>1, ConcatHolds
        <3>3. ASSUME e \in Arrives(p) PROVE Holds(ItemsOf(e), {Index(p)})
            <4>1. e.path = p /\ e.mask \in {"close_write", "moved_to"}
                BY <3>3 DEF Arrives
            <4>2. Len(ItemsOf(e)) \in DOMAIN ItemsOf(e) /\ ItemsOf(e)[Len(ItemsOf(e))] = Index(p)
                <5>1. CASE e.mask = "close_write"
                    <6>1. ItemsOf(e) = <<Index(p)>>
                        BY <4>1, <5>1 DEF ItemsOf
                    <6>2. QED BY <6>1
                <5>2. CASE e.mask = "moved_to"
                    <6> DEFINE s == IF Paired(e) THEN <<Remove(Last(pending))>> ELSE <<>>
                    <6>1. ItemsOf(e) = s \o <<Index(p)>>
                        BY <4>1, <5>2 DEF ItemsOf
                    <6>2. s = <<>> \/ s = <<Remove(Last(pending))>>
                        OBVIOUS
                    <6>3. \A x, y : /\ Len(<<y>>) \in DOMAIN (<<>> \o <<y>>) /\ (<<>> \o <<y>>)[1] = y
                                    /\ Len(<<>> \o <<y>>) = 1 /\ Len(<<x>> \o <<y>>) = 2
                                    /\ 2 \in DOMAIN (<<x>> \o <<y>>) /\ (<<x>> \o <<y>>)[2] = y
                        OBVIOUS
                    <6> HIDE DEF s
                    <6>4. QED BY <6>1, <6>2, <6>3
                <5>3. QED BY <4>1, <5>1, <5>2
            <4>3. QED BY <4>2 DEF Holds
        <3>4. QED BY <1>1, <1>4, <1>5, <2>2, <3>2, <3>3 DEF Queuing, Arriving
    <2>5. QED BY <2>3, <2>4
<1>9. QED BY <1>6, <1>7, <1>8 DEF Watcher

\* index_file returning leaves no file that it found without a row.
LEMMA ReturnComplete ==
    ASSUME TypeInv, PlaceInv, CompleteInv, pc \in {"stat", "hash", "extract"},
           NEW r \in [Paths -> Rows], Return(r), UNCHANGED <<file, open, kq, lost>>,
           \A q \in Paths : q # cur => r[q] = row[q],
           r[cur] = NoRow => ~Indexable(cur)
    PROVE  CompleteInv'
<1> SUFFICES ASSUME NEW p \in Paths, p \notin missed', p \notin lost', Indexable(p)' PROVE CompleteAt(p)'
    BY DEF CompleteInv, CompleteAt
<1>1. /\ UNCHANGED <<queue, excluded, gone>> /\ gone = {} /\ row' = r /\ batch' = Tail(batch)
    BY DEF Return, flagVars, PlaceInv
<1>2. /\ batch \in Seq(Items) /\ batch # <<>> /\ Head(batch) \in Items /\ task \in {"crawl", "batch"}
      /\ cur \in Paths
    BY CurType DEF TypeInv, TypeOK, Shape
<1>3. missed \subseteq missed' /\ (task = "batch" => UNCHANGED <<task, todo>>)
    BY <1>2 DEF Return
<1>4. task = "crawl" => (task' = "crawl" /\ todo' = todo) \/ p \notin todo
    BY DEF Return
<1>5. CompleteAt(p) /\ Indexable(p)
    BY <1>1, <1>3 DEF CompleteInv, Indexable, Exists, IsExcluded
<1>6. CASE p = cur
    BY <1>1, <1>5, <1>6 DEF CompleteAt
<1>7. CASE p # cur
    <2>1. Head(batch) \notin {Index(p)}
        BY <1>2, <1>7 DEF Index, cur
    <2>2. Holds(batch, {Index(p)}) => Head(batch) \in {Index(p)} \/ Holds(batch', {Index(p)})
        BY <1>1, <1>2, TailHolds
    <2>3. Index(p)' = Index(p) /\ Arrives(p)' = Arrives(p)
        BY DEF Index, Arrives, Events
    <2>4. QED BY <1>1, <1>3, <1>4, <1>5, <1>7, <2>1, <2>2, <2>3 DEF CompleteAt, Queuing, Arriving
<1>8. QED BY <1>6, <1>7

\* The worker drops no row of a file that is there but for a rebuild or a removal.
LEMMA WorkerComplete ==
    TypeInv /\ ExclusionInv /\ PlaceInv /\ RemoveInv /\ CompleteInv /\ Worker => CompleteInv'
<1> SUFFICES ASSUME TypeInv, ExclusionInv, PlaceInv, RemoveInv, CompleteInv, Worker PROVE CompleteInv'
    OBVIOUS
<1> USE DEF flagVars
<1>0. /\ UNCHANGED <<file, open, kq, lost>> /\ row \in [Paths -> Rows]
      /\ batch \in Seq(Items) /\ queue \in Seq(Items) /\ task \in {"crawl", "batch"}
    BY DEF Worker, fsVars, TypeInv, TypeOK
\* It is enough to look at the files that are there, with what was true of them before.
<1>a. ASSUME UNCHANGED <<excluded, missed>>,
             \A p \in Paths : CompleteAt(p) /\ RemoveAt(p) /\ Indexable(p) /\ Indexable(p)' => CompleteAt(p)'
      PROVE  CompleteInv'
    BY <1>0, <1>a DEF CompleteInv, RemoveInv, CompleteAt, Indexable, Exists, IsExcluded
<1>b. \A p : Index(p)' = Index(p) /\ Arrives(p)' = Arrives(p)
    BY DEF Index, Arrives, Events
<1>1. CASE Start \/ BeginPass \/ BatchEnd
    <2>1. /\ UNCHANGED <<queue, excluded, task, todo, gone, batch, row, missed>>
          /\ pc \notin {"dropped", "begin"}
        BY <1>1 DEF Start, BeginPass, BatchEnd
    <2>2. QED BY <1>0, <1>a, <1>b, <2>1 DEF CompleteAt, Queuing, Arriving
<1>2. CASE ClearDocs \/ ClearFiles
    <2>1. UNCHANGED <<excluded, gone, missed>> /\ gone = {}
        BY <1>2 DEF ClearDocs, ClearFiles, PlaceInv
    <2>2. pc' = "dropped" \/ (pc' = "begin" /\ Indexed' = {})
        BY <1>2 DEF ClearDocs, ClearFiles, Indexed
    <2>3. QED BY <1>a, <2>1, <2>2 DEF CompleteAt
<1>3. CASE CrawlBegin
    <2>1. /\ pc = "begin" /\ task = "batch" /\ gone = {}
          /\ UNCHANGED <<queue, excluded, gone, batch, row>>
        BY <1>0, <1>3 DEF CrawlBegin, ExclusionInv, PlaceInv
    <2>2. CASE OverCap
        <3>1. UNCHANGED missed /\ task' = task
            BY <1>3, <2>2 DEF CrawlBegin
        <3>2. Indexed # {}
            <4>1. Cardinality({}) = 0
                BY FS_EmptySet
            <4>2. env.cap \in Nat
                BY ContentIndexAssumption DEF TypeInv, TypeOK
            <4>3. QED BY <2>2, <4>1, <4>2 DEF OverCap
        <3>3. QED BY <1>0, <1>a, <1>b, <2>1, <3>1, <3>2 DEF CompleteAt, Queuing, Arriving
    <2>3. CASE ~OverCap
        <3>1. task' = "crawl" /\ todo' = {p \in Paths : Exists(p)}
            BY <1>3, <2>3 DEF CrawlBegin
        <3>2. QED BY <1>0, <2>1, <3>1 DEF CompleteInv, CompleteAt, Indexable, Exists
    <2>4. QED BY <2>2, <2>3
<1>4. CASE \E q \in Paths : CrawlFile(q)
    <2>1. PICK q \in Paths : CrawlFile(q)
        BY <1>4
    <2>2. /\ pc = "crawl" /\ task = "crawl" /\ batch = <<>> /\ todo' = todo \ {q} /\ gone = {}
          /\ UNCHANGED <<queue, excluded, gone, row, task, missed>>
          /\ IsExcluded(q) \/ batch' = <<Index(q)>>
        BY <2>1 DEF CrawlFile, ExclusionInv, PlaceInv
    <2>3. \A X : ~Holds(<<>>, X)
        BY NoneHolds
    <2>4. Holds(<<Index(q)>>, {Index(q)})
        BY OneHolds, Zenon
    <2>5. QED BY <1>0, <1>a, <1>b, <2>2, <2>3, <2>4 DEF CompleteAt, Queuing, Arriving, Indexable
<1>5. CASE CrawlEnd
    <2>1. /\ pc = "crawl" /\ todo = {} /\ gone = {}
          /\ UNCHANGED <<queue, excluded, gone, row, batch, missed>>
        BY <1>5 DEF CrawlEnd, PlaceInv
    <2>2. QED BY <1>0, <1>a, <1>b, <2>1 DEF CompleteAt, Queuing, Arriving
<1>6. CASE StatFile
    <2>1. cur \in Paths /\ Removed \in [Paths -> Rows] /\ pc = "stat"
        BY <1>6, CurType DEF StatFile
    <2>2. CASE ~Indexable(cur)
        <3>1. Return(Removed)
            BY <1>6, <2>2 DEF StatFile, Indexable
        <3>2. \A q \in Paths : q # cur => Removed[q] = row[q]
            BY <1>0, <2>1 DEF Removed
        <3>3. QED BY <1>0, <2>1, <2>2, <3>1, <3>2, ReturnComplete
    <2>3. CASE Indexable(cur) /\ Unchanged(row[cur], file[cur])
        <3>1. Return(row)
            BY <1>6, <2>3 DEF StatFile, Indexable
        <3>2. row[cur] # NoRow
            BY <2>3 DEF Unchanged, NoRow
        <3>3. QED BY <1>0, <2>1, <3>1, <3>2, ReturnComplete
    <2>4. CASE Indexable(cur) /\ ~Unchanged(row[cur], file[cur])
        <3>1. UNCHANGED <<task, todo, gone, batch, queue, excluded, row, missed>>
            BY <1>6, <2>4 DEF StatFile, Indexable
        <3>2. QED BY <1>0, <1>a, <1>b, <2>1, <3>1 DEF CompleteAt, Queuing, Arriving
    <2>5. QED BY <2>2, <2>3, <2>4
<1>7. CASE HashFile
    <2>1. cur \in Paths /\ Touched \in [Paths -> Rows] /\ pc = "hash"
        BY <1>7, CurType DEF HashFile
    <2>2. CASE SameHash(row[cur], file[cur].data)
        <3>1. Return(Touched)
            BY <1>7, <2>2 DEF HashFile
        <3>2. Touched[cur] # NoRow /\ \A q \in Paths : q # cur => Touched[q] = row[q]
            <4>1. row[cur] \in Rows
                BY <1>0, <2>1
            <4>2. [row[cur] EXCEPT !.mtime = seen.mtime, !.state = "Indexed"].state = "Indexed"
                BY <4>1 DEF Rows
            <4>3. QED BY <1>0, <2>1, <4>2 DEF Touched, NoRow
        <3>3. QED BY <1>0, <2>1, <3>1, <3>2, ReturnComplete
    <2>3. CASE ~SameHash(row[cur], file[cur].data)
        <3>1. UNCHANGED <<task, todo, gone, batch, queue, excluded, row, missed>>
            BY <1>7, <2>3 DEF HashFile
        <3>2. QED BY <1>0, <1>a, <1>b, <2>1, <3>1 DEF CompleteAt, Queuing, Arriving
    <2>4. QED BY <2>2, <2>3
<1>8. CASE ExtractFile
    <2>1. cur \in Paths /\ pc = "extract"
        BY <1>8, CurType DEF ExtractFile
    <2>2. PICK ok \in BOOLEAN : Return(Put(ok))
        BY <1>8 DEF ExtractFile
    <2>3. Put(ok) \in [Paths -> Rows]
        BY <1>8, CurType DEF ExtractFile
    <2>4. Put(ok)[cur] # NoRow /\ \A q \in Paths : q # cur => Put(ok)[q] = row[q]
        BY <1>0, <2>1 DEF Put, Record, NoRow
    <2>5. QED BY <1>0, <2>1, <2>2, <2>3, <2>4, ReturnComplete
<1>9. CASE \E q \in Paths : ScanRow(q)
    <2>1. PICK q \in Paths : ScanRow(q)
        BY <1>9
    <2>2. /\ pc = "scan" /\ pc' = "scan" /\ task = "batch"
          /\ gone' = (IF ~Indexable(q) THEN gone \cup {q} ELSE gone)
          /\ UNCHANGED <<queue, excluded, row, task, batch, missed>>
        BY <1>0, <2>1 DEF ScanRow, ExclusionInv, Indexable
    <2>3. QED BY <1>0, <1>a, <1>b, <2>2 DEF CompleteAt, Queuing, Arriving
<1>10. CASE PurgeGone
    <2>1. /\ pc = "scan" /\ task = "batch" /\ gone' = {}
          /\ \A p \in Paths : row'[p] = IF p \in gone THEN NoRow ELSE row[p]
          /\ UNCHANGED <<queue, excluded, task, todo, batch, missed>>
        BY <1>0, <1>10 DEF PurgeGone, ExclusionInv
    <2>2. QED BY <1>0, <1>a, <1>b, <2>1 DEF CompleteAt, Queuing, Arriving
<1>11. CASE TakeBatch
    <2>1. pc = "idle" /\ batch = <<>> /\ gone = {} /\ UNCHANGED <<excluded, task, todo, gone, row, missed>>
        BY <1>11 DEF TakeBatch, PlaceInv
    <2>2. batch' \in Seq(Items) /\ queue' \in Seq(Items) /\ queue = batch' \o queue'
        BY <1>11, TakeSplits
    <2>3. \A X : Holds(batch' \o queue', X) => Holds(batch', X) \/ Holds(queue', X)
        BY <2>2, ConcatHolds
    <2>4. \A X : ~Holds(<<>>, X)
        BY NoneHolds
    <2>5. QED BY <1>0, <1>a, <1>b, <2>1, <2>2, <2>3, <2>4 DEF CompleteAt, Queuing, Arriving
<1>12. CASE BatchItem
    <2>1. /\ pc = "batch" /\ batch # <<>> /\ gone = {}
          /\ UNCHANGED <<queue, excluded, task, todo, gone, missed>>
        BY <1>12 DEF BatchItem, PlaceInv
    <2>2. Head(batch) \in Items
        BY <1>0, <2>1
    <2>3. cur \in Paths /\ Head(batch).kind \in {"Index", "Remove"}
        BY <2>2 DEF cur, Items
    <2>4. CASE Head(batch).kind = "Remove"
        <3>1. batch' = Tail(batch) /\ row' = Removed /\ Head(batch) = Remove(cur)
            <4>1. Head(batch) = [kind |-> Head(batch).kind, path |-> Head(batch).path]
                BY <2>2 DEF Items
            <4>2. QED BY <1>12, <2>4, <4>1 DEF BatchItem, Remove, cur
        <3>2. \A p \in Paths : p # cur => row'[p] = row[p]
            BY <1>0, <2>3, <3>1 DEF Removed
        <3>3. ASSUME NEW p \in Paths, CompleteAt(p), RemoveAt(p), Indexable(p) PROVE CompleteAt(p)'
            <4>1. Queuing(p)' <=> Queuing(p)
                BY <1>0, <1>b, <2>1 DEF Queuing, Arriving
            <4>2. Head(batch) \notin {Index(p)}
                BY <2>4 DEF Index
            <4>3. Holds(batch, {Index(p)}) => Head(batch) \in {Index(p)} \/ Holds(batch', {Index(p)})
                BY <1>0, <2>1, <3>1, TailHolds
            <4>4. p = cur => Queuing(p) \/ Holds(batch', {Index(p)})
                <5>1. Followed(batch, {Remove(p)}, {Index(p)}) =>
                         (Head(batch) \in {Remove(p)} => Holds(Tail(batch), {Index(p)}))
                    BY <1>0, <2>1, TailFollowed
                <5>2. QED BY <3>1, <3>3, <5>1 DEF RemoveAt
            <4>5. QED BY <1>b, <2>1, <3>2, <3>3, <4>1, <4>2, <4>3, <4>4 DEF CompleteAt
        <3>4. QED BY <1>a, <2>1, <3>3
    <2>5. CASE Head(batch).kind = "Index"
        <3>1. UNCHANGED <<batch, row>>
            BY <1>12, <2>5 DEF BatchItem
        <3>2. QED BY <1>0, <1>a, <1>b, <2>1, <3>1 DEF CompleteAt, Queuing, Arriving
    <2>6. QED BY <2>3, <2>4, <2>5
<1>13. QED
    BY <1>1, <1>2, <1>3, <1>4, <1>5, <1>6, <1>7, <1>8, <1>9, <1>10, <1>11, <1>12 DEF Worker

\* Every step leaves a file that is there with a row or with work that will write one.
LEMMA NextComplete ==
    TypeInv /\ ExclusionInv /\ PlaceInv /\ RemoveInv /\ CompleteInv /\ [Next]_vars => CompleteInv'
<1> SUFFICES ASSUME TypeInv, ExclusionInv, PlaceInv, RemoveInv, CompleteInv, [Next]_vars
             PROVE  CompleteInv'
    OBVIOUS
<1>1. CASE UNCHANGED vars \/ Control
    <2>1. /\ UNCHANGED <<file, open, kq, queue, batch, pc, task, todo, gone, row, missed, lost>>
          /\ excluded \subseteq excluded'
        BY <1>1 DEF vars, Control, RequestReconcile, RequestReindex, AddRuntimeExclude, fsVars,
                    watchVars, flagVars, workVars, history
    <2>2. \A p \in Paths : CompleteAt(p) => CompleteAt(p)'
        BY <2>1 DEF CompleteAt, Arriving, Queuing, Indexable, Exists, IsExcluded, Arrives, Index,
                    Events, Indexed
    <2>3. QED BY <2>1, <2>2 DEF CompleteInv
<1>2. CASE Crash
    <2>1. missed' = Paths
        BY <1>2 DEF Crash, Stop
    <2>2. QED BY <2>1 DEF CompleteInv
<1>3. QED BY <1>1, <1>2, FileSystemComplete, WatcherComplete, WorkerComplete DEF Next

-----------------------------------------------------------------------------
(***************************************************************************)
(* A row marked Indexed has its text.                                      *)
(***************************************************************************)

Bodied(r) == r.state = "Indexed" => r.body # NoBody
Written(r) == r.hash # NoHash => r.state # "none"
Sure == "exterror" \notin env.ops /\ ~torn /\ pc # "dropped"

BodyInv == \A p \in Paths : \A r \in {row[p], saved[p]} : Written(r) /\ (Sure => Bodied(r))

\* Rows kept, committed or written with their text keep the invariant.
LEMMA BodyStep ==
    ASSUME TypeInv, BodyInv, Sure' => Sure,
           \A p \in Paths : row'[p] \in {row[p], saved[p]} \/ (Written(row'[p]) /\ (Sure' => Bodied(row'[p]))),
           \A p \in Paths : saved'[p] \in {row'[p], row[p], saved[p]}
    PROVE  BodyInv'
<1> SUFFICES ASSUME NEW p \in Paths
             PROVE  /\ Written(row'[p]) /\ (Sure' => Bodied(row'[p]))
                    /\ Written(saved'[p]) /\ (Sure' => Bodied(saved'[p]))
    BY DEF BodyInv, Written, Bodied
<1>1. /\ Written(row[p]) /\ (Sure => Bodied(row[p]))
      /\ Written(saved[p]) /\ (Sure => Bodied(saved[p]))
    BY DEF BodyInv
<1>2. QED BY <1>1

\* A step of the worker marks no row Indexed without its text.
LEMMA WorkerBody == TypeInv /\ VersionInv /\ BodyInv /\ Worker => BodyInv'
<1> SUFFICES ASSUME TypeInv, VersionInv, BodyInv, Worker PROVE BodyInv'
    OBVIOUS
<1>0. /\ UNCHANGED env /\ torn' = (torn /\ pc # "dropped") /\ task \in {"crawl", "batch"}
      /\ row \in [Paths -> Rows]
    BY DEF Worker, fsVars, TypeInv, TypeOK
<1>n. Written(NoRow) /\ Bodied(NoRow)
    BY DEF Written, Bodied, NoRow, NoHash
<1>1. CASE ClearDocs
    <2>1. pc' = "dropped" /\ saved' = row' /\ \A p \in Paths : row'[p] = [row[p] EXCEPT !.body = NoBody]
        BY <1>1 DEF ClearDocs
    <2>2. ~Sure'
        BY <2>1 DEF Sure
    <2>3. ASSUME NEW p \in Paths PROVE Written(row'[p])
        <3>1. row[p] \in Rows /\ Written(row[p])
            BY <1>0 DEF BodyInv
        <3>2. row'[p].hash = row[p].hash /\ row'[p].state = row[p].state
            BY <2>1, <3>1 DEF Rows
        <3>3. QED BY <3>1, <3>2 DEF Written
    <2>4. QED BY <2>1, <2>2, <2>3, BodyStep
<1>2. CASE ClearFiles
    <2>1. \A p \in Paths : row'[p] = NoRow /\ saved'[p] = NoRow
        BY <1>2 DEF ClearFiles
    <2>2. QED BY <1>n, <2>1 DEF BodyInv, Written, Bodied
<1>3. pc # "dropped" /\ pc' # "dropped" => (Sure' => Sure)
    BY <1>0 DEF Sure
<1>4. CASE \/ Start \/ BeginPass \/ CrawlBegin \/ CrawlEnd \/ TakeBatch \/ BatchEnd
           \/ \E p \in Paths : CrawlFile(p) \/ ScanRow(p)
    <2>1. pc # "dropped" /\ pc' # "dropped" /\ row' = row /\ saved' \in {row, saved}
        BY <1>4 DEF Start, BeginPass, CrawlBegin, AfterCap, CrawlEnd, TakeBatch, BatchEnd, CrawlFile, ScanRow
    <2>2. QED BY <1>3, <2>1, BodyStep
<1>5. CASE PurgeGone \/ BatchItem
    <2>1. /\ pc # "dropped" /\ pc' # "dropped" /\ saved' \in {row', saved}
          /\ \A p \in Paths : row'[p] \in {row[p], NoRow}
        BY <1>0, <1>5 DEF PurgeGone, BatchItem, Removed
    <2>2. \A p \in Paths : row'[p] \in {row[p], saved[p]} \/ (Written(row'[p]) /\ (Sure' => Bodied(row'[p])))
        BY <1>n, <2>1
    <2>3. QED BY <1>3, <2>1, <2>2, BodyStep
<1>6. ASSUME NEW r \in [Paths -> Rows], Return(r), pc \in {"stat", "hash", "extract"}, cur \in Paths,
             \A p \in Paths : p # cur => r[p] = row[p],
             r[cur] = row[cur] \/ (Written(r[cur]) /\ (Sure => Bodied(r[cur])))
      PROVE  BodyInv'
    <2>1. pc # "dropped" /\ pc' # "dropped" /\ row' = r /\ saved' \in {r, saved}
        BY <1>0, <1>6 DEF Return
    <2>2. Sure' => Sure
        BY <1>3, <2>1
    <2>3. \A p \in Paths : row'[p] \in {row[p], saved[p]} \/ (Written(row'[p]) /\ (Sure' => Bodied(row'[p])))
        BY <1>6, <2>1, <2>2
    <2>4. QED BY <2>1, <2>2, <2>3, BodyStep
<1>7. ASSUME UNCHANGED <<row, saved>>, pc \in {"stat", "hash"}, pc' \in {"hash", "extract"} PROVE BodyInv'
    <2>1. Sure' => Sure
        BY <1>3, <1>7
    <2>2. QED BY <1>7, <2>1, BodyStep
<1>8. CASE StatFile
    <2>1. cur \in Paths /\ Removed \in [Paths -> Rows] /\ pc = "stat"
        BY <1>8, CurType DEF StatFile
    <2>2. CASE Return(Removed)
        <3>1. Removed[cur] = NoRow /\ \A q \in Paths : q # cur => Removed[q] = row[q]
            BY <1>0, <2>1 DEF Removed
        <3>2. QED BY <1>6, <1>n, <2>1, <2>2, <3>1
    <2>3. CASE Return(row)
        BY <1>0, <1>6, <2>1, <2>3
    <2>4. CASE ~Return(Removed) /\ ~Return(row)
        BY <1>7, <1>8, <2>4 DEF StatFile
    <2>5. QED BY <2>2, <2>3, <2>4
<1>9. CASE HashFile
    <2>1. cur \in Paths /\ Touched \in [Paths -> Rows] /\ pc = "hash" /\ row[cur] \in Rows
        BY <1>0, <1>9, CurType DEF HashFile
    <2>2. CASE SameHash(row[cur], file[cur].data)
        <3> DEFINE r == [row[cur] EXCEPT !.mtime = seen.mtime, !.state = "Indexed"]
        <3>1. r.state = "Indexed" /\ r.body = row[cur].body
            BY <2>1 DEF Rows
        <3>2. \A p \in Paths : Touched[p] = IF p = cur THEN r ELSE row[p]
            BY <1>0, <2>1 DEF Touched
        <3> HIDE DEF r
        <3>3. row[cur].hash = file[cur].data /\ row[cur].hash # NoHash /\ Exists(cur)
            BY <2>2 DEF SameHash, NoHash, Exists, NoFile
        <3>4. Written(row[cur]) /\ (Sure => Bodied(row[cur])) /\ Faithful(row[cur], cur)
            BY <2>1 DEF BodyInv, VersionInv, Honest
        <3>5. Sure => row[cur].state = "Indexed"
            BY <2>1, <3>3, <3>4 DEF Faithful, Written, Sure, Rows
        <3>6. Written(r) /\ (Sure => Bodied(r))
            BY <3>1, <3>4, <3>5 DEF Written, Bodied
        <3>7. Return(Touched)
            BY <1>9, <2>2 DEF HashFile
        <3>8. Touched[cur] = r /\ \A p \in Paths : p # cur => Touched[p] = row[p]
            BY <2>1, <3>2
        <3>9. QED BY <1>6, <2>1, <3>6, <3>7, <3>8
    <2>3. CASE ~SameHash(row[cur], file[cur].data)
        BY <1>7, <1>9, <2>3 DEF HashFile
    <2>4. QED BY <2>2, <2>3
<1>10. CASE ExtractFile
    <2>1. Exists(cur) => file[cur].data # 0
        <3>1. cur \in Paths /\ clock \in Nat
            BY <1>10, CurType, ContentIndexAssumption DEF ExtractFile, TypeInv, TypeOK
        <3>2. QED BY <1>10, <3>1 DEF ExtractFile, VersionInv, FilesInv
    <2>2. PICK ok \in BOOLEAN : Return(Put(ok)) /\ (ok => Exists(cur))
        BY <1>10 DEF ExtractFile
    <2>3. Put(ok) \in [Paths -> Rows] /\ cur \in Paths /\ pc = "extract"
        BY <1>10, CurType DEF ExtractFile
    <2>4. Put(ok)[cur] = Record(seen.mtime, ok) /\ \A q \in Paths : q # cur => Put(ok)[q] = row[q]
        BY <1>0, <2>3 DEF Put
    <2>5. Written(Record(seen.mtime, ok)) /\ Bodied(Record(seen.mtime, ok))
        BY <2>1, <2>2 DEF Record, Written, Bodied, NoBody
    <2>6. QED BY <1>6, <2>2, <2>3, <2>4, <2>5
<1>11. QED BY <1>1, <1>2, <1>4, <1>5, <1>8, <1>9, <1>10 DEF Worker

\* Every step keeps the text of the rows marked Indexed.
LEMMA NextBody == TypeInv /\ VersionInv /\ BodyInv /\ [Next]_vars => BodyInv'
<1> SUFFICES ASSUME TypeInv, VersionInv, BodyInv, [Next]_vars PROVE BodyInv'
    OBVIOUS
<1>1. CASE UNCHANGED vars \/ FileSystem \/ Watcher \/ Control
    <2>1. UNCHANGED <<env, pc, torn, row, saved>>
        BY <1>1 DEF vars, FileSystem, Watcher, StartWatch, DrainEvent, DrainEnd, FlushPending, Control,
                    fsVars, workVars, history
    <2>2. QED BY <2>1 DEF BodyInv, Sure, Written, Bodied
<1>2. CASE Crash
    <2>1. /\ env' = env /\ pc' = "down" /\ torn' = (torn \/ pc = "dropped")
          /\ saved' = row' /\ (row' = row \/ row' = saved)
        BY <1>2 DEF Crash, Stop, fsVars
    <2>2. Sure' => Sure
        BY <2>1 DEF Sure
    <2>3. QED BY <2>1, <2>2, BodyStep
<1>3. QED BY <1>1, <1>2, WorkerBody DEF Next

-----------------------------------------------------------------------------
(***************************************************************************)
(* Once everything has settled.                                            *)
(***************************************************************************)

SettledInv ==
    TypeInv /\ ExclusionInv /\ PlaceInv /\ VersionInv /\ SoundInv /\ RemoveInv /\ CompleteInv /\ BodyInv

\* The invariant holds initially.
LEMMA InitSettled == Init => SettledInv
<1> SUFFICES ASSUME Init PROVE SettledInv
    OBVIOUS
<1> USE DEF Init
<1>1. TypeInv
    BY InitType
<1>2. \A X, Y : ~Holds(<<>>, X) /\ Followed(<<>>, X, Y)
    BY NoneHolds
<1>3. ExclusionInv /\ PlaceInv
    BY <1>2 DEF ExclusionInv, InPass, PlaceInv
<1>4. \A p \in Paths : ~Exists(p) /\ row[p] = NoRow /\ saved[p] = NoRow /\ ~open[p]
    BY DEF Exists
<1>5. ~AtFile
    BY DEF AtFile
<1>6. FilesInv
    BY <1>4 DEF FilesInv
<1>7. VersionInv
    BY <1>1, <1>4, <1>5, <1>6, NoRowHonest DEF VersionInv
<1>8. SoundInv /\ RemoveInv /\ CompleteInv
    BY <1>4, <1>5 DEF SoundInv, SoundAt, Stale, Orphan, InHand, RemoveInv, RemoveAt, CompleteInv,
                      CompleteAt, Indexable
<1>9. BodyInv
    BY <1>4 DEF BodyInv, Written, Bodied, NoRow, NoHash
<1>10. QED BY <1>1, <1>3, <1>7, <1>8, <1>9 DEF SettledInv

\* Every step keeps the invariant.
LEMMA NextSettled == SettledInv /\ [Next]_vars => SettledInv'
<1> SUFFICES ASSUME SettledInv, [Next]_vars PROVE SettledInv'
    OBVIOUS
<1>1. TypeInv' /\ ExclusionInv' /\ PlaceInv'
    BY NextType, NextExclusion, NextPlace DEF SettledInv
<1>2. QED
    BY <1>1, NextVersion, NextSound, NextRemove, NextComplete, NextBody DEF SettledInv

\* When nothing is under way, nothing is coming, and so nothing is wrong.
LEMMA SettledExact == SettledInv => QuietExact
<1> SUFFICES ASSUME SettledInv, Quiet PROVE QuietExact
    BY DEF QuietExact
<1>1. /\ pc = "idle" /\ kq = <<>> /\ queue = <<>> /\ pending = <<>> /\ batch = <<>> /\ gone = {}
      /\ task = "batch" /\ ~reconcile /\ ~reindex /\ \A p \in Paths : ~open[p]
    BY DEF Quiet, SettledInv, PlaceInv, ExclusionInv, TypeInv, TypeOK
<1>2. \A X, Y : ~Holds(<<>>, X) /\ Followed(<<>>, X, Y)
    BY NoneHolds
<1>3. \A p \in Paths : ~Coming(p) /\ ~Reclaimed(p) /\ ~Queuing(p)
    BY <1>1, <1>2 DEF Coming, Reclaimed, Batched, PassComing, Queuing, Arriving
<1>4. ASSUME NEW p \in Paths \ Untold, row[p] # NoRow
      PROVE  Indexable(p) /\ row[p].mtime = file[p].mtime
    <2>1. ~Stale(p) /\ ~Orphan(p)
        BY <1>3 DEF SettledInv, SoundInv, SoundAt
    <2>2. QED BY <1>4, <2>1 DEF Stale, Orphan
<1>5. ASSUME NEW p \in Paths \ Untold PROVE Sound(p)
    <2>1. Faithful(row[p], p)
        BY DEF SettledInv, VersionInv, Honest
    <2>2. QED BY <1>4, <2>1 DEF Sound, Faithful, Indexable
<1>6. ASSUME NEW p \in Paths \ (missed \cup lost) PROVE Complete(p)
    <2>1. CompleteAt(p)
        BY DEF SettledInv, CompleteInv
    <2>2. QED BY <1>1, <1>2, <1>3, <2>1 DEF CompleteAt, Complete
<1>7. ASSUME "exterror" \notin env.ops, ~torn, NEW p \in Paths \ Untold PROVE Searchable(p)
    <2>1. Bodied(row[p])
        BY <1>1, <1>7 DEF SettledInv, BodyInv, Sure
    <2>2. row[p].state = "Indexed" => row[p] # NoRow
        BY DEF NoRow
    <2>3. QED BY <1>5, <2>1, <2>2 DEF Sound, Searchable, Bodied
<1>8. QED BY <1>5, <1>6, <1>7 DEF QuietExact

\* Once everything has settled the index describes the files that are there, save what the
\* indexer was never told of: for any number of files, any batch size, cap and queue, and
\* whatever crashes, overflows, rebuilds, exclusions and passes there were on the way.
THEOREM SettlesExact == Spec => []QuietExact
<1>1. Spec => []SettledInv
    BY InitSettled, NextSettled, PTL DEF Spec
<1>2. QED BY <1>1, SettledExact, PTL
=============================================================================
