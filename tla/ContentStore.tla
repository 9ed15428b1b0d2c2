---------------------------- MODULE ContentStore ----------------------------
(***************************************************************************)
(* The writer of the content index: one SQLite database with the tables    *)
(* files, docs and files_fts, the triggers that keep the third in step     *)
(* with the second, and the version and match mode they were built for.    *)
(*                                                                         *)
(* A statement outside a transaction commits by itself, so opening with    *)
(* another match mode (drop everything, build it again) and Store::clear   *)
(* are sequences of commits: the process may die between any two, and a    *)
(* statement that fails is not looked at and the next one runs.  A CREATE  *)
(* that fails closes the store, which is what a crash there leaves.        *)
(*                                                                         *)
(* A row's `hash' names the bytes it was made from; the text extracted     *)
(* from them is named by the same value, or is Empty.                      *)
(***************************************************************************)
EXTENDS Naturals, FiniteSets

CONSTANTS
    Paths, Hashes, Modes,
    MaxId,           \* bound on row ids
    MaxInode,        \* bound on how often the file is made anew
    Environments,    \* what may happen in a run of the system, besides put and remove
    Under,           \* Under[p]: p and the paths below it (kSubtreeWhere)
    Empty,           \* the text of a file nothing could be extracted from
    None             \* no row, no doc, no postings, no mode

Texts == Hashes \cup {Empty}
Ids == 1..MaxId

AllOps == {"error", "batch", "touch", "tombstone", "clear", "mode", "fail", "crash", "corrupt", "search"}

ASSUME ContentStoreAssumption ==
    /\ Environments \subseteq SUBSET AllOps
    /\ MaxId \in Nat /\ MaxInode \in Nat
    /\ Empty \notin Hashes /\ None \notin Texts \cup Modes \cup Paths
    /\ Under \in [Paths -> SUBSET Paths] /\ \A p \in Paths : p \in Under[p]

VARIABLES
    env,     \* chosen once
    disk,    \* the database as committed
    work,    \* the database as the writer's connection sees it
    tx,      \* a transaction is open
    inode,   \* which file the path names: recreate_db unlinks it
    st,      \* the writer: "down", in one of the steps of open, "up", in clear
    mode,    \* the match mode it was opened with
    torn     \* history: a rebuild or a clear was cut short or done in part, or a
             \* tombstone was touched

vars == <<env, disk, work, tx, inode, st, mode, torn>>

Objects == {"files", "docs", "fts", "triggers"}

States == {"indexed", "tombstone", "error"}
Row == [path : Paths, hash : Hashes, state : States]
NoRow == [path |-> None, hash |-> None, state |-> "none"]

\* `built' is the mode of files_fts itself, and `match' the one that meta names.
Database ==
    [has : SUBSET Objects, rows : [Ids -> Row \cup {NoRow}],
     docs : [Ids -> Texts \cup {None}], postings : [Ids -> Texts \cup {None}],
     built : Modes \cup {None}, match : Modes \cup {None}, current : BOOLEAN, sound : BOOLEAN]

Blank == [has |-> {}, rows |-> [i \in Ids |-> NoRow], docs |-> [i \in Ids |-> None],
          postings |-> [i \in Ids |-> None], built |-> None, match |-> None, current |-> FALSE, sound |-> TRUE]

Fresh(m, c) ==
    [has |-> Objects, rows |-> Blank.rows, docs |-> Blank.docs, postings |-> Blank.postings,
     built |-> m, match |-> m, current |-> c, sound |-> TRUE]

\* No file yet, or the empty index of this version or of an older one.
Init ==
    /\ env \in Environments
    /\ \/ disk = Blank
       \/ \E m \in Modes, c \in BOOLEAN : disk = Fresh(m, c)
    /\ work = disk /\ tx = FALSE /\ inode = 0
    /\ st = "down" /\ mode \in Modes /\ torn = FALSE

-----------------------------------------------------------------------------
(* SQL *)

HasRow(db) == {i \in Ids : db.rows[i] # NoRow}
IdsAt(db, S) == {i \in Ids : db.rows[i].path \in S}
IdsIn(db, s) == {i \in Ids : db.rows[i].state = s}

\* A path keeps its row; a new row takes the largest id and one, so ids come back.
IsIdFor(db, p, i) ==
    \/ i \in IdsAt(db, {p})
    \/ IdsAt(db, {p}) = {} /\ i - 1 \in HasRow(db) \cup {0} /\ \A j \in HasRow(db) : j < i

\* INSERT ... ON CONFLICT DO UPDATE into docs, with docs_ai or docs_au.
WithDoc(db, i, text) ==
    [db EXCEPT !.docs[i] = text,
               !.postings[i] = IF "triggers" \in db.has THEN text ELSE @]

\* DELETE FROM docs, with docs_ad.
WithoutDocs(db, I) ==
    [db EXCEPT !.docs = [i \in Ids |-> IF i \in I THEN None ELSE @[i]],
               !.postings = [i \in Ids |-> IF i \in I /\ db.docs[i] # None
                                               /\ "triggers" \in db.has
                                           THEN None ELSE @[i]]]

WithoutRows(db, I) ==
    [db EXCEPT !.rows = [i \in Ids |-> IF i \in I THEN NoRow ELSE @[i]]]

\* A bug: an edit in a transaction is visible at once.
WriteThrough(db) == work' = db /\ disk' = db

\* Outside a transaction a statement commits as it ends.
Write(db) == work' = db /\ disk' = IF tx THEN disk ELSE db

\* A bug: a statement that fails leaves what the one before it did.
NoRollback(ok, db) == IF ok THEN db ELSE [work EXCEPT !.rows = db.rows]

\* SAVEPOINT, the statements, RELEASE; or ROLLBACK TO when one of them fails.
Savepoint(ok, db) == IF ok THEN db ELSE work

\* exec(...) whose result is ignored.
Attempt(ok, db) == (ok \/ "fail" \in env) /\ Write(IF ok THEN db ELSE work)

-----------------------------------------------------------------------------
(* Opening *)

Schema == <<"files", "docs", "fts", "triggers">>

Stale(db) == ~db.sound \/ ("files" \in db.has /\ ~db.current)

\* What ensure_match_mode has to do for mode m.
FirstStep(db, m) ==
    IF "fts" \notin db.has THEN "build" ELSE IF db.match = m THEN "up" ELSE "drop"

Open(m) ==
    /\ st = "down"
    /\ mode' = m /\ (m = mode \/ "mode" \in env)
    /\ IF Stale(disk)
       THEN inode < MaxInode /\ inode' = inode + 1 /\ disk' = Blank /\ torn' = FALSE
       ELSE UNCHANGED <<inode, disk, torn>>
    /\ work' = disk' /\ st' = FirstStep(disk', m)
    /\ UNCHANGED tx

\* The next of: triggers, files_fts, docs, files.
DropObject ==
    /\ st = "drop"
    /\ \E k \in 1..4 :
        /\ Schema[k] \in work.has /\ \A j \in (k + 1)..4 : Schema[j] \notin work.has
        /\ Write([work EXCEPT !.has = @ \ {Schema[k]},
                  !.postings = IF k = 3 THEN Blank.postings ELSE @,
                  !.docs = IF k = 2 THEN Blank.docs ELSE @,
                  !.rows = IF k = 1 THEN Blank.rows ELSE @])
        /\ st' = IF k = 1 THEN "build" ELSE "drop"
        /\ torn' = (torn /\ k # 1)
    /\ UNCHANGED <<tx, inode, mode>>

\* The DROPs are one exec, which stops at the one that fails; what is left is kept, an old
\* files_fts under the new mode.
DropFails ==
    /\ "fail" \in env /\ st = "drop" /\ st' = "build" /\ torn' = TRUE
    /\ UNCHANGED <<disk, work, tx, inode, mode>>

\* CREATE ... IF NOT EXISTS, in order.
CreateObject ==
    /\ st = "build"
    /\ \E k \in 1..4 :
        /\ Schema[k] \notin work.has /\ \A j \in 1..(k - 1) : Schema[j] \in work.has
        /\ Write([work EXCEPT !.has = @ \cup {Schema[k]}, !.built = IF k = 3 THEN mode ELSE @])
    /\ UNCHANGED <<tx, inode, st, mode, torn>>

RecordMode ==
    /\ st = "build" /\ work.has = Objects
    /\ Write([work EXCEPT !.match = mode]) /\ st' = "version"
    /\ UNCHANGED <<tx, inode, mode, torn>>

RecordVersion ==
    /\ st = "version"
    /\ Write([work EXCEPT !.current = TRUE]) /\ st' = "up"
    /\ UNCHANGED <<tx, inode, mode, torn>>

-----------------------------------------------------------------------------
(* The open store *)

Up == st = "up" /\ UNCHANGED <<inode, st, mode>>
Idle == Up /\ UNCHANGED torn

\* Within a transaction begin() does nothing, and so does commit() outside one.
Begin == Idle /\ "batch" \in env /\ ~tx /\ tx' = TRUE /\ UNCHANGED <<disk, work>>

Commit == Idle /\ tx /\ tx' = FALSE /\ disk' = work /\ UNCHANGED work

Upserted(p, h, s, i) ==
    WithDoc([work EXCEPT !.rows[i] = [path |-> p, hash |-> h, state |-> s]], i,
            IF s = "error" THEN Empty ELSE h)

Put(p, h, s, ok) ==
    /\ Idle /\ UNCHANGED tx /\ (s = "error" => "error" \in env)
    /\ \E i \in Ids : IsIdFor(work, p, i) /\ Write(Savepoint(ok, Upserted(p, h, s, i)))

\* A tombstone that is touched is live again, and has no doc.
Touch(p) ==
    /\ Up /\ "touch" \in env /\ UNCHANGED tx
    /\ \E i \in IdsAt(work, {p}) :
        /\ Write([work EXCEPT !.rows[i].state = "indexed"])
        /\ torn' = (torn \/ work.rows[i].state = "tombstone")

\* remove(p), and remove_subtree(p) with the paths below.
Removed(S) == WithoutRows(WithoutDocs(work, IdsAt(work, S)), IdsAt(work, S))

RemovePaths(p, S, ok) ==
    /\ Idle /\ UNCHANGED tx
    /\ S \in {{p}, Under[p]} /\ Write(Savepoint(ok, Removed(S)))

Tombstoned(i) == [WithoutDocs(work, {i}) EXCEPT !.rows[i].state = "tombstone"]

Tombstone(p, ok) ==
    /\ Idle /\ "tombstone" \in env /\ UNCHANGED tx
    /\ \E i \in IdsAt(work, {p}) : Write(Savepoint(ok, Tombstoned(i)))

\* A tombstone lost its doc when it was made, so the two statements need no savepoint.
Maintain ==
    /\ Idle /\ ~tx /\ UNCHANGED tx
    /\ LET gone == IdsIn(work, "tombstone")
       IN  Write(WithoutRows(WithoutDocs(work, gone), gone))

ClearDocs(ok) ==
    /\ st = "up" /\ ~tx /\ "clear" \in env
    /\ Attempt(ok, WithoutDocs(work, Ids)) /\ st' = "clear_files"
    /\ UNCHANGED <<tx, inode, mode, torn>>

\* The documents go and the rows stay, or the rows go and the documents stay.
OnlyOne(ok) == ok # (work.docs = Blank.docs)

ClearFiles(ok) ==
    /\ st = "clear_files"
    /\ Attempt(ok, WithoutRows(work, Ids)) /\ st' = "clear_rebuild"
    /\ torn' = (torn \/ OnlyOne(ok))
    /\ UNCHANGED <<tx, inode, mode>>

\* 'rebuild' reads the text back through docs_v; with both tables empty nothing is torn.
ClearRebuild(ok) ==
    /\ st = "clear_rebuild"
    /\ Attempt(ok, [work EXCEPT !.postings = work.docs]) /\ st' = "up"
    /\ torn' = (torn /\ ~(ok /\ work.rows = Blank.rows /\ work.docs = Blank.docs
                             /\ "triggers" \in work.has))
    /\ UNCHANGED <<tx, inode, mode>>

-----------------------------------------------------------------------------

\* Only a crash between two of their commits leaves a rebuild or a clear half done; a new
\* database has no mode yet, and the next open starts it again.
HalfDone == st \in {"drop", "clear_files"} \/ (st = "build" /\ work.match # None)

Crash ==
    /\ "crash" \in env /\ st # "down" /\ st' = "down"
    /\ tx' = FALSE /\ work' = disk
    /\ torn' = (torn \/ HalfDone)
    /\ UNCHANGED <<disk, inode, mode>>

\* What quick_check finds.
Corrupt ==
    /\ "corrupt" \in env /\ st = "down" /\ disk.has # {} /\ inode < MaxInode
    /\ disk' = [disk EXCEPT !.sound = FALSE] /\ work' = disk'
    /\ UNCHANGED <<tx, inode, st, mode, torn>>

Opening == (\E m \in Modes : Open(m)) \/ DropObject \/ DropFails \/ CreateObject \/ RecordMode \/ RecordVersion

Writing ==
    \E p \in Paths, ok \in BOOLEAN :
        \/ \E h \in Hashes, s \in {"indexed", "error"} : Put(p, h, s, ok)
        \/ Touch(p)
        \/ \E S \in SUBSET Paths : RemovePaths(p, S, ok)
        \/ Tombstone(p, ok)

Next ==
    \/ Opening \/ Begin \/ Commit \/ Writing \/ Maintain
    \/ \E ok \in BOOLEAN : ClearDocs(ok) \/ ClearFiles(ok) \/ ClearRebuild(ok)
    \/ Crash \/ Corrupt

Step == Next /\ UNCHANGED env

Spec == Init /\ [][Step]_vars

-----------------------------------------------------------------------------
(* What must hold *)

\* Every part has its type.
TypeOK ==
    /\ env \in Environments
    /\ disk \in Database /\ work \in Database /\ (~tx => work = disk)
    /\ tx \in BOOLEAN /\ inode \in 0..MaxInode /\ torn \in BOOLEAN /\ mode \in Modes
    /\ st \in {"down", "drop", "build", "version", "up", "clear_files", "clear_rebuild"}

Live(row) == row.state \in {"indexed", "error"}

\* The three tables tell one story, and a path has one row.
InStep(db) ==
    /\ \A i \in Ids :
        /\ db.postings[i] = db.docs[i]
        /\ db.docs[i] # None <=> Live(db.rows[i])
        /\ db.docs[i] \in {None, Empty, db.rows[i].hash}
    /\ \A i, j \in HasRow(db) : db.rows[i].path = db.rows[j].path => i = j

\* Store::put, remove, tombstone and the triggers: a row that is live can be found by the
\* text of the bytes its hash names, and nothing else can be found, in what the writer
\* sees and in what is committed, whichever statement of a put, a remove or a tombstone
\* failed and wherever the process died.  The exceptions: a rebuild or a clear cut short, a
\* DROP that failed, one DELETE of a clear that failed without the other, and a tombstone
\* touched (nothing in src/ calls tombstone, and touch does not look).
RowsInStep == st \in {"up", "down"} /\ ~torn => InStep(disk) /\ InStep(work)

\* What a search can find: the postings of rows that are there.
Findable(db) == {<<db.rows[i].path, db.postings[i]>> : i \in {j \in HasRow(db) : db.postings[j] # None}}

Promise == INSTANCE SearchIndex
    WITH published <- Findable(disk), draft <- Findable(work), batch <- tx, damaged <- torn

\* The store is the abstract index: what can be found changes by whole transactions, and a
\* crash brings back the last one; only over tables that a rebuild or a clear has put out of
\* step can the 'rebuild' of a clear bring back what could no longer be found.
Refines == Promise!Spec
=============================================================================
