------------------------ MODULE ContentStore_proofs ------------------------
(***************************************************************************)
(* Proofs about ContentStore and StoreSearch: the type invariant, that the *)
(* three tables stay in step, that the store implements SearchIndex, that  *)
(* the results of a search are true, and that a search with nothing        *)
(* committed meanwhile finds all there is, up to its limit.                *)
(***************************************************************************)
EXTENDS StoreSearch, SequenceTheorems, WellFoundedInduction, FiniteSetTheorems, TLAPS

\* What the writer's operations make of a database is one again.
LEMMA Shapes ==
    ASSUME NEW db \in Database
    PROVE  /\ \A i \in Ids, t \in Texts : WithDoc(db, i, t) \in Database
           /\ \A I : WithoutDocs(db, I) \in Database
           /\ \A I : WithoutRows(db, I) \in Database
           /\ \A i \in Ids, r \in Row : [db EXCEPT !.rows[i] = r] \in Database
<1>1. ASSUME NEW i \in Ids, NEW t \in Texts PROVE WithDoc(db, i, t) \in Database
  <2>1. CASE "triggers" \in db.has
      BY <2>1 DEF WithDoc, Database
  <2>2. CASE "triggers" \notin db.has
      BY <2>2 DEF WithDoc, Database
  <2> QED BY <2>1, <2>2
<1>2. ASSUME NEW I PROVE WithoutDocs(db, I) \in Database
  <2> DEFINE docs == [i \in Ids |-> IF i \in I THEN None ELSE db.docs[i]]
             postings == [i \in Ids |-> IF i \in I /\ db.docs[i] # None /\ "triggers" \in db.has
                                       THEN None ELSE db.postings[i]]
  <2>1. docs \in [Ids -> Texts \cup {None}] /\ postings \in [Ids -> Texts \cup {None}]
      BY DEF Database
  <2>2. WithoutDocs(db, I) = [db EXCEPT !.docs = docs, !.postings = postings]
      BY DEF WithoutDocs
  <2> HIDE DEF docs, postings
  <2> QED BY <2>1, <2>2 DEF Database
<1>3. ASSUME NEW I PROVE WithoutRows(db, I) \in Database
    BY DEF WithoutRows, Database
<1>4. ASSUME NEW i \in Ids, NEW r \in Row PROVE [db EXCEPT !.rows[i] = r] \in Database
    BY DEF Database
<1> QED BY <1>1, <1>2, <1>3, <1>4

LEMMA BlankType == Blank \in Database
BY DEF Blank, Database, Objects

LEMMA InitType == Init => TypeOK
<1> SUFFICES ASSUME Init PROVE TypeOK
    OBVIOUS
<1>1. disk \in Database
  <2>1. ASSUME NEW m \in Modes, NEW c \in BOOLEAN PROVE Fresh(m, c) \in Database
      BY BlankType DEF Database, Fresh
  <2> QED BY <2>1, BlankType DEF Init
<1>2. 0 \in 0..MaxInode
    BY ContentStoreAssumption
<1>3. env \in Environments /\ work = disk /\ tx = FALSE /\ inode = 0 /\ st = "down"
      /\ mode \in Modes /\ torn = FALSE
    BY DEF Init
<1> QED BY <1>1, <1>2, <1>3 DEF TypeOK

LEMMA StepType == TypeOK /\ [Step]_vars => TypeOK'
<1> SUFFICES ASSUME TypeOK, [Step]_vars PROVE TypeOK'
    OBVIOUS
<1> USE ContentStoreAssumption
<1>w. ASSUME NEW db \in Database, Write(db), tx' = tx
      PROVE  disk' \in Database /\ work' \in Database /\ (~tx' => work' = disk')
    BY <1>w DEF Write, TypeOK
<1>1. ASSUME NEW m \in Modes, Open(m), UNCHANGED env PROVE TypeOK'
  <2>1. disk' \in Database /\ inode' \in 0..MaxInode /\ torn' \in BOOLEAN
    <3>1. CASE Stale(disk)
      <4>1. inode < MaxInode /\ inode' = inode + 1 /\ disk' = Blank /\ torn' = FALSE
          BY <3>1, <1>1 DEF Open
      <4>2. inode' \in 0..MaxInode
          BY <4>1 DEF TypeOK
      <4> QED BY <4>1, <4>2, BlankType
    <3>2. CASE ~Stale(disk)
        BY <3>2, <1>1 DEF Open, TypeOK
    <3> QED BY <3>1, <3>2
  <2>2. FirstStep(disk', m) \in {"build", "up", "drop"}
      BY DEF FirstStep
  <2>3. work' = disk' /\ st' = FirstStep(disk', m) /\ mode' = m /\ tx' = tx
      BY <1>1 DEF Open
  <2> QED BY <1>1, <2>1, <2>2, <2>3 DEF TypeOK
<1>2. CASE DropObject /\ UNCHANGED env
  <2>1. PICK k \in 1..4 :
            /\ Write([work EXCEPT !.has = @ \ {Schema[k]},
                  !.postings = IF k = 3 THEN Blank.postings ELSE @,
                  !.docs = IF k = 2 THEN Blank.docs ELSE @,
                  !.rows = IF k = 1 THEN Blank.rows ELSE @])
            /\ st' = IF k = 1 THEN "build" ELSE "drop"
            /\ torn' = (torn /\ k # 1)
      BY <1>2 DEF DropObject
  <2>2. [work EXCEPT !.has = @ \ {Schema[k]},
                  !.postings = IF k = 3 THEN Blank.postings ELSE @,
                  !.docs = IF k = 2 THEN Blank.docs ELSE @,
                  !.rows = IF k = 1 THEN Blank.rows ELSE @] \in Database
    <3>1. Blank \in Database
        BY BlankType
    <3>2. /\ Blank.rows \in [Ids -> Row \cup {NoRow}]
          /\ Blank.docs \in [Ids -> Texts \cup {None}]
          /\ Blank.postings \in [Ids -> Texts \cup {None}]
        BY <3>1 DEF Database
    <3>3. work \in Database
        BY DEF TypeOK
    <3> QED BY <3>2, <3>3 DEF Database
  <2> QED BY <2>1, <2>2, <1>w, <1>2 DEF DropObject, TypeOK
<1>3. CASE CreateObject /\ UNCHANGED env
  <2>1. PICK k \in 1..4 : Write([work EXCEPT !.has = @ \cup {Schema[k]}, !.built = IF k = 3 THEN mode ELSE @])
      BY <1>3 DEF CreateObject
  <2>2. Schema[k] \in Objects
      BY DEF Schema, Objects
  <2>3. [work EXCEPT !.has = @ \cup {Schema[k]}, !.built = IF k = 3 THEN mode ELSE @] \in Database
      BY <2>2 DEF TypeOK, Database
  <2> QED BY <2>1, <2>3, <1>w, <1>3 DEF CreateObject, TypeOK
<1>4. CASE RecordMode /\ UNCHANGED env
  <2>1. [work EXCEPT !.match = mode] \in Database
      BY DEF TypeOK, Database
  <2> QED BY <2>1, <1>w, <1>4 DEF RecordMode, TypeOK
<1>5. CASE RecordVersion /\ UNCHANGED env
  <2>1. [work EXCEPT !.current = TRUE] \in Database
      BY DEF TypeOK, Database
  <2> QED BY <2>1, <1>w, <1>5 DEF RecordVersion, TypeOK
<1>6. CASE (Begin \/ Commit) /\ UNCHANGED env
    BY <1>6 DEF Begin, Commit, Idle, Up, TypeOK
<1>7. ASSUME NEW p \in Paths, NEW h \in Hashes, NEW s \in {"indexed", "error"}, NEW ok \in BOOLEAN,
             Put(p, h, s, ok), UNCHANGED env
      PROVE  TypeOK'
  <2>1. PICK i \in Ids : Write(Savepoint(ok, Upserted(p, h, s, i)))
      BY <1>7 DEF Put
  <2>2. [path |-> p, hash |-> h, state |-> s] \in Row
      BY DEF Row, States
  <2>3. Upserted(p, h, s, i) \in Database
      BY <2>2, Shapes DEF Upserted, TypeOK, Texts
  <2> QED BY <2>1, <2>3, <1>w, <1>7 DEF Put, Idle, Up, TypeOK, Savepoint
<1>8. ASSUME NEW p \in Paths, Touch(p), UNCHANGED env PROVE TypeOK'
  <2>1. PICK i \in IdsAt(work, {p}) :
            /\ Write([work EXCEPT !.rows[i].state = "indexed"])
            /\ torn' = (torn \/ work.rows[i].state = "tombstone")
      BY <1>8 DEF Touch
  <2>2. i \in Ids /\ work.rows[i] \in Row
      BY DEF IdsAt, TypeOK, Database, NoRow
  <2>3. [work EXCEPT !.rows[i].state = "indexed"] \in Database
      BY <2>2 DEF TypeOK, Database, Row, States
  <2> QED BY <2>1, <2>3, <1>w, <1>8 DEF Touch, Up, TypeOK
<1>9. ASSUME NEW p \in Paths, NEW S \in SUBSET Paths, NEW ok \in BOOLEAN, RemovePaths(p, S, ok), UNCHANGED env
      PROVE  TypeOK'
  <2>1. Removed(S) \in Database
      BY Shapes DEF Removed, TypeOK
  <2> QED BY <2>1, <1>w, <1>9 DEF RemovePaths, Idle, Up, TypeOK, Savepoint
<1>10. ASSUME NEW p \in Paths, NEW ok \in BOOLEAN, Tombstone(p, ok), UNCHANGED env PROVE TypeOK'
  <2>1. PICK i \in IdsAt(work, {p}) : Write(Savepoint(ok, Tombstoned(i)))
      BY <1>10 DEF Tombstone
  <2>2. i \in Ids /\ work.rows[i] \in Row
      BY DEF IdsAt, TypeOK, Database, NoRow
  <2> DEFINE cut == WithoutDocs(work, {i})
  <2>4. cut \in Database /\ cut.rows = work.rows
    <3>1. work \in Database
        BY DEF TypeOK
    <3>2. cut.rows = work.rows
        BY <3>1 DEF WithoutDocs, Database
    <3> QED BY <3>1, <3>2, Shapes
  <2> HIDE DEF cut
  <2>5. [cut EXCEPT !.rows[i].state = "tombstone"] \in Database
      BY <2>2, <2>4 DEF TypeOK, Database, Row, States
  <2>3. Tombstoned(i) \in Database
      BY <2>5 DEF Tombstoned, cut
  <2> QED BY <2>1, <2>3, <1>w, <1>10 DEF Tombstone, Idle, Up, TypeOK, Savepoint
<1>11. CASE Maintain /\ UNCHANGED env
  <2>1. \A I : WithoutRows(WithoutDocs(work, I), I) \in Database
      BY Shapes DEF TypeOK
  <2> QED BY <2>1, <1>w, <1>11 DEF Maintain, Idle, Up, TypeOK
<1>12. ASSUME NEW ok \in BOOLEAN, ClearDocs(ok) \/ ClearFiles(ok), UNCHANGED env PROVE TypeOK'
  <2>1. WithoutDocs(work, Ids) \in Database /\ WithoutRows(work, Ids) \in Database /\ work \in Database
      BY Shapes DEF TypeOK
  <2>2. torn' \in BOOLEAN
      BY <1>12 DEF ClearDocs, ClearFiles, OnlyOne, TypeOK
  <2>3. CASE ClearDocs(ok)
      BY <2>1, <2>2, <2>3, <1>w, <1>12 DEF ClearDocs, Attempt, TypeOK
  <2>4. CASE ClearFiles(ok)
      BY <2>1, <2>2, <2>4, <1>w, <1>12 DEF ClearFiles, Attempt, TypeOK
  <2> QED BY <1>12, <2>3, <2>4
<1>13. ASSUME NEW ok \in BOOLEAN, ClearRebuild(ok), UNCHANGED env PROVE TypeOK'
  <2>1. [work EXCEPT !.postings = work.docs] \in Database /\ work \in Database
      BY DEF TypeOK, Database
  <2>2. torn' \in BOOLEAN
      BY <1>13 DEF ClearRebuild, TypeOK
  <2> QED BY <2>1, <2>2, <1>w, <1>13 DEF ClearRebuild, Attempt, TypeOK
<1>14. CASE Crash /\ UNCHANGED env
    BY <1>14 DEF Crash, TypeOK
<1>15. CASE Corrupt /\ UNCHANGED env
  <2>1. [disk EXCEPT !.sound = FALSE] \in Database
      BY DEF TypeOK, Database
  <2> QED BY <2>1, <1>15 DEF Corrupt, TypeOK
<1>16. CASE UNCHANGED vars
    BY <1>16 DEF vars, TypeOK
<1>17. CASE DropFails /\ UNCHANGED env
    BY <1>17 DEF DropFails, TypeOK
<1> QED BY <1>1, <1>2, <1>3, <1>4, <1>5, <1>6, <1>7, <1>8, <1>9, <1>10, <1>11, <1>12, <1>13,
           <1>14, <1>15, <1>16, <1>17 DEF Step, Next, Opening, Writing

\* The state of the store keeps its type, for any files, contents and modes.
THEOREM TypeCorrect == Spec => []TypeOK
BY InitType, StepType, PTL DEF Spec

-----------------------------------------------------------------------------
(***************************************************************************)
(* RowsInStep speaks of a writer that is up or down.  What carries it      *)
(* through the steps of open and clear is: which objects there are, that   *)
(* a table that is not there is empty, that a path has one row even when   *)
(* the tables are out of step, and that without triggers nothing is stored *)
(* unless a rebuild was cut short.  A clear keeps all three tables or has  *)
(* emptied what can be found, until one of its DELETEs fails alone.        *)
(***************************************************************************)

Unique(db) ==
    \A i, j \in Ids : db.rows[i] # NoRow /\ db.rows[j] # NoRow /\ db.rows[i].path = db.rows[j].path => i = j

Ordered(db) ==
    /\ "triggers" \in db.has => "fts" \in db.has
    /\ "fts" \in db.has => "docs" \in db.has
    /\ "docs" \in db.has => "files" \in db.has
    /\ "files" \notin db.has => db.rows = Blank.rows
    /\ "docs" \notin db.has => db.docs = Blank.docs
    /\ "fts" \notin db.has => db.postings = Blank.postings

Empties(db) == db.rows = Blank.rows /\ db.docs = Blank.docs /\ db.postings = Blank.postings

Whole(db) ==
    /\ "triggers" \notin db.has => Empties(db)
    /\ InStep(db)

Stored(db, s, t) ==
    /\ Unique(db) /\ Ordered(db)
    /\ s \in {"version", "up", "clear_files", "clear_rebuild"} => "fts" \in db.has
    /\ ~t /\ s \notin {"drop", "build"} /\ "fts" \in db.has /\ db.match # None => "triggers" \in db.has
    /\ ~t /\ s \in {"version", "up", "clear_files", "clear_rebuild"} => "triggers" \in db.has
    /\ ~t /\ s = "clear_files" => Whole(db) \/ (db.docs = Blank.docs /\ db.postings = Blank.postings)
    /\ ~t /\ s \in {"down", "up", "build", "version", "clear_rebuild"} => Whole(db)

IInv ==
    /\ TypeOK
    /\ tx => st = "up"
    /\ Stored(disk, st, torn) /\ Stored(work, st, torn)

-----------------------------------------------------------------------------
(* What each operation does to a stored database, whatever it is applied to. *)

LEMMA BlankStored == \A s, t : s \in {"down", "build"} => Stored(Blank, s, t)
BY ContentStoreAssumption
   DEF Stored, Blank, Unique, Ordered, Whole, Empties, InStep, HasRow, Live, NoRow

LEMMA PutStored ==
    ASSUME NEW db \in Database, NEW t \in BOOLEAN, Stored(db, "up", t),
           NEW p \in Paths, NEW i \in Ids, IsIdFor(db, p, i),
           NEW r \in Row, r.path = p, Live(r), NEW text \in {Empty, r.hash}
    PROVE  Stored(WithDoc([db EXCEPT !.rows[i] = r], i, text), "up", t)
<1> DEFINE new == WithDoc([db EXCEPT !.rows[i] = r], i, text)
<1>1. /\ new.has = db.has /\ new.match = db.match
      /\ new.rows = [db.rows EXCEPT ![i] = r]
      /\ new.docs = [db.docs EXCEPT ![i] = text]
      /\ new.postings = IF "triggers" \in db.has THEN [db.postings EXCEPT ![i] = text] ELSE db.postings
    BY DEF WithDoc, Database
<1>2. "fts" \in db.has /\ "docs" \in db.has /\ "files" \in db.has
    BY DEF Stored, Ordered
<1>3. r # NoRow /\ text # None /\ None \notin Paths
    BY ContentStoreAssumption DEF Row, NoRow, Texts
<1>4. \A j \in Ids : j # i /\ db.rows[j] # NoRow => db.rows[j].path # p
  <2> SUFFICES ASSUME NEW j \in Ids, j # i, db.rows[j] # NoRow, db.rows[j].path = p PROVE FALSE
      OBVIOUS
  <2>1. CASE i \in IdsAt(db, {p})
      BY <2>1, <1>3 DEF IdsAt, Stored, Unique, NoRow
  <2>2. CASE IdsAt(db, {p}) = {}
      BY <2>2 DEF IdsAt
  <2> QED BY <2>1, <2>2 DEF IsIdFor
<1>5. Unique(new)
    BY <1>1, <1>4 DEF Stored, Unique, Database
<1>6. Ordered(new)
    BY <1>1, <1>2 DEF Stored, Ordered
<1>7. ASSUME ~t PROVE Whole(new)
  <2>1. "triggers" \in db.has /\ InStep(db)
      BY <1>7 DEF Stored, Whole
  <2>2. \A j \in Ids :
            /\ new.postings[j] = new.docs[j]
            /\ new.docs[j] # None <=> Live(new.rows[j])
            /\ new.docs[j] \in {None, Empty, new.rows[j].hash}
      BY <2>1, <1>1, <1>3 DEF InStep, Database
  <2>3. InStep(new)
      BY <2>2, <1>5 DEF InStep, Unique, HasRow
  <2> QED BY <2>1, <2>3, <1>1 DEF Whole
<1> QED BY <1>1, <1>2, <1>5, <1>6, <1>7 DEF Stored

LEMMA RemoveStored ==
    ASSUME NEW db \in Database, NEW t \in BOOLEAN, Stored(db, "up", t), NEW I \in SUBSET Ids
    PROVE  Stored(WithoutRows(WithoutDocs(db, I), I), "up", t)
<1> DEFINE new == WithoutRows(WithoutDocs(db, I), I)
<1>1. /\ new.has = db.has /\ new.match = db.match
      /\ new.rows = [i \in Ids |-> IF i \in I THEN NoRow ELSE db.rows[i]]
      /\ new.docs = [i \in Ids |-> IF i \in I THEN None ELSE db.docs[i]]
      /\ new.postings = [i \in Ids |-> IF i \in I /\ db.docs[i] # None /\ "triggers" \in db.has
                                       THEN None ELSE db.postings[i]]
    BY DEF WithoutRows, WithoutDocs, Database
<1>2. "fts" \in db.has /\ "docs" \in db.has /\ "files" \in db.has
    BY DEF Stored, Ordered
<1>5. Unique(new)
    BY <1>1 DEF Stored, Unique
<1>6. Ordered(new)
    BY <1>1, <1>2 DEF Stored, Ordered
<1>7. ASSUME ~t PROVE Whole(new)
  <2>1. "triggers" \in db.has /\ InStep(db)
      BY <1>7 DEF Stored, Whole
  <2>2. \A j \in Ids :
            /\ new.postings[j] = new.docs[j]
            /\ new.docs[j] # None <=> Live(new.rows[j])
            /\ new.docs[j] \in {None, Empty, new.rows[j].hash}
      BY <2>1, <1>1 DEF InStep, Live, NoRow
  <2>3. InStep(new)
      BY <2>2, <1>5 DEF InStep, Unique, HasRow
  <2> QED BY <2>1, <2>3, <1>1 DEF Whole
<1> QED BY <1>1, <1>2, <1>5, <1>6, <1>7 DEF Stored

LEMMA TombstoneStored ==
    ASSUME NEW db \in Database, NEW t \in BOOLEAN, Stored(db, "up", t), NEW i \in Ids, db.rows[i] \in Row
    PROVE  Stored([WithoutDocs(db, {i}) EXCEPT !.rows[i].state = "tombstone"], "up", t)
<1> DEFINE new == [WithoutDocs(db, {i}) EXCEPT !.rows[i].state = "tombstone"]
<1>1. /\ new.has = db.has /\ new.match = db.match
      /\ new.rows = [db.rows EXCEPT ![i] = [@ EXCEPT !.state = "tombstone"]]
      /\ new.docs = [j \in Ids |-> IF j \in {i} THEN None ELSE db.docs[j]]
      /\ new.postings = [j \in Ids |-> IF j \in {i} /\ db.docs[j] # None /\ "triggers" \in db.has
                                       THEN None ELSE db.postings[j]]
    BY DEF WithoutDocs, Database
<1>2. "fts" \in db.has /\ "docs" \in db.has /\ "files" \in db.has
    BY DEF Stored, Ordered
<1>3. /\ new.rows[i].path = db.rows[i].path /\ new.rows[i].state = "tombstone" /\ db.rows[i] # NoRow
      /\ \A j \in Ids : j # i => new.rows[j] = db.rows[j]
  <2>0. db.rows \in [Ids -> Row \cup {NoRow}]
      BY DEF Database
  <2>r. new.rows = [db.rows EXCEPT ![i] = [@ EXCEPT !.state = "tombstone"]]
      BY <1>1
  <2> HIDE DEF new
  <2>1. /\ new.rows[i] = [db.rows[i] EXCEPT !.state = "tombstone"]
        /\ \A j \in Ids : j # i => new.rows[j] = db.rows[j]
      BY <2>0, <2>r
  <2> QED BY <2>1 DEF Row, NoRow, States
<1> HIDE DEF new
<1>5. Unique(new)
    BY <1>3 DEF Stored, Unique
<1>6. Ordered(new)
    BY <1>1, <1>2 DEF Stored, Ordered
<1>7. ASSUME ~t PROVE Whole(new)
  <2>1. "triggers" \in db.has /\ InStep(db)
      BY <1>7 DEF Stored, Whole
  <2>2. \A j \in Ids :
            /\ new.postings[j] = new.docs[j]
            /\ new.docs[j] # None <=> Live(new.rows[j])
            /\ new.docs[j] \in {None, Empty, new.rows[j].hash}
    <3>1. new.docs[i] = None /\ new.postings[i] = None /\ ~Live(new.rows[i])
        BY <2>1, <1>1, <1>3 DEF InStep, Live
    <3>2. ASSUME NEW j \in Ids, j # i
          PROVE  new.docs[j] = db.docs[j] /\ new.postings[j] = db.postings[j] /\ new.rows[j] = db.rows[j]
        BY <3>2, <1>1, <1>3
    <3> QED BY <3>1, <3>2, <2>1 DEF InStep
  <2>3. InStep(new)
      BY <2>2, <1>5 DEF InStep, Unique, HasRow
  <2> QED BY <2>1, <2>3, <1>1 DEF Whole
<1>8. Stored(new, "up", t)
    BY <1>1, <1>2, <1>5, <1>6, <1>7 DEF Stored
<1> QED BY <1>8 DEF new

LEMMA TouchStored ==
    ASSUME NEW db \in Database, NEW t \in BOOLEAN, Stored(db, "up", t), NEW i \in Ids, db.rows[i] \in Row
    PROVE  Stored([db EXCEPT !.rows[i].state = "indexed"], "up", t \/ db.rows[i].state = "tombstone")
<1> DEFINE new == [db EXCEPT !.rows[i].state = "indexed"]
<1>1. /\ new.has = db.has /\ new.match = db.match /\ new.docs = db.docs /\ new.postings = db.postings
      /\ new.rows = [db.rows EXCEPT ![i] = [@ EXCEPT !.state = "indexed"]]
    BY DEF Database
<1>2. "fts" \in db.has /\ "docs" \in db.has /\ "files" \in db.has
    BY DEF Stored, Ordered
<1>3. /\ new.rows[i].path = db.rows[i].path /\ new.rows[i].hash = db.rows[i].hash
      /\ new.rows[i].state = "indexed" /\ db.rows[i] # NoRow
      /\ \A j \in Ids : j # i => new.rows[j] = db.rows[j]
    BY <1>1 DEF Database, Row, NoRow, States
<1>5. Unique(new)
    BY <1>3 DEF Stored, Unique
<1>6. Ordered(new)
    BY <1>1, <1>2 DEF Stored, Ordered
<1>7. ASSUME ~t, db.rows[i].state # "tombstone" PROVE Whole(new)
  <2>1. "triggers" \in db.has /\ InStep(db)
      BY <1>7 DEF Stored, Whole
  <2>2. Live(db.rows[i]) /\ Live(new.rows[i])
      BY <1>7, <1>3 DEF Row, States, Live
  <2>3. \A j \in Ids :
            /\ new.postings[j] = new.docs[j]
            /\ new.docs[j] # None <=> Live(new.rows[j])
            /\ new.docs[j] \in {None, Empty, new.rows[j].hash}
      BY <2>1, <2>2, <1>1, <1>3 DEF InStep
  <2>4. InStep(new)
      BY <2>3, <1>5 DEF InStep, Unique, HasRow
  <2> QED BY <2>1, <2>4, <1>1 DEF Whole
<1> QED BY <1>1, <1>2, <1>5, <1>6, <1>7 DEF Stored

-----------------------------------------------------------------------------

LEMMA InitInv == Init => IInv
<1> SUFFICES ASSUME Init PROVE IInv
    OBVIOUS
<1>1. disk.rows = Blank.rows /\ disk.docs = Blank.docs /\ disk.postings = Blank.postings
      /\ disk.has \in {{}, Objects} /\ (disk.has = {} => disk.match = None)
  <2>1. CASE disk = Blank
      BY <2>1 DEF Blank
  <2>2. ASSUME NEW m \in Modes, NEW c \in BOOLEAN,
               disk = Fresh(m, c)
        PROVE  disk.rows = Blank.rows /\ disk.docs = Blank.docs /\ disk.postings = Blank.postings
               /\ disk.has = Objects
      BY <2>2 DEF Fresh
  <2> QED BY <2>1, <2>2 DEF Init, Blank, Objects
<1>2. Stored(disk, "down", torn)
    BY <1>1, ContentStoreAssumption
       DEF Stored, Blank, Unique, Ordered, Whole, Empties, InStep, HasRow, Live, NoRow, Objects
<1>3. st = "down" /\ tx = FALSE /\ work = disk
    BY DEF Init
<1> QED BY <1>2, <1>3, InitType DEF IInv

\* What an operation of the open store writes is stored where it is written.
LEMMA Written ==
    ASSUME IInv, NEW db, Write(db), UNCHANGED tx, st = "up", st' = "up",
           torn \in BOOLEAN, torn' \in BOOLEAN, torn => torn', Stored(db, "up", torn')
    PROVE  (tx' => st' = "up") /\ Stored(disk, st, torn)' /\ Stored(work, st, torn)'
<1>1. Stored(disk, "up", torn) => Stored(disk, "up", torn')
    BY DEF Stored
<1>2. Stored(disk', "up", torn') /\ Stored(work', "up", torn')
    BY <1>1 DEF Write, IInv
<1> QED BY <1>2 DEF Stored, Unique, Ordered, Whole, Empties, InStep, HasRow

LEMMA StepInv == IInv /\ [Step]_vars => IInv'
<1> SUFFICES ASSUME IInv, [Step]_vars PROVE IInv'
    OBVIOUS
<1> USE ContentStoreAssumption
<1>t. TypeOK /\ TypeOK' /\ torn \in BOOLEAN /\ torn' \in BOOLEAN /\ disk \in Database /\ work \in Database
    BY StepType DEF IInv, TypeOK
<1>n. ~tx => work = disk
    BY <1>t DEF TypeOK
<1> SUFFICES (tx' => st' = "up") /\ Stored(disk', st', torn') /\ Stored(work', st', torn')
    BY <1>t DEF IInv, Stored, Unique, Ordered, Whole, Empties, InStep, HasRow
<1>1. ASSUME NEW m \in Modes, Open(m), UNCHANGED env
      PROVE  (tx' => st' = "up") /\ Stored(disk', st', torn') /\ Stored(work', st', torn')
  <2>1. work' = disk' /\ st' = FirstStep(disk', m) /\ tx' = tx /\ st = "down" /\ ~tx
      BY <1>1 DEF Open, IInv
  <2>2. CASE Stale(disk)
    <3>1. disk' = Blank
        BY <2>2, <1>1 DEF Open
    <3>2. st' = "build"
        BY <2>1, <3>1 DEF FirstStep, Blank
    <3> QED BY <2>1, <3>1, <3>2, BlankStored
  <2>3. CASE ~Stale(disk)
    <3>1. disk' = disk /\ torn' = torn
        BY <2>3, <1>1 DEF Open
    <3>2. Stored(disk, "down", torn)
        BY <2>1 DEF IInv
    <3>3. Stored(disk, FirstStep(disk, m), torn)
      <4>1. CASE "fts" \notin disk.has
          BY <4>1, <3>2 DEF Stored, FirstStep
      <4>2. CASE "fts" \in disk.has /\ disk.match = m
          BY <4>2, <3>2 DEF Stored, FirstStep
      <4>3. CASE "fts" \in disk.has /\ disk.match # m
          BY <4>3, <3>2 DEF Stored, FirstStep
      <4> QED BY <4>1, <4>2, <4>3
    <3> QED BY <2>1, <3>1, <3>3
  <2> QED BY <2>2, <2>3
<1>2. CASE DropObject
  <2>1. PICK k \in 1..4 :
            /\ Schema[k] \in work.has /\ \A j \in (k + 1)..4 : Schema[j] \notin work.has
            /\ Write([work EXCEPT !.has = @ \ {Schema[k]},
                  !.postings = IF k = 3 THEN Blank.postings ELSE @,
                  !.docs = IF k = 2 THEN Blank.docs ELSE @,
                  !.rows = IF k = 1 THEN Blank.rows ELSE @])
            /\ st' = IF k = 1 THEN "build" ELSE "drop"
            /\ torn' = (torn /\ k # 1)
      BY <1>2 DEF DropObject
  <2>2. st = "drop" /\ tx' = tx /\ ~tx /\ Stored(work, "drop", torn)
      BY <1>2 DEF DropObject, IInv
  <2> DEFINE new == [work EXCEPT !.has = @ \ {Schema[k]},
                  !.postings = IF k = 3 THEN Blank.postings ELSE @,
                  !.docs = IF k = 2 THEN Blank.docs ELSE @,
                  !.rows = IF k = 1 THEN Blank.rows ELSE @]
  <2>3. work' = new /\ disk' = new
      BY <2>1, <2>2 DEF Write
  <2>4. /\ new.has = work.has \ {Schema[k]}
        /\ new.postings = IF k = 3 THEN Blank.postings ELSE work.postings
        /\ new.docs = IF k = 2 THEN Blank.docs ELSE work.docs
        /\ new.rows = IF k = 1 THEN Blank.rows ELSE work.rows
      BY <1>t DEF Database
  <2> HIDE DEF new
  <2>5. CASE k = 1
    <3>1. Schema[2] \notin work.has /\ Schema[3] \notin work.has /\ Schema[4] \notin work.has
        BY <2>1, <2>5
    <3>2. new.rows = Blank.rows /\ new.docs = Blank.docs /\ new.postings = Blank.postings
          /\ "fts" \notin new.has /\ "docs" \notin new.has /\ "triggers" \notin new.has
        BY <2>2, <2>4, <2>5, <3>1 DEF Stored, Ordered, Schema
    <3>3. Stored(new, "build", torn')
        BY <3>2 DEF Stored, Blank, Unique, Ordered, Whole, Empties, InStep, HasRow, Live, NoRow
    <3> QED BY <2>1, <2>2, <2>3, <2>5, <3>3
  <2>6. CASE k # 1
    <3>1. Unique(new)
        BY <2>2, <2>4, <2>6 DEF Stored, Unique
    <3>2. Ordered(new)
      <4>1. CASE k = 2
          BY <4>1, <2>1, <2>2, <2>4 DEF Stored, Ordered, Schema
      <4>2. CASE k = 3
          BY <4>2, <2>1, <2>2, <2>4 DEF Stored, Ordered, Schema
      <4>3. CASE k = 4
          BY <4>3, <2>1, <2>2, <2>4 DEF Stored, Ordered, Schema
      <4> QED BY <2>6, <4>1, <4>2, <4>3
    <3>3. Stored(new, "drop", torn')
        BY <3>1, <3>2 DEF Stored
    <3> QED BY <2>1, <2>2, <2>3, <2>6, <3>3
  <2> QED BY <2>5, <2>6
<1>3. CASE CreateObject
  <2>1. PICK k \in 1..4 :
            /\ \A j \in 1..(k - 1) : Schema[j] \in work.has
            /\ Write([work EXCEPT !.has = @ \cup {Schema[k]}, !.built = IF k = 3 THEN mode ELSE @])
      BY <1>3 DEF CreateObject
  <2>2. st = "build" /\ st' = "build" /\ torn' = torn /\ tx' = tx /\ ~tx /\ Stored(work, "build", torn)
      BY <1>3 DEF CreateObject, IInv
  <2> DEFINE new == [work EXCEPT !.has = @ \cup {Schema[k]}, !.built = IF k = 3 THEN mode ELSE @]
  <2>3. work' = new /\ disk' = new
      BY <2>1, <2>2 DEF Write
  <2>4. /\ new.has = work.has \cup {Schema[k]} /\ new.rows = work.rows
        /\ new.docs = work.docs /\ new.postings = work.postings
      BY <1>t DEF Database
  <2> HIDE DEF new
  <2>5. Ordered(new)
    <3>1. CASE k = 1
        BY <3>1, <2>2, <2>4 DEF Stored, Ordered, Schema
    <3>2. CASE k = 2
      <4>1. Schema[1] \in work.has
          BY <3>2, <2>1
      <4> QED BY <3>2, <4>1, <2>2, <2>4 DEF Stored, Ordered, Schema
    <3>3. CASE k = 3
      <4>1. Schema[1] \in work.has /\ Schema[2] \in work.has
          BY <3>3, <2>1
      <4> QED BY <3>3, <4>1, <2>2, <2>4 DEF Stored, Ordered, Schema
    <3>4. CASE k = 4
      <4>1. Schema[1] \in work.has /\ Schema[2] \in work.has /\ Schema[3] \in work.has
          BY <3>4, <2>1
      <4> QED BY <3>4, <4>1, <2>2, <2>4 DEF Stored, Ordered, Schema
    <3> QED BY <3>1, <3>2, <3>3, <3>4
  <2>6. Stored(new, "build", torn)
      BY <2>2, <2>4, <2>5 DEF Stored, Unique, Whole, Empties, InStep, HasRow
  <2> QED BY <2>2, <2>3, <2>6
<1>4. CASE RecordMode
  <2>1. st = "build" /\ st' = "version" /\ torn' = torn /\ tx' = tx /\ ~tx /\ Stored(work, "build", torn)
        /\ work.has = Objects
      BY <1>4 DEF RecordMode, IInv
  <2> DEFINE new == [work EXCEPT !.match = mode]
  <2>3. work' = new /\ disk' = new
      BY <1>4, <2>1 DEF Write, RecordMode
  <2>4. new.has = work.has /\ new.rows = work.rows /\ new.docs = work.docs /\ new.postings = work.postings
      BY <1>t DEF Database
  <2> HIDE DEF new
  <2>6. Stored(new, "version", torn)
      BY <2>1, <2>4 DEF Stored, Unique, Ordered, Whole, Empties, InStep, HasRow, Objects
  <2> QED BY <2>1, <2>3, <2>6
<1>5. CASE RecordVersion
  <2>1. st = "version" /\ st' = "up" /\ torn' = torn /\ tx' = tx /\ ~tx /\ Stored(work, "version", torn)
      BY <1>5 DEF RecordVersion, IInv
  <2> DEFINE new == [work EXCEPT !.current = TRUE]
  <2>3. work' = new /\ disk' = new
      BY <1>5, <2>1 DEF Write, RecordVersion
  <2>4. new.has = work.has /\ new.rows = work.rows /\ new.docs = work.docs /\ new.postings = work.postings
        /\ new.match = work.match
      BY <1>t DEF Database
  <2> HIDE DEF new
  <2>6. Stored(new, "up", torn)
      BY <2>1, <2>4 DEF Stored, Unique, Ordered, Whole, Empties, InStep, HasRow
  <2> QED BY <2>1, <2>3, <2>6
<1>6. CASE Begin \/ Commit
    BY <1>6 DEF Begin, Commit, Idle, Up, IInv
<1>7. ASSUME NEW p \in Paths, NEW h \in Hashes, NEW s \in {"indexed", "error"}, NEW ok \in BOOLEAN,
             Put(p, h, s, ok)
      PROVE  (tx' => st' = "up") /\ Stored(disk', st', torn') /\ Stored(work', st', torn')
  <2>1. PICK i \in Ids : IsIdFor(work, p, i) /\ Write(Savepoint(ok, Upserted(p, h, s, i)))
      BY <1>7 DEF Put
  <2>2. st = "up" /\ st' = "up" /\ torn' = torn /\ tx' = tx /\ Stored(work, "up", torn)
      BY <1>7 DEF Put, Idle, Up, IInv
  <2> DEFINE r == [path |-> p, hash |-> h, state |-> s]
             text == IF s = "error" THEN Empty ELSE h
  <2>3. r \in Row /\ r.path = p /\ Live(r) /\ text \in {Empty, r.hash}
      BY DEF Row, States, Live
  <2> HIDE DEF r, text
  <2>4. Stored(WithDoc([work EXCEPT !.rows[i] = r], i, text), "up", torn)
      BY <2>1, <2>2, <2>3, <1>t, PutStored
  <2>5. Stored(Savepoint(ok, Upserted(p, h, s, i)), "up", torn)
      BY <2>4, <2>2 DEF Savepoint, Upserted, r, text
  <2> QED BY <2>1, <2>2, <2>5, <1>t, Written
<1>8. ASSUME NEW p \in Paths, Touch(p)
      PROVE  (tx' => st' = "up") /\ Stored(disk', st', torn') /\ Stored(work', st', torn')
  <2>1. PICK i \in IdsAt(work, {p}) :
            /\ Write([work EXCEPT !.rows[i].state = "indexed"])
            /\ torn' = (torn \/ work.rows[i].state = "tombstone")
      BY <1>8 DEF Touch
  <2>2. st = "up" /\ st' = "up" /\ tx' = tx /\ Stored(work, "up", torn)
      BY <1>8 DEF Touch, Up, IInv
  <2>3. i \in Ids /\ work.rows[i] \in Row
      BY <1>t DEF IdsAt, Database, NoRow
  <2>4. Stored([work EXCEPT !.rows[i].state = "indexed"], "up", torn')
      BY <2>1, <2>2, <2>3, <1>t, TouchStored
  <2> QED BY <2>1, <2>2, <2>4, <1>t, Written
<1>9. ASSUME NEW p \in Paths, NEW S \in SUBSET Paths, NEW ok \in BOOLEAN, RemovePaths(p, S, ok)
      PROVE  (tx' => st' = "up") /\ Stored(disk', st', torn') /\ Stored(work', st', torn')
  <2>1. Write(Savepoint(ok, Removed(S)))
      BY <1>9 DEF RemovePaths
  <2>2. st = "up" /\ st' = "up" /\ torn' = torn /\ tx' = tx /\ Stored(work, "up", torn)
      BY <1>9 DEF RemovePaths, Idle, Up, IInv
  <2>3. Stored(Savepoint(ok, Removed(S)), "up", torn)
      BY <2>2, <1>t, RemoveStored DEF Savepoint, Removed, IdsAt
  <2> QED BY <2>1, <2>2, <2>3, <1>t, Written
<1>10. ASSUME NEW p \in Paths, NEW ok \in BOOLEAN, Tombstone(p, ok)
      PROVE  (tx' => st' = "up") /\ Stored(disk', st', torn') /\ Stored(work', st', torn')
  <2>1. PICK i \in IdsAt(work, {p}) : Write(Savepoint(ok, Tombstoned(i)))
      BY <1>10 DEF Tombstone
  <2>2. st = "up" /\ st' = "up" /\ torn' = torn /\ tx' = tx /\ Stored(work, "up", torn)
      BY <1>10 DEF Tombstone, Idle, Up, IInv
  <2>3. i \in Ids /\ work.rows[i] \in Row
      BY <1>t DEF IdsAt, Database, NoRow
  <2>4. Stored(Savepoint(ok, Tombstoned(i)), "up", torn)
      BY <2>2, <2>3, <1>t, TombstoneStored DEF Savepoint, Tombstoned
  <2> QED BY <2>1, <2>2, <2>4, <1>t, Written
<1>11. CASE Maintain
  <2>1. st = "up" /\ st' = "up" /\ torn' = torn /\ tx' = tx /\ Stored(work, "up", torn)
      BY <1>11 DEF Maintain, Idle, Up, IInv
  <2>2. PICK I \in SUBSET Ids : Write(WithoutRows(WithoutDocs(work, I), I))
      BY <1>11 DEF Maintain, IdsIn
  <2> QED BY <2>1, <2>2, <1>t, RemoveStored, Written
<1>12. ASSUME NEW ok \in BOOLEAN, ClearDocs(ok)
       PROVE  (tx' => st' = "up") /\ Stored(disk', st', torn') /\ Stored(work', st', torn')
  <2>1. st = "up" /\ st' = "clear_files" /\ torn' = torn /\ tx' = tx /\ ~tx /\ Stored(work, "up", torn)
      BY <1>12 DEF ClearDocs, IInv
  <2> DEFINE new == WithoutDocs(work, Ids)
  <2>3. work' = (IF ok THEN new ELSE work) /\ disk' = work'
      BY <1>12, <2>1 DEF Attempt, Write, ClearDocs
  <2>4. /\ new.has = work.has /\ new.rows = work.rows /\ new.match = work.match
        /\ new.docs = Blank.docs
        /\ new.postings = [i \in Ids |-> IF work.docs[i] # None /\ "triggers" \in work.has
                                         THEN None ELSE work.postings[i]]
      BY <1>t DEF Database, WithoutDocs, Blank
  <2> HIDE DEF new
  <2>5. Unique(new) /\ Ordered(new) /\ "fts" \in new.has
      BY <2>1, <2>4 DEF Stored, Unique, Ordered
  <2>6. ASSUME ~torn PROVE "triggers" \in new.has /\ new.postings = Blank.postings
      BY <2>6, <2>1, <2>4 DEF Stored, Whole, InStep, Blank
  <2>7. Stored(new, "clear_files", torn)
      BY <2>4, <2>5, <2>6 DEF Stored
  <2>8. Stored(work, "clear_files", torn)
      BY <2>1 DEF Stored
  <2> QED BY <2>1, <2>3, <2>7, <2>8
<1>13. ASSUME NEW ok \in BOOLEAN, ClearFiles(ok)
       PROVE  (tx' => st' = "up") /\ Stored(disk', st', torn') /\ Stored(work', st', torn')
  <2>1. st = "clear_files" /\ st' = "clear_rebuild" /\ tx' = tx /\ ~tx /\ Stored(work, "clear_files", torn)
        /\ torn' = (torn \/ ok # (work.docs = Blank.docs))
      BY <1>13 DEF ClearFiles, OnlyOne, IInv
  <2> DEFINE new == WithoutRows(work, Ids)
  <2>3. work' = (IF ok THEN new ELSE work) /\ disk' = work'
      BY <1>13, <2>1 DEF Attempt, Write, ClearFiles
  <2>4. /\ new.has = work.has /\ new.match = work.match /\ new.docs = work.docs
        /\ new.postings = work.postings /\ new.rows = Blank.rows
      BY <1>t DEF Database, WithoutRows, Blank
  <2> HIDE DEF new
  <2>5. CASE ok
    <3>1. Unique(new) /\ Ordered(new)
        BY <2>1, <2>4 DEF Stored, Unique, Ordered, Blank
    <3>2. ASSUME ~torn' PROVE Whole(new) /\ "triggers" \in new.has
      <4>1. ~torn /\ work.docs = Blank.docs /\ "triggers" \in work.has
          BY <2>1, <2>5, <3>2 DEF Stored
      <4>2. work.postings = Blank.postings
        <5>1. CASE Whole(work)
          <6>1. \A i \in Ids : work.postings[i] = Blank.docs[i]
              BY <4>1, <5>1 DEF Whole, InStep
          <6>2. work.postings \in [Ids -> Texts \cup {None}]
              BY <1>t DEF Database
          <6> QED BY <6>1, <6>2 DEF Blank
        <5>2. CASE ~Whole(work)
            BY <2>1, <4>1, <5>2 DEF Stored
        <5> QED BY <5>1, <5>2
      <4> QED BY <2>4, <4>1, <4>2 DEF Whole, InStep, HasRow, Blank, Live, NoRow
    <3>3. Stored(new, "clear_rebuild", torn')
        BY <2>1, <2>4, <3>1, <3>2 DEF Stored
    <3> QED BY <2>1, <2>3, <2>5, <3>3
  <2>6. CASE ~ok
    <3>1. ~torn' => ~torn /\ work.docs # Blank.docs
        BY <2>1, <2>6
    <3>2. Stored(work, "clear_rebuild", torn')
        BY <2>1, <3>1, <1>t DEF Stored
    <3> QED BY <2>1, <2>3, <2>6, <3>2
  <2> QED BY <2>5, <2>6
<1>14. ASSUME NEW ok \in BOOLEAN, ClearRebuild(ok)
       PROVE  (tx' => st' = "up") /\ Stored(disk', st', torn') /\ Stored(work', st', torn')
  <2>1. st = "clear_rebuild" /\ st' = "up" /\ tx' = tx /\ ~tx /\ Stored(work, "clear_rebuild", torn)
        /\ torn' = (torn /\ ~(ok /\ work.rows = Blank.rows /\ work.docs = Blank.docs /\ "triggers" \in work.has))
      BY <1>14 DEF ClearRebuild, IInv
  <2> DEFINE new == [work EXCEPT !.postings = work.docs]
  <2>3. work' = (IF ok THEN new ELSE work) /\ disk' = work'
      BY <1>14, <2>1 DEF Attempt, Write, ClearRebuild
  <2>4. /\ new.has = work.has /\ new.match = work.match
        /\ new.docs = work.docs /\ new.postings = work.docs /\ new.rows = work.rows
      BY <1>t DEF Database
  <2> HIDE DEF new
  <2>5. CASE ok
    <3>1. Unique(new) /\ Ordered(new) /\ "fts" \in new.has
        BY <2>1, <2>4 DEF Stored, Unique, Ordered, Blank
    <3>2. ASSUME ~torn' PROVE Whole(new) /\ "triggers" \in new.has
      <4>1. CASE torn
        <5>1. new.rows = Blank.rows /\ new.docs = Blank.docs /\ new.postings = Blank.postings
              /\ "triggers" \in new.has
            BY <2>1, <2>4, <2>5, <3>2, <4>1 DEF Blank
        <5> QED BY <5>1 DEF Whole, InStep, HasRow, Blank, Live, NoRow
      <4>2. CASE ~torn
        <5>1. Whole(work) /\ "triggers" \in work.has
            BY <2>1, <4>2 DEF Stored
        <5> QED BY <2>4, <5>1 DEF Whole, InStep, HasRow
      <4> QED BY <4>1, <4>2
    <3>3. Stored(new, "up", torn')
        BY <2>1, <2>4, <3>1, <3>2, <1>t DEF Stored
    <3> QED BY <2>1, <2>3, <2>5, <3>3
  <2>6. CASE ~ok
    <3>1. torn' = torn
        BY <2>1, <2>6, <1>t
    <3>2. Stored(work, "up", torn)
        BY <2>1 DEF Stored
    <3> QED BY <2>1, <2>3, <2>6, <3>1, <3>2
  <2> QED BY <2>5, <2>6
<1>15. CASE Crash
  <2>1. st' = "down" /\ tx' = FALSE /\ work' = disk /\ disk' = disk /\ torn' = (torn \/ HalfDone)
        /\ Stored(disk, st, torn) /\ st # "down"
      BY <1>15 DEF Crash, IInv
  <2>2. Stored(disk, "down", torn')
    <3>1. CASE torn'
        BY <3>1, <2>1 DEF Stored
    <3>2. CASE ~torn'
      <4>1. ~torn /\ st \notin {"drop", "clear_files"} /\ ~(st = "build" /\ work.match # None)
          BY <3>2, <2>1 DEF HalfDone
      <4>2. st = "build" => disk.match = None
          BY <4>1, <1>n DEF IInv
      <4>3. Whole(disk)
        <5>1. st \in {"build", "version", "up", "clear_rebuild"}
            BY <4>1, <2>1, <1>t DEF TypeOK
        <5> QED BY <5>1, <4>1, <2>1 DEF Stored
      <4> QED BY <4>1, <4>2, <4>3, <2>1, <1>t DEF Stored, TypeOK
    <3> QED BY <3>1, <3>2, <1>t
  <2> QED BY <2>1, <2>2
<1>16. CASE Corrupt
  <2>1. disk' = [disk EXCEPT !.sound = FALSE] /\ work' = disk' /\ st' = st /\ torn' = torn /\ tx' = tx
        /\ Stored(disk, st, torn) /\ (tx => st = "up")
      BY <1>16 DEF Corrupt, IInv
  <2>2. disk'.has = disk.has /\ disk'.match = disk.match /\ disk'.rows = disk.rows
        /\ disk'.docs = disk.docs /\ disk'.postings = disk.postings
      BY <2>1, <1>t DEF Database
  <2>3. Stored(disk', st, torn)
      BY <2>1, <2>2 DEF Stored, Unique, Ordered, Whole, Empties, InStep, HasRow
  <2> QED BY <2>1, <2>3
<1>17. CASE UNCHANGED vars
    BY <1>17 DEF vars, IInv
<1>18. CASE DropFails
  <2>1. st = "drop" /\ st' = "build" /\ torn' = TRUE /\ UNCHANGED <<disk, work, tx>>
        /\ Stored(disk, "drop", torn) /\ Stored(work, "drop", torn) /\ ~tx
      BY <1>18 DEF DropFails, IInv
  <2>2. Stored(disk, "build", TRUE) /\ Stored(work, "build", TRUE)
      BY <2>1 DEF Stored
  <2> QED BY <2>1, <2>2
<1> QED BY <1>1, <1>2, <1>3, <1>4, <1>5, <1>6, <1>7, <1>8, <1>9, <1>10, <1>11, <1>12, <1>13,
           <1>14, <1>15, <1>16, <1>17, <1>18 DEF Step, Next, Opening, Writing

LEMMA Invariant == Spec => []IInv
BY InitInv, StepInv, PTL DEF Spec

\* A live row can be found by the text of the bytes its hash names and nothing else can, in
\* the committed tables and in the writer's, unless a rebuild or a clear was cut short or done
\* in part: for any files and modes, and any statement of a put, a remove or a tombstone that
\* fails.
THEOREM TablesInStep == Spec => []RowsInStep
<1>1. IInv => RowsInStep
  <2> SUFFICES ASSUME IInv, st \in {"up", "down"}, ~torn PROVE InStep(disk) /\ InStep(work)
      BY DEF RowsInStep
  <2> QED BY DEF IInv, Stored, Whole
<1> QED BY <1>1, Invariant, PTL

-----------------------------------------------------------------------------
(* Refinement: what each change of the tables does to what can be found.   *)

LEMMA SameFindable ==
    ASSUME NEW a, NEW b, a.rows = b.rows, a.postings = b.postings
    PROVE  Findable(a) = Findable(b)
BY DEF Findable, HasRow

LEMMA InFindable ==
    ASSUME NEW db, NEW e
    PROVE  e \in Findable(db) <=>
              \E i \in Ids : /\ db.rows[i] # NoRow /\ db.postings[i] # None
                             /\ e = <<db.rows[i].path, db.postings[i]>>
BY DEF Findable, HasRow

LEMMA OthersElsewhere ==
    ASSUME NEW db, Unique(db), NEW p \in Paths, NEW i \in Ids, IsIdFor(db, p, i)
    PROVE  \A j \in Ids : j # i /\ db.rows[j] # NoRow => db.rows[j].path # p
<1> SUFFICES ASSUME NEW j \in Ids, j # i, db.rows[j] # NoRow, db.rows[j].path = p PROVE FALSE
    OBVIOUS
<1>1. CASE i \in IdsAt(db, {p})
    BY <1>1, ContentStoreAssumption DEF IdsAt, Unique, NoRow
<1>2. CASE IdsAt(db, {p}) = {}
    BY <1>2 DEF IdsAt
<1> QED BY <1>1, <1>2 DEF IsIdFor

LEMMA PutFindable ==
    ASSUME NEW db \in Database, Unique(db), NEW p \in Paths, NEW i \in Ids, IsIdFor(db, p, i),
           NEW r \in Row, r.path = p, NEW text \in Texts
    PROVE  LET new == WithDoc([db EXCEPT !.rows[i] = r], i, text)
           IN  \/ Findable(new) = Findable(db)
               \/ \E t \in Texts : Findable(new) = Promise!Without(Findable(db), {p}) \cup {<<p, t>>}
<1> DEFINE new == WithDoc([db EXCEPT !.rows[i] = r], i, text)
<1>1. /\ new.rows = [db.rows EXCEPT ![i] = r]
      /\ new.postings = IF "triggers" \in db.has THEN [db.postings EXCEPT ![i] = text] ELSE db.postings
    BY DEF WithDoc, Database
<1>2. /\ new.rows[i] = r /\ r # NoRow /\ text # None
      /\ \A j \in Ids : j # i => new.rows[j] = db.rows[j] /\ new.postings[j] = db.postings[j]
      /\ new.postings[i] \in Texts \cup {None}
    BY <1>1, ContentStoreAssumption DEF Database, Row, NoRow
<1> HIDE DEF new
<1>3. \A j \in Ids : j # i /\ db.rows[j] # NoRow => db.rows[j].path # p
    BY OthersElsewhere
<1>4. CASE new.postings[i] # None
  <2>1. ASSUME NEW e PROVE e \in Findable(new) <=> e \in Promise!Without(Findable(db), {p}) \cup {<<p, new.postings[i]>>}
    <3>1. ASSUME e \in Findable(new) PROVE e \in Promise!Without(Findable(db), {p}) \cup {<<p, new.postings[i]>>}
      <4>1. PICK j \in Ids : new.rows[j] # NoRow /\ new.postings[j] # None
                             /\ e = <<new.rows[j].path, new.postings[j]>>
          BY <3>1, InFindable
      <4>2. CASE j = i
          BY <4>1, <4>2, <1>2
      <4>3. CASE j # i
        <5>1. e \in Findable(db) /\ e[1] # p
            BY <4>1, <4>3, <1>2, <1>3, InFindable
        <5> QED BY <5>1 DEF Promise!Without
      <4> QED BY <4>2, <4>3
    <3>2. ASSUME e \in Promise!Without(Findable(db), {p}) PROVE e \in Findable(new)
      <4>1. PICK j \in Ids : db.rows[j] # NoRow /\ db.postings[j] # None
                             /\ e = <<db.rows[j].path, db.postings[j]>> /\ e[1] # p
          BY <3>2, InFindable DEF Promise!Without
      <4>2. CASE j = i
        <5>1. i \in IdsAt(db, {p}) \/ i \notin HasRow(db)
          <6>1. CASE IdsAt(db, {p}) = {} /\ \A k \in HasRow(db) : k < i
              BY <6>1, ContentStoreAssumption DEF HasRow, Ids
          <6> QED BY <6>1 DEF IsIdFor
        <5> QED BY <5>1, <4>1, <4>2 DEF IdsAt, HasRow
      <4>3. CASE j # i
          BY <4>1, <4>3, <1>2, InFindable
      <4> QED BY <4>2, <4>3
    <3>3. <<p, new.postings[i]>> \in Findable(new)
        BY <1>2, <1>4, InFindable
    <3> QED BY <3>1, <3>2, <3>3
  <2>2. Findable(new) = Promise!Without(Findable(db), {p}) \cup {<<p, new.postings[i]>>}
      BY <2>1
  <2>3. new.postings[i] \in Texts
      BY <1>2, <1>4
  <2> QED BY <2>2, <2>3 DEF new
<1>5. CASE new.postings[i] = None
  <2>1. db.postings[i] = None
      BY <1>1, <1>2, <1>5 DEF Database
  <2>2. \A e : e \in Findable(new) <=> e \in Findable(db)
      BY <2>1, <1>2, <1>5, InFindable
  <2>3. Findable(new) = Findable(db)
      BY <2>2
  <2> QED BY <2>3 DEF new
<1> QED BY <1>4, <1>5

LEMMA RemoveFindable ==
    ASSUME NEW db \in Database, NEW S
    PROVE  Findable(WithoutRows(WithoutDocs(db, IdsAt(db, S)), IdsAt(db, S)))
             = Promise!Without(Findable(db), S)
<1> DEFINE I == IdsAt(db, S)
           new == WithoutRows(WithoutDocs(db, I), I)
<1>1. \A i \in Ids :
         /\ i \in I => new.rows[i] = NoRow
         /\ i \notin I => new.rows[i] = db.rows[i] /\ new.postings[i] = db.postings[i]
    BY DEF WithoutRows, WithoutDocs, Database
<1> HIDE DEF new
<1>2. ASSUME NEW e PROVE e \in Findable(new) <=> e \in Promise!Without(Findable(db), S)
  <2>1. ASSUME e \in Findable(new) PROVE e \in Promise!Without(Findable(db), S)
    <3>1. PICK j \in Ids : new.rows[j] # NoRow /\ new.postings[j] # None
                           /\ e = <<new.rows[j].path, new.postings[j]>>
        BY <2>1, InFindable
    <3>2. j \notin I
        BY <3>1, <1>1
    <3>3. e \in Findable(db) /\ e[1] \notin S
        BY <3>1, <3>2, <1>1, InFindable DEF IdsAt
    <3> QED BY <3>3 DEF Promise!Without
  <2>2. ASSUME e \in Promise!Without(Findable(db), S) PROVE e \in Findable(new)
    <3>1. PICK j \in Ids : db.rows[j] # NoRow /\ db.postings[j] # None
                           /\ e = <<db.rows[j].path, db.postings[j]>> /\ e[1] \notin S
        BY <2>2, InFindable DEF Promise!Without
    <3>2. j \notin I
        BY <3>1 DEF IdsAt
    <3> QED BY <3>1, <3>2, <1>1, InFindable
  <2> QED BY <2>1, <2>2
<1>3. Findable(new) = Promise!Without(Findable(db), S)
    BY <1>2
<1> QED BY <1>3 DEF new

\* Dropping the docs of some rows takes their paths out of the index, or nothing.
LEMMA DocsFindable ==
    ASSUME NEW db \in Database, Unique(db), NEW I \in SUBSET Ids, NEW new,
           \A i \in Ids : /\ new.rows[i].path = db.rows[i].path
                          /\ new.rows[i] = NoRow <=> db.rows[i] = NoRow,
           new.postings = WithoutDocs(db, I).postings
    PROVE  \E S \in SUBSET Paths : Findable(new) = Promise!Without(Findable(db), S)
<1> DEFINE J == {i \in I : db.rows[i] # NoRow /\ db.docs[i] # None /\ "triggers" \in db.has}
           S == {db.rows[i].path : i \in J}
<1>1. \A i \in Ids : new.postings[i] = IF i \in I /\ db.docs[i] # None /\ "triggers" \in db.has
                                       THEN None ELSE db.postings[i]
    BY DEF WithoutDocs, Database
<1>2. S \in SUBSET Paths
    BY DEF Database, Row, NoRow
<1>3. \A i \in Ids : db.rows[i] # NoRow /\ db.rows[i].path \in S => i \in J
    BY DEF Unique
<1>4. ASSUME NEW e PROVE e \in Findable(new) <=> e \in Promise!Without(Findable(db), S)
  <2>1. ASSUME e \in Findable(new) PROVE e \in Promise!Without(Findable(db), S)
    <3>1. PICK j \in Ids : new.rows[j] # NoRow /\ new.postings[j] # None
                           /\ e = <<new.rows[j].path, new.postings[j]>>
        BY <2>1, InFindable
    <3>2. j \notin J /\ new.postings[j] = db.postings[j] /\ db.rows[j] # NoRow
        BY <3>1, <1>1
    <3>3. e \in Findable(db) /\ e[1] \notin S
        BY <3>1, <3>2, <1>3, InFindable
    <3> QED BY <3>3 DEF Promise!Without
  <2>2. ASSUME e \in Promise!Without(Findable(db), S) PROVE e \in Findable(new)
    <3>1. PICK j \in Ids : db.rows[j] # NoRow /\ db.postings[j] # None
                           /\ e = <<db.rows[j].path, db.postings[j]>> /\ e[1] \notin S
        BY <2>2, InFindable DEF Promise!Without
    <3>2. j \notin J
        BY <3>1
    <3>3. new.postings[j] = db.postings[j]
        BY <3>1, <3>2, <1>1
    <3> QED BY <3>1, <3>3, InFindable
  <2> QED BY <2>1, <2>2
<1>5. Findable(new) = Promise!Without(Findable(db), S)
    BY <1>4
<1> QED BY <1>2, <1>5

LEMMA BlankFindable == \A db : db.rows = Blank.rows \/ db.postings = Blank.postings => Findable(db) = {}
BY DEF Findable, HasRow, Blank

\* A statement that does to the index what an edit does is an edit.
LEMMA EditRefines ==
    ASSUME TypeOK, NEW db, Write(db), UNCHANGED tx, tx \in BOOLEAN,
           \/ Findable(db) = Findable(work)
           \/ \E p \in Paths, t \in Texts :
                Findable(db) = Promise!Without(Findable(work), {p}) \cup {<<p, t>>}
           \/ \E S \in SUBSET Paths : Findable(db) = Promise!Without(Findable(work), S)
    PROVE  Promise!Edit \/ UNCHANGED Promise!vars
<1>1. Findable(work)' = Findable(db) /\ Findable(disk)' = IF tx THEN Findable(disk) ELSE Findable(work)'
    BY DEF Write, Findable, HasRow
<1>2. ~tx => Findable(work) = Findable(disk)
    BY DEF TypeOK
<1>3. CASE Findable(db) = Findable(work)
    BY <1>1, <1>2, <1>3 DEF Promise!vars
<1>4. CASE \E p \in Paths, t \in Texts :
             Findable(db) = Promise!Without(Findable(work), {p}) \cup {<<p, t>>}
    BY <1>1, <1>4 DEF Promise!Edit
<1>5. CASE \E S \in SUBSET Paths : Findable(db) = Promise!Without(Findable(work), S)
    BY <1>1, <1>5 DEF Promise!Edit
<1> QED BY <1>3, <1>4, <1>5

LEMMA InitRefines == Init => Promise!Init
<1> SUFFICES ASSUME Init PROVE Promise!Init
    OBVIOUS
<1>1. disk.rows = Blank.rows
    BY DEF Init, Fresh
<1>2. Findable(disk) = {}
    BY <1>1, BlankFindable
<1> QED BY <1>2 DEF Init, Promise!Init

LEMMA StepRefines == IInv /\ [Step]_vars => [Promise!Next]_Promise!vars
<1> SUFFICES ASSUME IInv, [Step]_vars PROVE Promise!Next \/ UNCHANGED Promise!vars
    OBVIOUS
<1>t. TypeOK /\ disk \in Database /\ work \in Database /\ Unique(work) /\ (~tx => work = disk) /\ tx \in BOOLEAN
    BY DEF IInv, TypeOK, Stored
<1>e. Promise!Without(Findable(work), Paths) = {}
    BY <1>t, InFindable DEF Promise!Without, Database, Row, NoRow
<1>1. ASSUME NEW m \in Modes, Open(m) PROVE Promise!Next \/ UNCHANGED Promise!vars
  <2>1. ~tx /\ tx' = tx /\ work' = disk' /\ work = disk
      BY <1>1, <1>t DEF Open, IInv
  <2>2. CASE Stale(disk)
    <3>1. Write(Blank)
        BY <2>1, <2>2, <1>1 DEF Open, Write
    <3>2. Findable(Blank) = Promise!Without(Findable(work), Paths)
        BY <1>e, BlankFindable
    <3> QED BY <3>1, <3>2, <2>1, <1>t, EditRefines DEF Promise!Next
  <2>3. CASE ~Stale(disk)
    <3>1. disk' = disk /\ work' = work
        BY <2>1, <2>3, <1>1 DEF Open
    <3> QED BY <3>1, <2>1 DEF Promise!vars, Findable, HasRow
  <2> QED BY <2>2, <2>3
<1>2. CASE DropObject
  <2>1. PICK k \in 1..4 :
            Write([work EXCEPT !.has = @ \ {Schema[k]},
                  !.postings = IF k = 3 THEN Blank.postings ELSE @,
                  !.docs = IF k = 2 THEN Blank.docs ELSE @,
                  !.rows = IF k = 1 THEN Blank.rows ELSE @])
      BY <1>2 DEF DropObject
  <2> DEFINE new == [work EXCEPT !.has = @ \ {Schema[k]},
                  !.postings = IF k = 3 THEN Blank.postings ELSE @,
                  !.docs = IF k = 2 THEN Blank.docs ELSE @,
                  !.rows = IF k = 1 THEN Blank.rows ELSE @]
  <2>2. /\ new.postings = IF k = 3 THEN Blank.postings ELSE work.postings
        /\ new.rows = IF k = 1 THEN Blank.rows ELSE work.rows
      BY <1>t DEF Database
  <2> HIDE DEF new
  <2>3. Findable(new) = Findable(work) \/ Findable(new) = Promise!Without(Findable(work), Paths)
    <3>1. CASE k \in {1, 3}
        BY <3>1, <2>2, <1>e, BlankFindable
    <3>2. CASE k \notin {1, 3}
        BY <3>2, <2>2, SameFindable
    <3> QED BY <3>1, <3>2
  <2>4. Write(new) /\ tx' = tx
      BY <2>1, <1>2 DEF new, DropObject
  <2> QED BY <2>3, <2>4, <1>t, EditRefines DEF Promise!Next
<1>3. CASE CreateObject
  <2>1. PICK k \in 1..4 : Write([work EXCEPT !.has = @ \cup {Schema[k]}, !.built = IF k = 3 THEN mode ELSE @])
      BY <1>3 DEF CreateObject
  <2>2. Findable([work EXCEPT !.has = @ \cup {Schema[k]}, !.built = IF k = 3 THEN mode ELSE @]) = Findable(work)
      BY <1>t, SameFindable DEF Database
  <2>3. tx' = tx
      BY <1>3 DEF CreateObject
  <2> QED BY <2>1, <2>2, <2>3, <1>t, EditRefines DEF Promise!Next
<1>4. CASE RecordMode \/ RecordVersion
  <2>1. Findable([work EXCEPT !.match = mode]) = Findable(work)
        /\ Findable([work EXCEPT !.current = TRUE]) = Findable(work)
      BY <1>t, SameFindable DEF Database
  <2> QED BY <2>1, <1>4, <1>t, EditRefines DEF Promise!Next, RecordMode, RecordVersion
<1>6. CASE Begin \/ Commit
    BY <1>6 DEF Begin, Commit, Idle, Up, Promise!Next, Promise!Begin, Promise!Publish, Findable, HasRow
<1>7. ASSUME NEW p \in Paths, NEW h \in Hashes, NEW s \in {"indexed", "error"}, NEW ok \in BOOLEAN,
             Put(p, h, s, ok)
      PROVE  Promise!Next \/ UNCHANGED Promise!vars
  <2>1. PICK i \in Ids : IsIdFor(work, p, i) /\ Write(Savepoint(ok, Upserted(p, h, s, i)))
      BY <1>7 DEF Put
  <2>2. tx' = tx
      BY <1>7 DEF Put
  <2> DEFINE r == [path |-> p, hash |-> h, state |-> s]
             text == IF s = "error" THEN Empty ELSE h
  <2>3. r \in Row /\ r.path = p /\ text \in Texts
      BY DEF Row, States, Texts
  <2> HIDE DEF r, text
  <2>4. LET new == WithDoc([work EXCEPT !.rows[i] = r], i, text)
        IN  \/ Findable(new) = Findable(work)
            \/ \E t \in Texts : Findable(new) = Promise!Without(Findable(work), {p}) \cup {<<p, t>>}
    <3>1. work \in Database /\ Unique(work) /\ IsIdFor(work, p, i)
        BY <2>1, <1>t
    <3> QED BY <3>1, <2>3, PutFindable
  <2>5. Savepoint(ok, Upserted(p, h, s, i)) \in {work, WithDoc([work EXCEPT !.rows[i] = r], i, text)}
      BY DEF Savepoint, Upserted, r, text
  <2> DEFINE new == WithDoc([work EXCEPT !.rows[i] = r], i, text)
  <2>6. \/ Findable(new) = Findable(work)
        \/ \E t \in Texts : Findable(new) = Promise!Without(Findable(work), {p}) \cup {<<p, t>>}
      BY <2>4
  <2>7. Write(work) \/ Write(new)
      BY <2>1, <2>5
  <2> HIDE DEF new
  <2> QED BY <2>2, <2>6, <2>7, <1>t, EditRefines DEF Promise!Next
<1>8. ASSUME NEW p \in Paths, Touch(p) PROVE Promise!Next \/ UNCHANGED Promise!vars
  <2>1. PICK i \in IdsAt(work, {p}) : Write([work EXCEPT !.rows[i].state = "indexed"])
      BY <1>8 DEF Touch
  <2> DEFINE new == [work EXCEPT !.rows[i].state = "indexed"]
  <2>3. i \in Ids /\ work.rows[i] \in Row
      BY <1>t, ContentStoreAssumption DEF IdsAt, Database, NoRow
  <2>4. new.postings = work.postings /\ new.rows = [work.rows EXCEPT ![i] = [@ EXCEPT !.state = "indexed"]]
      BY <1>t DEF Database
  <2> HIDE DEF new
  <2>5. new.rows[i] = [work.rows[i] EXCEPT !.state = "indexed"]
        /\ \A j \in Ids : j # i => new.rows[j] = work.rows[j]
      BY <2>3, <2>4, <1>t DEF Database
  <2>6. new.rows[i].path = work.rows[i].path /\ new.rows[i] # NoRow /\ work.rows[i] # NoRow
      BY <2>3, <2>5 DEF Row, NoRow, States
  <2>7. \A j \in Ids : new.rows[j].path = work.rows[j].path /\ (new.rows[j] # NoRow <=> work.rows[j] # NoRow)
      BY <2>3, <2>5, <2>6
  <2>8. Findable(new) = Findable(work)
    <3>1. HasRow(new) = HasRow(work)
        BY <2>7 DEF HasRow
    <3>2. \A j \in HasRow(new) : new.rows[j].path = work.rows[j].path
        BY <2>7 DEF HasRow
    <3> QED BY <3>1, <3>2, <2>4 DEF Findable
  <2>9. Write(new) /\ tx' = tx
      BY <2>1, <1>8 DEF new, Touch
  <2> QED BY <2>8, <2>9, <1>t, EditRefines DEF Promise!Next
<1>9. ASSUME NEW p \in Paths, NEW S \in SUBSET Paths, NEW ok \in BOOLEAN, RemovePaths(p, S, ok)
      PROVE  Promise!Next \/ UNCHANGED Promise!vars
  <2>1. Write(Savepoint(ok, Removed(S))) /\ tx' = tx
      BY <1>9 DEF RemovePaths
  <2>2. Findable(Removed(S)) = Promise!Without(Findable(work), S)
      BY <1>t, RemoveFindable DEF Removed
  <2> QED BY <2>1, <2>2, <1>t, EditRefines DEF Promise!Next, Savepoint
<1>10. ASSUME NEW p \in Paths, NEW ok \in BOOLEAN, Tombstone(p, ok)
       PROVE  Promise!Next \/ UNCHANGED Promise!vars
  <2>1. PICK i \in IdsAt(work, {p}) : Write(Savepoint(ok, Tombstoned(i)))
      BY <1>10 DEF Tombstone
  <2>2. i \in Ids /\ work.rows[i] \in Row /\ tx' = tx
      BY <1>10, <1>t, ContentStoreAssumption DEF IdsAt, Database, NoRow, Tombstone
  <2> DEFINE new == Tombstoned(i)
  <2>3. /\ new.postings = WithoutDocs(work, {i}).postings
        /\ new.rows = [work.rows EXCEPT ![i] = [@ EXCEPT !.state = "tombstone"]]
      BY <1>t DEF Tombstoned, WithoutDocs, Database
  <2> HIDE DEF new
  <2>4. new.rows[i] = [work.rows[i] EXCEPT !.state = "tombstone"]
        /\ \A j \in Ids : j # i => new.rows[j] = work.rows[j]
      BY <2>2, <2>3, <1>t DEF Database
  <2>5. new.rows[i].path = work.rows[i].path /\ new.rows[i] # NoRow /\ work.rows[i] # NoRow
      BY <2>2, <2>4 DEF Row, NoRow, States
  <2>6. \E S \in SUBSET Paths : Findable(new) = Promise!Without(Findable(work), S)
    <3>1. {i} \in SUBSET Ids
        BY <2>2
    <3>2. \A j \in Ids : new.rows[j].path = work.rows[j].path /\ (new.rows[j] = NoRow <=> work.rows[j] = NoRow)
        BY <2>2, <2>4, <2>5
    <3>3. work \in Database /\ Unique(work) /\ new.postings = WithoutDocs(work, {i}).postings
        BY <2>3, <1>t
    <3> QED BY <3>1, <3>2, <3>3, DocsFindable, Zenon
  <2>7. Write(new) \/ Write(work)
      BY <2>1 DEF Savepoint, new
  <2> QED BY <2>2, <2>6, <2>7, <1>t, EditRefines DEF Promise!Next
<1>11. CASE Maintain
  <2> DEFINE I == IdsIn(work, "tombstone")
             S == {work.rows[i].path : i \in I}
  <2>1. Write(WithoutRows(WithoutDocs(work, I), I)) /\ tx' = tx
      BY <1>11 DEF Maintain
  <2>2. \A i \in I : i \in Ids /\ work.rows[i] # NoRow /\ work.rows[i].path \in Paths
      BY <1>t DEF IdsIn, NoRow, Database, Row
  <2>3. I = IdsAt(work, S)
      BY <2>2, <1>t, ContentStoreAssumption DEF IdsAt, IdsIn, Unique, NoRow
  <2>4. S \in SUBSET Paths
      BY <2>2
  <2>5. Findable(WithoutRows(WithoutDocs(work, I), I)) = Promise!Without(Findable(work), S)
      BY <2>3, <1>t, RemoveFindable
  <2> QED BY <2>1, <2>4, <2>5, <1>t, EditRefines DEF Promise!Next
<1>12. ASSUME NEW ok \in BOOLEAN, ClearDocs(ok) PROVE Promise!Next \/ UNCHANGED Promise!vars
  <2> DEFINE new == IF ok THEN WithoutDocs(work, Ids) ELSE work
  <2>1. Write(new) /\ tx' = tx
      BY <1>12 DEF ClearDocs, Attempt
  <2>2. WithoutDocs(work, Ids).rows = work.rows
      BY <1>t DEF WithoutDocs, Database
  <2>3. Findable(new) = Findable(work) \/ \E S \in SUBSET Paths : Findable(new) = Promise!Without(Findable(work), S)
      BY <2>2, <1>t, DocsFindable
  <2> HIDE DEF new
  <2> QED BY <2>1, <2>3, <1>t, EditRefines DEF Promise!Next
<1>13. ASSUME NEW ok \in BOOLEAN, ClearFiles(ok) PROVE Promise!Next \/ UNCHANGED Promise!vars
  <2> DEFINE new == IF ok THEN WithoutRows(work, Ids) ELSE work
  <2>1. Write(new) /\ tx' = tx
      BY <1>13 DEF ClearFiles, Attempt
  <2>2. WithoutRows(work, Ids).rows = Blank.rows
      BY <1>t DEF WithoutRows, Database, Blank
  <2>3. Findable(new) = Findable(work) \/ Findable(new) = Promise!Without(Findable(work), Paths)
      BY <2>2, <1>e, BlankFindable
  <2> HIDE DEF new
  <2> QED BY <2>1, <2>3, <1>t, EditRefines DEF Promise!Next
<1>14. ASSUME NEW ok \in BOOLEAN, ClearRebuild(ok) PROVE Promise!Next \/ UNCHANGED Promise!vars
  <2> DEFINE new == IF ok THEN [work EXCEPT !.postings = work.docs] ELSE work
  <2>1. Write(new) /\ tx' = tx /\ ~tx /\ st = "clear_rebuild"
      BY <1>14 DEF ClearRebuild, Attempt, IInv
  <2>2. CASE torn
    <3>1. new \in Database
        BY <1>t DEF Database
    <3>2. Findable(new) \in SUBSET (Paths \X Texts)
        BY <3>1 DEF Findable, HasRow, Database, Row, NoRow
    <3>3. disk' = new /\ work' = new
        BY <2>1 DEF Write
    <3> HIDE DEF new
    <3>4. Findable(disk)' = Findable(new) /\ Findable(work)' = Findable(new)
        BY <3>3 DEF Findable, HasRow
    <3> QED BY <2>1, <2>2, <3>2, <3>4 DEF Promise!Next, Promise!Restore
  <2>3. CASE ~torn
    <3>1. Whole(work)
        BY <2>1, <2>3 DEF IInv, Stored
    <3>2. \A i \in Ids : new.postings[i] = work.postings[i] /\ new.rows[i] = work.rows[i]
        BY <3>1, <1>t DEF Whole, InStep, Database
    <3>3. Findable(new) = Findable(work)
        BY <3>2 DEF Findable, HasRow
    <3> HIDE DEF new
    <3> QED BY <2>1, <3>3, <1>t, EditRefines DEF Promise!Next
  <2> QED BY <2>2, <2>3
<1>15. CASE Crash
    BY <1>15 DEF Crash, Promise!Next, Promise!Revert, Findable, HasRow
<1>16. CASE Corrupt
  <2>1. work' = disk' /\ disk' = [disk EXCEPT !.sound = FALSE] /\ tx' = tx /\ ~tx
      BY <1>16 DEF Corrupt, IInv
  <2>2. Findable([disk EXCEPT !.sound = FALSE]) = Findable(disk)
      BY <1>t, SameFindable DEF Database
  <2>3. Findable(disk)' = Findable(disk) /\ Findable(work)' = Findable(disk) /\ work = disk
      BY <2>1, <2>2, <1>t DEF Findable, HasRow
  <2> QED BY <2>1, <2>3 DEF Promise!vars
<1>17. CASE UNCHANGED vars
    BY <1>17 DEF vars, Promise!vars, Findable, HasRow
<1>18. CASE DropFails
    BY <1>18 DEF DropFails, Promise!vars, Findable, HasRow
<1> QED BY <1>1, <1>2, <1>3, <1>4, <1>6, <1>7, <1>8, <1>9, <1>10, <1>11, <1>12, <1>13,
           <1>14, <1>15, <1>16, <1>17, <1>18 DEF Step, Next, Opening, Writing

\* The store implements SearchIndex: whatever the writer does, what a search can find changes
\* by whole transactions, and a crash, a failed statement or a rebuild never shows half of one.
THEOREM Implements == Spec => Refines
<1>1. Promise!Spec <=> Promise!Init /\ [][Promise!Next]_Promise!vars
    BY DEF Promise!Spec
<1> QED BY InitRefines, StepRefines, Invariant, <1>1, PTL DEF Spec, Refines
-----------------------------------------------------------------------------
(***************************************************************************)
(* The words of a result, the first half of HitsMatch: the statements of a *)
(* search read the committed database one after the other, or what is left *)
(* of an unlinked one.                                                     *)
(***************************************************************************)

\* What a row is found by is what its snippet is made of, the text of the bytes it names.
Shows(db) ==
    \A i \in Ids : db.postings[i] # None => db.docs[i] = db.postings[i] /\ db.docs[i] \in {Empty, db.rows[i].hash}

\* The tables of a database that is being dropped still agree.
WriterInv == IInv /\ (st = "drop" /\ ~torn => Shows(disk) /\ Shows(work))

LEMMA InStepShows ==
    ASSUME WriterInv, ~torn
    PROVE  Shows(disk) /\ Shows(work)
<1>1. st \in {"down", "drop", "build", "version", "up", "clear_files", "clear_rebuild"}
    BY DEF WriterInv, IInv, TypeOK
<1>2. ASSUME NEW db, Whole(db) PROVE Shows(db)
    BY <1>2 DEF Whole, InStep, Shows
<1>3. ASSUME NEW db, db.postings = Blank.postings PROVE Shows(db)
    BY <1>3 DEF Blank, Shows
<1> QED BY <1>1, <1>2, <1>3 DEF WriterInv, IInv, Stored

LEMMA WriterStart == Init => WriterInv
BY InitInv DEF WriterInv, Init

LEMMA WriterGoesOn == WriterInv /\ [Step]_vars => WriterInv'
<1> SUFFICES ASSUME WriterInv, [Step]_vars, st' = "drop", ~torn' PROVE Shows(disk') /\ Shows(work')
    BY StepInv DEF WriterInv
<1>1. TypeOK
    BY DEF WriterInv, IInv
<1>2. CASE UNCHANGED vars
    BY <1>2 DEF vars, WriterInv
<1>3. ASSUME NEW m \in Modes, Open(m) PROVE Shows(disk') /\ Shows(work')
  <2>1. Shows(Blank)
      BY DEF Shows, Blank
  <2>2. disk' = Blank \/ (disk' = disk /\ ~torn)
      BY <1>3 DEF Open
  <2>3. Shows(disk')
      BY <2>1, <2>2, InStepShows
  <2> QED BY <1>3, <2>3 DEF Open
<1>4. CASE DropObject
  <2>1. PICK k \in 1..4 :
            /\ \A j \in (k + 1)..4 : Schema[j] \notin work.has
            /\ Write([work EXCEPT !.has = @ \ {Schema[k]},
                  !.postings = IF k = 3 THEN Blank.postings ELSE @,
                  !.docs = IF k = 2 THEN Blank.docs ELSE @,
                  !.rows = IF k = 1 THEN Blank.rows ELSE @])
            /\ st' = IF k = 1 THEN "build" ELSE "drop"
            /\ torn' = (torn /\ k # 1)
      BY <1>4 DEF DropObject
  <2>2. k # 1 /\ ~torn /\ st = "drop" /\ ~tx
      BY <1>4, <2>1 DEF DropObject, WriterInv, IInv, TypeOK
  <2>3. disk' = work' /\ work' = [work EXCEPT !.has = @ \ {Schema[k]},
                  !.postings = IF k = 3 THEN Blank.postings ELSE @,
                  !.docs = IF k = 2 THEN Blank.docs ELSE @,
                  !.rows = IF k = 1 THEN Blank.rows ELSE @]
      BY <2>1, <2>2 DEF Write
  <2>4. k = 2 => "fts" \notin work.has
      BY <2>1 DEF Schema
  <2>5. k = 2 => work.postings = Blank.postings
      BY <2>4 DEF WriterInv, IInv, Stored, Ordered
  <2>6. /\ work'.postings = (IF k = 3 THEN Blank.postings ELSE work.postings)
        /\ work'.docs = (IF k = 2 THEN Blank.docs ELSE work.docs)
        /\ work'.rows = work.rows
    <3>1. work \in Database
        BY <1>1 DEF TypeOK
    <3> QED BY <2>2, <2>3, <3>1 DEF Database
  <2>7. Shows(work)
      BY <2>2 DEF WriterInv
  <2>8. \A i \in Ids : Blank.postings[i] = None
      BY DEF Blank
  <2> QED BY <2>2, <2>3, <2>5, <2>6, <2>7, <2>8 DEF Shows
<1>5. CASE Step /\ ~(\E m \in Modes : Open(m)) /\ ~DropObject
    BY <1>5 DEF Step, Next, Opening, Writing, DropFails, CreateObject, RecordMode, RecordVersion, Begin, Commit, Maintain, Put,
                Touch, RemovePaths, Tombstone, ClearDocs, ClearFiles, ClearRebuild, Crash, Corrupt, Idle, Up
<1> QED BY <1>2, <1>3, <1>4, <1>5

\* The hits so far are of the search that has them.
IsHit(h, s) == ~h.torn => h.shown \in {h.row.hash, Empty} /\ Found(h.index, h.shown, s)

WordsMatch ==
    search.pc \in {"hydrate", "done"} /\ Terms(search.words) # {} => \A h \in search.hits : IsHit(h, search)

Search(at, q, words, filter, form, quiet, hits, top) ==
    [pc |-> at, q |-> q, words |-> words, filter |-> filter, form |-> form,
     quiet |-> quiet, hits |-> hits, top |-> top]

SearchInv ==
    /\ WriterInv
    /\ ~kept.torn => Shows(kept)
    /\ reader.avail = "closed" => search = NoSearch
    /\ \/ search = NoSearch
       \/ \E at, q, words, filter, form, quiet, hits, top :
            search = Search(at, q, words, filter, form, quiet, hits, top)
    /\ search.pc \in {"full", "bounded"} => search.hits = {}
    /\ search.pc = "browse" => Terms(search.words) = {}
    /\ WordsMatch

LEMMA ViewShows ==
    ASSUME WriterInv, ~kept.torn => Shows(kept), ~View.torn
    PROVE  Shows(View)
<1>1. CASE reader.inode = inode
  <2>1. View.torn = torn /\ View.rows = disk.rows /\ View.docs = disk.docs /\ View.postings = disk.postings
      BY <1>1 DEF View, Marked
  <2> QED BY <2>1, InStepShows DEF Shows
<1>2. CASE reader.inode # inode
    BY <1>2 DEF View
<1> QED BY <1>1, <1>2

LEMMA SearchStart == SInit => SearchInv
<1> SUFFICES ASSUME SInit PROVE SearchInv
    OBVIOUS
<1>1. WriterInv
    BY WriterStart DEF SInit
<1>2. Shows(kept)
    BY DEF SInit, Marked, Blank, Shows
<1>3. search = NoSearch /\ search.pc = "none"
    BY DEF SInit, NoSearch
<1> QED BY <1>1, <1>2, <1>3 DEF SearchInv, WordsMatch

\* A search that goes on with the words and the form it had keeps its hits.
LEMMA HitsStay ==
    ASSUME WordsMatch, UNCHANGED reader, UNCHANGED <<search.words, search.form, search.hits>>,
           search.pc \in {"hydrate", "done"}
    PROVE  WordsMatch'
BY DEF WordsMatch, IsHit, Terms, Found, FormOf

LEMMA WriterMoves ==
    ASSUME SearchInv, WriterStep
    PROVE  SearchInv'
<1>1. WriterInv'
    BY WriterGoesOn DEF SearchInv, WriterStep
<1>2. ~kept'.torn => Shows(kept')
    BY ViewShows DEF SearchInv, WriterStep
<1>3. UNCHANGED reader
    BY DEF WriterStep
<1>4. CASE search = NoSearch
  <2>1. search' = NoSearch /\ search'.pc = "none"
      BY <1>4 DEF WriterStep, NoSearch
  <2> QED BY <1>1, <1>2, <2>1 DEF SearchInv, WordsMatch
<1>5. CASE search # NoSearch
  <2>1. PICK at, q, words, filter, form, quiet, hits, top :
            search = Search(at, q, words, filter, form, quiet, hits, top)
      BY <1>5 DEF SearchInv
  <2>2. CASE search.pc = "none"
    <3>1. UNCHANGED search
        BY <2>2 DEF WriterStep
    <3> QED BY <1>1, <1>2, <1>3, <2>2, <3>1 DEF SearchInv, WordsMatch
  <2>3. CASE search.pc # "none"
    <3>1. search' = [search EXCEPT !.quiet = @ /\ View' = View]
        BY <2>3 DEF WriterStep
    <3>2. \E still : search' = Search(at, q, words, filter, form, still, hits, top)
        BY <2>1, <3>1 DEF Search
    <3>3. UNCHANGED <<search.pc, search.words, search.form, search.hits>>
        BY <2>1, <3>2 DEF Search
    <3>4. search.pc \in {"hydrate", "done"} => WordsMatch'
        BY <1>3, <3>3, HitsStay DEF SearchInv
    <3>5. search.pc \notin {"hydrate", "done"} => WordsMatch'
        BY <3>3 DEF WordsMatch
    <3>6. Terms(search.words)' = Terms(search.words)
        BY <1>3, <3>3 DEF Terms
    <3>7. reader.avail # "closed"
        BY <1>5 DEF SearchInv
    <3> QED BY <1>1, <1>2, <1>3, <3>2, <3>3, <3>4, <3>5, <3>6, <3>7 DEF SearchInv
  <2> QED BY <2>2, <2>3
<1> QED BY <1>4, <1>5

LEMMA ReaderOpens ==
    ASSUME SearchInv, OpenReader \/ CloseReader
    PROVE  SearchInv'
<1>1. UNCHANGED vars /\ UNCHANGED kept /\ search' = NoSearch
    BY DEF OpenReader, CloseReader, StayingWriter, SearchInv
<1>2. search'.pc = "none"
    BY <1>1 DEF NoSearch
<1>3. WriterInv'
    BY <1>1, WriterGoesOn DEF SearchInv
<1> QED BY <1>1, <1>2, <1>3 DEF SearchInv, WordsMatch, Shows

\* The search that is planned, or that goes on, as a record.
LEMMA SearchSteps ==
    ASSUME SearchInv, Reading, reader.avail # "closed",
           NEW at, NEW q, NEW words, NEW filter, NEW form, NEW quiet, NEW hits, NEW top,
           search' = Search(at, q, words, filter, form, quiet, hits, top),
           at \in {"full", "bounded"} => hits = {},
           at = "browse" => Terms(words) = {},
           at \in {"hydrate", "done"} /\ Terms(words) # {} => \A h \in hits : IsHit(h, search')
    PROVE  SearchInv'
<1>1. UNCHANGED vars /\ UNCHANGED <<kept, reader>>
    BY DEF Reading, StayingWriter
<1>2. WriterInv'
    BY <1>1, WriterGoesOn DEF SearchInv
<1>3. search'.pc = at /\ search'.words = words /\ search'.hits = hits /\ search'.form = form
    BY DEF Search
<1>4. Terms(search.words)' = Terms(words)
    BY <1>1, <1>3 DEF Terms
<1>5. \A index, text : Found(index, text, search)' = Found(index, text, search')
    BY <1>1 DEF Found, Terms, FormOf
<1>6. WordsMatch'
    BY <1>3, <1>4, <1>5 DEF WordsMatch, IsHit
<1>7. ~kept'.torn => Shows(kept')
    BY <1>1 DEF SearchInv
<1> QED BY <1>1, <1>2, <1>3, <1>4, <1>6, <1>7 DEF SearchInv

LEMMA ReaderMoves ==
    ASSUME SearchInv, (\E q \in Queries : Plan(q)) \/ Browse \/ RankFull \/ Interrupted \/ RankBounded \/ Hydrate \/ Done
    PROVE  SearchInv'
<1>1. ASSUME NEW query \in Queries, Plan(query) PROVE SearchInv'
  <2> DEFINE f == Parsed(query)
             common == Readable({"fts"}) /\ IsCommon(View, f.words)
             plan == IF Terms(f.words) # {} THEN IF common THEN "bounded" ELSE "full"
                     ELSE IF f.active THEN "browse" ELSE "done"
  <2>1. Reading /\ reader.avail # "closed" /\ search' = Search(plan, query, f.words, f, "start", TRUE, {}, {})
      BY <1>1 DEF Plan, FirstPhase, Search
  <2>2. plan = "browse" => Terms(f.words) = {}
      OBVIOUS
  <2> HIDE DEF f, common, plan
  <2> QED BY <2>1, <2>2, SearchSteps
<1>2. CASE Browse \/ RankFull \/ Interrupted \/ RankBounded \/ Hydrate \/ Done
  <2>0. /\ Reading /\ search.pc \in {"browse", "full", "bounded", "hydrate"}
      BY <1>2 DEF Browse, RankFull, Interrupted, RankBounded, Hydrate, Done, FirstPhase, LaterPhase
  <2>1. search # NoSearch
      BY <2>0 DEF NoSearch
  <2>2. reader.avail # "closed"
      BY <2>1 DEF SearchInv
  <2>3. PICK at, q, words, filter, form, quiet, hits, top :
            search = Search(at, q, words, filter, form, quiet, hits, top)
      BY <2>1 DEF SearchInv
  <2>4. /\ search.pc = at /\ search.words = words /\ search.hits = hits /\ search.form = form
        /\ search.top = top
      BY <2>3 DEF Search
  <2>5. CASE Browse
    <3>1. PICK found : search' = [search EXCEPT !.pc = "done", !.hits = found]
        BY <2>5 DEF Browse
    <3>2. search' = Search("done", q, words, filter, form, quiet, found, top)
        BY <2>3, <3>1 DEF Search
    <3>3. Terms(words) = {}
        BY <2>4, <2>5 DEF Browse, SearchInv
    <3> QED BY <2>0, <2>2, <3>2, <3>3, SearchSteps
  <2>6. CASE RankFull
    <3>1. PICK best : search' = [search EXCEPT !.pc = "hydrate", !.top = best]
        BY <2>6 DEF RankFull
    <3>2. search' = Search("hydrate", q, words, filter, form, quiet, {}, best)
        BY <2>3, <2>4, <2>6, <3>1 DEF Search, RankFull, SearchInv
    <3> QED BY <2>0, <2>2, <3>2, SearchSteps
  <2>7. CASE Interrupted
    <3>1. search' = Search("bounded", q, words, filter, form, quiet, {}, top)
        BY <2>3, <2>4, <2>7 DEF Search, Interrupted, SearchInv
    <3> QED BY <2>0, <2>2, <3>1, SearchSteps
  <2>8. CASE RankBounded
    <3>1. PICK best : search' = [[search EXCEPT !.form = "word", !.pc = "hydrate"] EXCEPT !.top = best]
        BY <2>8 DEF RankBounded
    <3>2. search.hits = {}
        BY <2>8 DEF RankBounded, SearchInv
    <3>3. search' = Search("hydrate", q, words, filter, "word", quiet, {}, best)
        BY <2>3, <2>4, <3>1, <3>2 DEF Search
    <3> QED BY <2>0, <2>2, <3>3, SearchSteps
  <2>9. CASE Hydrate
    <3>1. PICK i \in top :
              search' = [search EXCEPT !.top = @ \ {i},
                           !.hits = IF Readable({"fts", "files"}) /\ ~Vanished(View, search, i)
                                    THEN @ \cup {Hit(View, i)} ELSE @]
        BY <2>4, <2>9 DEF Hydrate
    <3> DEFINE more == IF Readable({"fts", "files"}) /\ ~Vanished(View, search, i)
                       THEN hits \cup {Hit(View, i)} ELSE hits
    <3>2. search' = Search("hydrate", q, words, filter, form, quiet, more, top \ {i})
        BY <2>3, <2>4, <2>9, <3>1 DEF Search, Hydrate
    <3>3. search'.words = words /\ search'.form = form
        BY <3>2 DEF Search
    <3>4. \A index, text : Found(index, text, search') = Found(index, text, search)
        BY <2>4, <3>3 DEF Found, FormOf
    <3>5. ASSUME Terms(words) # {}, NEW h \in hits PROVE IsHit(h, search')
        BY <2>4, <2>9, <3>4, <3>5 DEF SearchInv, WordsMatch, Hydrate, IsHit
    <3>6. ASSUME ~Vanished(View, search, i) PROVE IsHit(Hit(View, i), search')
      <4>1. i \in Ids /\ View.postings[i] # None /\ Found(View.built, View.postings[i], search)
          BY <3>6 DEF Vanished, MatchingIds
      <4>2. ~View.torn => View.docs[i] = View.postings[i] /\ View.docs[i] \in {Empty, View.rows[i].hash}
          BY <4>1, ViewShows DEF SearchInv, Shows
      <4> QED BY <3>4, <4>1, <4>2 DEF IsHit, Hit
    <3>7. Terms(words) # {} => \A h \in more : IsHit(h, search')
        BY <3>5, <3>6
    <3> QED BY <2>0, <2>2, <3>2, <3>7, SearchSteps
  <2>10. CASE Done
    <3>1. search' = Search("done", q, words, filter, form, quiet, hits, top)
        BY <2>3, <2>10 DEF Search, Done
    <3>2. search'.words = words /\ search'.form = form
        BY <3>1 DEF Search
    <3>3. \A index, text : Found(index, text, search') = Found(index, text, search)
        BY <2>4, <3>2 DEF Found, FormOf
    <3>4. Terms(words) # {} => \A h \in hits : IsHit(h, search')
        BY <2>4, <2>10, <3>3 DEF SearchInv, WordsMatch, Done, IsHit
    <3> QED BY <2>0, <2>2, <3>1, <3>4, SearchSteps
  <2> QED BY <1>2, <2>5, <2>6, <2>7, <2>8, <2>9, <2>10
<1> QED BY <1>1, <1>2

LEMMA SearchGoesOn == SearchInv /\ [SNext]_<<vars, searchVars>> => SearchInv'
<1>1. SearchInv /\ UNCHANGED <<vars, searchVars>> => SearchInv'
  <2> SUFFICES ASSUME SearchInv, UNCHANGED <<vars, searchVars>> PROVE SearchInv'
      OBVIOUS
  <2>1. UNCHANGED <<kept, reader, search>> /\ UNCHANGED vars
      BY DEF searchVars
  <2>2. WriterInv'
      BY <2>1, WriterGoesOn DEF SearchInv
  <2>3. WordsMatch'
      BY <2>1 DEF SearchInv, WordsMatch, IsHit, Terms, Found, FormOf
  <2> QED BY <2>1, <2>2, <2>3 DEF SearchInv, Terms
<1> QED BY <1>1, WriterMoves, ReaderOpens, ReaderMoves DEF SNext

\* The searches only read: what is proved of the writer holds with them.
LEMMA SearchesOnlyRead == SSpec => Spec
<1>1. SInit => Init
    BY DEF SInit
<1>2. [SNext]_<<vars, searchVars>> => [Step]_vars
    BY DEF SNext, WriterStep, OpenReader, CloseReader, Plan, Browse, RankFull, Interrupted, RankBounded, Hydrate,
           Done, FirstPhase, LaterPhase, Reading, StayingWriter
<1> QED BY <1>1, <1>2, PTL DEF SSpec, Spec

-----------------------------------------------------------------------------
(***************************************************************************)
(* What a predicate means and what it becomes: the arithmetic of days,     *)
(* durations and ticks.                                                    *)
(***************************************************************************)

\* Multiplication keeps the order.
LEMMA Scaled ==
    ASSUME NEW a \in Int, NEW b \in Int, NEW n \in Nat \ {0}
    PROVE  a * n \in Int /\ b * n \in Int /\ (a < b => a * n + n <= b * n) /\ (a >= b <=> a * n >= b * n)
<1>1. a * n \in Int /\ b * n \in Int
    OBVIOUS
<1>2. ASSUME NEW x \in Int, NEW y \in Int, x < y PROVE x * n + n <= y * n
  <2>1. (y - x - 1) * n >= 0
      BY <1>2
  <2>2. (y - x - 1) * n = y * n - x * n - n
      OBVIOUS
  <2> QED BY <2>1, <2>2
<1>3. ASSUME a < b PROVE a * n < b * n
    BY <1>1, <1>2, <1>3
<1>4. ASSUME a > b PROVE a * n > b * n
    BY <1>1, <1>2, <1>4
<1> QED BY <1>1, <1>2, <1>3, <1>4

\* Division by n, as a number of times n and a rest.
LEMMA Division ==
    ASSUME NEW m \in Nat, NEW n \in Nat \ {0}
    PROVE  m \div n \in Nat /\ m % n \in 0..(n - 1) /\ m = (m \div n) * n + (m % n)
OBVIOUS

\* A quotient is at least k if the dividend is at least k times the divisor.
LEMMA QuotientAtLeast ==
    ASSUME NEW m \in Nat, NEW n \in Nat \ {0}, NEW k \in Int
    PROVE  m \div n >= k <=> m >= k * n
<1> DEFINE p == m \div n
           r == m % n
<1>1. p \in Nat /\ r \in 0..(n - 1) /\ m = p * n + r
    BY Division
<1> HIDE DEF p, r
<1>2. k * n \in Int /\ p * n \in Int /\ (p < k => p * n + n <= k * n) /\ (p >= k <=> p * n >= k * n)
    BY <1>1, Scaled
<1>3. CASE p >= k
    BY <1>1, <1>2, <1>3 DEF p
<1>4. CASE p < k
    BY <1>1, <1>2, <1>4 DEF p
<1> QED BY <1>1, <1>3, <1>4

-----------------------------------------------------------------------------
\* The end of the last second of a day, and the start of it.
LEMMA LastSeconds ==
    ASSUME NEW m \in Nat, NEW day \in Nat \ {0}, NEW tick \in Nat \ {0}, NEW d \in Int,
           m % (day * tick) <= (day - 1) * tick
    PROVE  m < (d * day) * tick <=> m <= (d * day - 1) * tick
<1> DEFINE n == day * tick
           p == m \div n
           r == m % n
<1>1. n \in Nat \ {0} /\ d * n \in Int /\ (d * day) * tick = d * n
    OBVIOUS
<1>2. (d * day - 1) * tick = d * n - tick /\ (day - 1) * tick = n - tick
    OBVIOUS
<1>3. p \in Nat /\ r \in 0..(n - 1) /\ m = p * n + r
    BY <1>1, Division
<1>4. r <= n - tick
    BY <1>2
<1> HIDE DEF n, p, r
<1>5. p * n \in Int /\ (p < d => p * n + n <= d * n) /\ (p >= d <=> p * n >= d * n)
    BY <1>1, <1>3, Scaled
<1>6. m < d * n <=> m <= d * n - tick
  <2>1. CASE p >= d
      BY <2>1, <1>1, <1>3, <1>5
  <2>2. CASE p < d
      BY <2>2, <1>1, <1>3, <1>4, <1>5
  <2> QED BY <1>3, <2>1, <2>2
<1> QED BY <1>1, <1>2, <1>6

-----------------------------------------------------------------------------
(***************************************************************************)
(* The parser, read token by token: each bound of the filter is that of    *)
(* one of the tokens read so far, or none.                                 *)
(***************************************************************************)

\* A set of numbers that is not empty has a least one.
LEMMA Least == ASSUME NEW T, T \subseteq Nat, T # {} PROVE \E x \in T : \A y \in T : x <= y
<1> DEFINE R == OpToRel(<, Nat)
<1>1. IsWellFoundedOn(R, Nat)
    BY NatLessThanWellFounded
<1>2. PICK x \in T : \A y \in T : ~(<<y, x>> \in R)
  <2> HIDE DEF R
  <2> QED BY <1>1, WFMin
<1>3. \A y \in T : ~(y < x)
    BY <1>2 DEF OpToRel
<1> QED BY <1>3

\* Induction, for a set.
LEMMA Induction == ASSUME NEW A, 0 \in A, \A n \in Nat : n \in A => n + 1 \in A PROVE Nat \subseteq A
<1> SUFFICES ASSUME Nat \ A # {} PROVE FALSE
    OBVIOUS
<1>1. PICK x \in Nat \ A : \A y \in Nat \ A : x <= y
    BY Least
<1>2. x # 0 /\ x - 1 \in Nat /\ x = (x - 1) + 1 /\ ~(x <= x - 1)
    OBVIOUS
<1>3. x - 1 \in A
    BY <1>1, <1>2
<1> QED BY <1>1, <1>2, <1>3

\* What a query is made of, and what a filter can be on the way through it.
Tokens(q) == {t \in Range(q) : IsToken(t)}

Filters(q) ==
    [active : BOOLEAN, kinds : SUBSET {t.kind : t \in Tokens(q)}, names : SUBSET {t.name : t \in Tokens(q)},
     min : Int, max : Int, after : Int, before : Int, words : Seq(Tokens(q))]

LEMMA WindowType ==
    ASSUME NEW t, t.is \in {"today", "yesterday", "duration", "date"}, t.is \in {"duration", "date"} => t.n \in Nat
    PROVE  Window(t).from \in Int /\ Window(t).to \in Int
<1> USE StoreSearchAssumption
<1>1. Day \in Nat \ {0} /\ Now \in Nat /\ Now % Day \in Int
    OBVIOUS
<1>2. CASE t.is = "today"
  <2>1. Window(t) = [from |-> Now - (Now % Day), to |-> 0]
      BY <1>2 DEF Window
  <2> QED BY <1>1, <2>1
<1>3. CASE t.is = "yesterday"
  <2>1. Window(t) = [from |-> Now - (Now % Day) - Day, to |-> Now - (Now % Day) - 1]
      BY <1>3 DEF Window
  <2> QED BY <1>1, <2>1
<1>4. CASE t.is = "duration"
  <2>1. Now - t.n \in Int
      BY <1>1, <1>4
  <2>2. Window(t) = IF t.op = ">" THEN [from |-> 0, to |-> Now - t.n] ELSE [from |-> Now - t.n, to |-> 0]
      BY <1>4 DEF Window
  <2> QED BY <2>1, <2>2
<1>5. CASE t.is = "date"
  <2>1. t.n * Day \in Int
      BY <1>1, <1>5
  <2>2. Window(t) = IF t.op = "<" THEN [from |-> 0, to |-> t.n * Day - 1]
                    ELSE IF t.op = ">" THEN [from |-> t.n * Day + Day, to |-> 0]
                    ELSE [from |-> t.n * Day, to |-> t.n * Day + Day - 1]
      BY <1>5 DEF Window
  <2> QED BY <1>1, <2>1, <2>2
<1> QED BY <1>2, <1>3, <1>4, <1>5

LEMMA TokenType ==
    ASSUME NEW q, NEW f \in Filters(q), NEW t \in Tokens(q)
    PROVE  WithToken(f, t) \in Filters(q)
<1> USE StoreSearchAssumption
<1>1. IsToken(t)
    BY DEF Tokens
<1>a. Append(f.words, t) \in Seq(Tokens(q))
    BY DEF Filters
<1>2. CASE t.key = "kind" /\ t.known
    BY <1>2 DEF WithToken, Filters
<1>3. CASE t.key = "name" /\ t.known
    BY <1>3 DEF WithToken, Filters
<1>4. CASE t.key = "size"
  <2>1. WithToken(f, t) = WithSize(f, t)
      BY <1>4 DEF WithToken
  <2>2. t.n \in Nat
      BY <1>1, <1>4 DEF IsToken
  <2>3. CASE t.op \in {">", ">=", "<", "<="}
    <3>1. \/ WithToken(f, t) = [f EXCEPT !.active = TRUE, !.min = t.n + 1]
          \/ WithToken(f, t) = [f EXCEPT !.active = TRUE, !.min = t.n]
          \/ WithToken(f, t) = [f EXCEPT !.active = TRUE, !.max = t.n - 1]
          \/ WithToken(f, t) = [f EXCEPT !.active = TRUE, !.max = t.n]
        BY <2>1, <2>3 DEF WithSize
    <3>2. t.n + 1 \in Int /\ t.n - 1 \in Int /\ t.n \in Int
        BY <2>2
    <3>3. ASSUME NEW n \in Int
          PROVE  /\ [f EXCEPT !.active = TRUE, !.min = n] \in Filters(q)
                 /\ [f EXCEPT !.active = TRUE, !.max = n] \in Filters(q)
        BY DEF Filters
    <3> HIDE DEF Filters
    <3> QED BY <3>1, <3>2, <3>3, Zenon
  <2>4. CASE t.op \notin {">", ">=", "<", "<="}
    <3>1. WithToken(f, t) = [f EXCEPT !.words = Append(@, t)]
        BY <2>1, <2>4 DEF WithSize
    <3> QED BY <1>a, <3>1 DEF Filters
  <2> QED BY <2>3, <2>4
<1>5. CASE t.key = "modified" /\ t.is # "malformed"
  <2>1. Window(t).from \in Int /\ Window(t).to \in Int
      BY <1>1, <1>5, WindowType DEF IsToken
  <2>2. Window(t).from * Tick \in Int /\ Window(t).to * Tick \in Int
      BY <2>1
  <2>3. WithToken(f, t) = WithModified(f, t)
      BY <1>5 DEF WithToken
  <2> QED BY <2>2, <2>3 DEF WithModified, Filters
<1>6. CASE t.key \notin {"kind", "name", "size", "modified"} \/ (t.key \in {"kind", "name"} /\ ~t.known)
            \/ (t.key = "modified" /\ t.is = "malformed")
  <2>1. WithToken(f, t) = [f EXCEPT !.words = Append(@, t)]
      BY <1>6 DEF WithToken
  <2> QED BY <1>a, <2>1 DEF Filters
<1> QED BY <1>1, <1>2, <1>3, <1>4, <1>5, <1>6 DEF IsToken

\* f begins with b and goes from each value to the next as g says.
Follows(f, N, T, b, g) ==
    f \in [0..N -> T] /\ f[0] = b /\ \A i \in 1..N : f[i] = g[<<i, f[i - 1]>>]

\* Such a function exists: what a recursive function is defined by has a meaning.
LEMMA Recursion ==
    ASSUME NEW N \in Nat, NEW T, NEW b \in T, NEW g \in [(1..N) \X T -> T]
    PROVE  \E f : Follows(f, N, T, b, g)
<1> DEFINE Upto(f, n) == f[0] = b /\ \A i \in 1..n : f[i] = g[<<i, f[i - 1]>>]
           Good == {n \in Nat : n <= N => \E f \in [0..n -> T] : Upto(f, n)}
<1>1. 0 \in Good
  <2>1. [i \in 0..0 |-> b] \in [0..0 -> T] /\ Upto([i \in 0..0 |-> b], 0)
    OBVIOUS
  <2>2. QED
    BY <2>1
<1>2. ASSUME NEW n \in Nat, n \in Good PROVE n + 1 \in Good
  <2> SUFFICES ASSUME n + 1 <= N PROVE \E f \in [0..(n + 1) -> T] : Upto(f, n + 1)
    OBVIOUS
  <2>1. PICK h \in [0..n -> T] : Upto(h, n)
    BY <1>2
  <2> DEFINE f == [i \in 0..(n + 1) |-> IF i = n + 1 THEN g[<<n + 1, h[n]>>] ELSE h[i]]
  <2>2. g[<<n + 1, h[n]>>] \in T
    OBVIOUS
  <2>3. f \in [0..(n + 1) -> T]
    BY <2>2
  <2>4. ASSUME NEW i \in 1..(n + 1) PROVE f[i] = g[<<i, f[i - 1]>>]
    <3>1. f[i - 1] = h[i - 1] /\ i - 1 \in 0..n
      OBVIOUS
    <3>2. CASE i = n + 1
      <4>1. f[n + 1] = g[<<n + 1, h[n]>>] /\ i - 1 = n
        BY <3>2
      <4>2. QED
        BY <3>1, <3>2, <4>1
    <3>3. CASE i # n + 1
      <4>1. i \in 1..n /\ f[i] = h[i]
        BY <3>3
      <4>2. h[i] = g[<<i, h[i - 1]>>]
        BY <2>1, <4>1
      <4>3. QED
        BY <3>1, <4>1, <4>2
    <3>4. QED
      BY <3>2, <3>3
  <2>5. f[0] = b
    BY <2>1
  <2>6. Upto(f, n + 1)
    BY <2>4, <2>5
  <2>7. QED
    BY <2>3, <2>6
<1>3. N \in Good
  <2> HIDE DEF Good
  <2>1. QED
    BY <1>1, <1>2, Induction
<1>4. QED
  BY <1>3 DEF Follows

\* How the parser goes through a query.
Parses(F, q) ==
    /\ F \in [0..Len(q) -> Filters(q)] /\ F[0] = NoFilter /\ Parsed(q) = F[Len(q)]
    /\ \A i \in 1..Len(q) : F[i] = WithToken(F[i - 1], q[i])

LEMMA ParsedSteps == ASSUME NEW q, q \in Seq(Tokens(q)) PROVE \E F : Parses(F, q)
<1> DEFINE N == Len(q)
           Is(f) == [i \in 0..N |-> IF i = 0 THEN NoFilter ELSE WithToken(f[i - 1], q[i])]
           F == CHOOSE f : f = Is(f)
<1>1. N \in Nat /\ \A i \in 1..N : q[i] \in Tokens(q)
    OBVIOUS
<1>2. NoFilter \in Filters(q)
    BY DEF NoFilter, Filters
<1>3. \A i \in 1..N, f \in Filters(q) : WithToken(f, q[i]) \in Filters(q)
    BY <1>1, TokenType
<1>4. \E f : f = Is(f) /\ f \in [0..N -> Filters(q)]
  <2> DEFINE T == Filters(q)
             e == NoFilter
             Go(i, f) == WithToken(f, q[i])
             g == [p \in (1..N) \X T |-> Go(p[1], p[2])]
  <2>1. N \in Nat /\ e \in T /\ \A i \in 1..N, f \in T : Go(i, f) \in T
      BY <1>1, <1>2, <1>3
  <2> HIDE DEF N, T, Go, e
  <2>2. g \in [(1..N) \X T -> T] /\ \A i \in 1..N, f \in T : g[<<i, f>>] = Go(i, f)
      BY <2>1
  <2> HIDE DEF g
  <2>3. PICK f : Follows(f, N, T, e, g)
      BY <2>1, <2>2, Recursion
  <2>4. f \in [0..N -> T] /\ f[0] = e
      BY <2>3 DEF Follows
  <2>5. ASSUME NEW i \in 1..N PROVE f[i] = Go(i, f[i - 1])
    <3>1. i - 1 \in 0..N
        BY <2>1
    <3> QED BY <2>2, <2>3, <2>4, <3>1 DEF Follows
  <2>6. ASSUME NEW i \in 0..N PROVE f[i] = Is(f)[i]
    <3>1. CASE i = 0
        BY <2>4, <3>1 DEF e
    <3>2. CASE i # 0
      <4>1. i \in 1..N
          BY <2>1, <3>2
      <4>2. f[i] = Go(i, f[i - 1])
          BY <2>5, <4>1
      <4> QED BY <3>2, <4>2 DEF Go
    <3> QED BY <3>1, <3>2
  <2>7. DOMAIN f = 0..N /\ f = [i \in 0..N |-> f[i]]
      BY <2>4
  <2>8. f = Is(f)
      BY <2>6, <2>7
  <2> QED BY <2>4, <2>8 DEF T
<1>5. F = Is(F)
    BY <1>4
<1>6. Parsed(q) = F[N]
    BY DEF Parsed
<1>7. \A i \in 0..N : F[i] = IF i = 0 THEN NoFilter ELSE WithToken(F[i - 1], q[i])
    BY <1>5
<1> HIDE DEF F
<1>8. DOMAIN F = 0..N /\ F[0] = NoFilter
    BY <1>1, <1>5
<1>9. ASSUME NEW i \in 1..N PROVE F[i] = WithToken(F[i - 1], q[i])
  <2>1. i \in 0..N /\ i # 0
      BY <1>1
  <2> QED BY <1>7, <2>1
<1>10. \A i \in 0..N : F[i] \in Filters(q)
  <2> DEFINE G == {n \in Nat : n <= N => F[n] \in Filters(q)}
  <2>1. 0 \in G
      BY <1>2, <1>8
  <2>2. ASSUME NEW n \in Nat, n \in G PROVE n + 1 \in G
    <3> SUFFICES ASSUME n + 1 <= N PROVE F[n + 1] \in Filters(q)
        OBVIOUS
    <3>1. n + 1 \in 1..N /\ (n + 1) - 1 = n /\ F[n] \in Filters(q)
        BY <1>1, <2>2
    <3>2. F[n + 1] = WithToken(F[n], q[n + 1])
        BY <1>9, <3>1
    <3> HIDE DEF N
    <3> QED BY <1>3, <3>1, <3>2
  <2>3. Nat \subseteq G
    <3> HIDE DEF G
    <3> QED BY <2>1, <2>2, Induction
  <2> QED BY <1>1, <2>3
<1>11. F = [i \in 0..N |-> F[i]]
    BY <1>5
<1>12. F \in [0..N -> Filters(q)]
    BY <1>10, <1>11
<1> QED BY <1>6, <1>8, <1>9, <1>12 DEF Parses

IsKind(t) == t.key = "kind" /\ t.known
IsName(t) == t.key = "name" /\ t.known

\* The bound a token sets on a side.
BoundOf(t, b) ==
    IF b = "min" THEN IF t.op = ">" THEN t.n + 1 ELSE t.n
    ELSE IF b = "max" THEN IF t.op = "<" THEN t.n - 1 ELSE t.n
    ELSE IF b = "after" THEN Window(t).from * Tick
    ELSE Window(t).to * Tick

\* What a token changes.
TokenSets(f, t, g) ==
    /\ g.kinds = IF IsKind(t) THEN f.kinds \cup {t.kind} ELSE f.kinds
    /\ g.names = IF IsName(t) THEN f.names \cup {t.name} ELSE f.names
    /\ g.min = IF "min" \in Bounds(t) THEN BoundOf(t, "min") ELSE f.min
    /\ g.max = IF "max" \in Bounds(t) THEN BoundOf(t, "max") ELSE f.max
    /\ g.after = IF "after" \in Bounds(t) THEN BoundOf(t, "after") ELSE f.after
    /\ g.before = IF "before" \in Bounds(t) THEN BoundOf(t, "before") ELSE f.before
    /\ ~g.active => ~f.active /\ ~IsKind(t) /\ ~IsName(t) /\ Bounds(t) = {}

LEMMA TokenEffect ==
    ASSUME NEW q, NEW f \in Filters(q), NEW t \in Tokens(q)
    PROVE  TokenSets(f, t, WithToken(f, t))
<1> DEFINE g == WithToken(f, t)
<1>1. IsToken(t)
    BY DEF Tokens
<1>2. CASE IsKind(t)
  <2>1. g = [f EXCEPT !.active = TRUE, !.kinds = @ \cup {t.kind}]
      BY <1>2 DEF WithToken, IsKind
  <2>2. Bounds(t) = {} /\ ~IsName(t)
      BY <1>2 DEF Bounds, IsKind, IsName
  <2> QED BY <1>2, <2>1, <2>2 DEF TokenSets, Filters
<1>3. CASE IsName(t)
  <2>1. g = [f EXCEPT !.active = TRUE, !.names = @ \cup {t.name}]
      BY <1>3 DEF WithToken, IsName
  <2>2. Bounds(t) = {} /\ ~IsKind(t)
      BY <1>3 DEF Bounds, IsKind, IsName
  <2> QED BY <1>3, <2>1, <2>2 DEF TokenSets, Filters
<1>4. CASE t.key = "size"
  <2>1. g = WithSize(f, t) /\ ~IsKind(t) /\ ~IsName(t)
      BY <1>4 DEF WithToken, IsKind, IsName
  <2>2. Bounds(t) = IF t.op \in {">", ">="} THEN {"min"} ELSE IF t.op \in {"<", "<="} THEN {"max"} ELSE {}
      BY <1>4 DEF Bounds
  <2>3. CASE t.op \in {">", ">="}
    <3>1. g = [f EXCEPT !.active = TRUE, !.min = BoundOf(t, "min")]
        BY <2>1, <2>3 DEF WithSize, BoundOf
    <3> QED BY <2>1, <2>2, <2>3, <3>1 DEF TokenSets, Filters
  <2>4. CASE t.op \in {"<", "<="}
    <3>1. g = [f EXCEPT !.active = TRUE, !.max = BoundOf(t, "max")]
        BY <2>1, <2>4 DEF WithSize, BoundOf
    <3> QED BY <2>1, <2>2, <2>4, <3>1 DEF TokenSets, Filters
  <2>5. CASE t.op \notin {">", ">=", "<", "<="}
    <3>1. g = [f EXCEPT !.words = Append(@, t)]
        BY <2>1, <2>5 DEF WithSize
    <3> QED BY <2>1, <2>2, <2>5, <3>1 DEF TokenSets, Filters
  <2> QED BY <2>3, <2>4, <2>5
<1>5. CASE t.key = "modified" /\ t.is # "malformed"
  <2>1. g = WithModified(f, t) /\ ~IsKind(t) /\ ~IsName(t)
      BY <1>5 DEF WithToken, IsKind, IsName
  <2>2. Bounds(t) = (IF Window(t).from # 0 THEN {"after"} ELSE {}) \cup (IF Window(t).to # 0 THEN {"before"} ELSE {})
      BY <1>5 DEF Bounds
  <2>3. g = [f EXCEPT !.active = TRUE,
                 !.after = IF "after" \in Bounds(t) THEN BoundOf(t, "after") ELSE @,
                 !.before = IF "before" \in Bounds(t) THEN BoundOf(t, "before") ELSE @]
      BY <2>1, <2>2 DEF WithModified, BoundOf
  <2>4. "min" \notin Bounds(t) /\ "max" \notin Bounds(t)
      BY <2>2
  <2> QED BY <2>1, <2>3, <2>4 DEF TokenSets, Filters
<1>6. CASE t.key \notin {"kind", "name", "size", "modified"} \/ (t.key \in {"kind", "name"} /\ ~t.known)
            \/ (t.key = "modified" /\ t.is = "malformed")
  <2>1. g = [f EXCEPT !.words = Append(@, t)] /\ ~IsKind(t) /\ ~IsName(t)
      BY <1>6 DEF WithToken, IsKind, IsName
  <2>2. Bounds(t) = {}
      BY <1>6 DEF Bounds
  <2> QED BY <2>1, <2>2 DEF TokenSets, Filters
<1> QED BY <1>1, <1>2, <1>3, <1>4, <1>5, <1>6 DEF IsToken, IsKind, IsName

\* A bound is none, or that of one of the first i tokens.
BoundFrom(v, none, b, q, i) ==
    \/ v = none /\ \A j \in 1..i : b \notin Bounds(q[j])
    \/ \E j \in 1..i : b \in Bounds(q[j]) /\ v = BoundOf(q[j], b)

\* What the first i tokens of a query have made of the filter.
Gathered(f, q, i) ==
    /\ f.kinds = {q[j].kind : j \in {k \in 1..i : IsKind(q[k])}}
    /\ f.names = {q[j].name : j \in {k \in 1..i : IsName(q[k])}}
    /\ BoundFrom(f.min, -1, "min", q, i) /\ BoundFrom(f.max, -1, "max", q, i)
    /\ BoundFrom(f.after, 0, "after", q, i) /\ BoundFrom(f.before, 0, "before", q, i)
    /\ ~f.active => \A j \in 1..i : ~IsKind(q[j]) /\ ~IsName(q[j]) /\ Bounds(q[j]) = {}

LEMMA GatheredOne ==
    ASSUME NEW q, NEW i \in Nat \ {0}, NEW f, NEW g, Gathered(f, q, i - 1), TokenSets(f, q[i], g)
    PROVE  Gathered(g, q, i)
<1>1. 1..i = (1..(i - 1)) \cup {i} /\ i - 1 \in Nat
    OBVIOUS
<1>2. ASSUME NEW b, NEW none, NEW v, BoundFrom(v, none, b, q, i - 1)
      PROVE  BoundFrom(IF b \in Bounds(q[i]) THEN BoundOf(q[i], b) ELSE v, none, b, q, i)
    BY <1>1, <1>2 DEF BoundFrom
<1>3. g.kinds = {q[j].kind : j \in {k \in 1..i : IsKind(q[k])}}
    BY <1>1 DEF Gathered, TokenSets
<1>4. g.names = {q[j].name : j \in {k \in 1..i : IsName(q[k])}}
    BY <1>1 DEF Gathered, TokenSets
<1>5. BoundFrom(g.min, -1, "min", q, i) /\ BoundFrom(g.max, -1, "max", q, i)
    BY <1>2 DEF Gathered, TokenSets
<1>6. BoundFrom(g.after, 0, "after", q, i) /\ BoundFrom(g.before, 0, "before", q, i)
    BY <1>2 DEF Gathered, TokenSets
<1>7. ~g.active => \A j \in 1..i : ~IsKind(q[j]) /\ ~IsName(q[j]) /\ Bounds(q[j]) = {}
    BY <1>1 DEF Gathered, TokenSets
<1> QED BY <1>3, <1>4, <1>5, <1>6, <1>7 DEF Gathered

LEMMA ParsedGathered ==
    ASSUME NEW q, q \in Seq(Tokens(q))
    PROVE  Parsed(q) \in Filters(q) /\ Gathered(Parsed(q), q, Len(q))
<1>1. PICK F : Parses(F, q)
    BY ParsedSteps
<1>2. Len(q) \in Nat /\ F[0] = NoFilter /\ Parsed(q) = F[Len(q)] /\ \A i \in 1..Len(q) : q[i] \in Tokens(q)
    BY <1>1 DEF Parses
<1>3. \A i \in 0..Len(q) : F[i] \in Filters(q)
    BY <1>1 DEF Parses
<1> DEFINE G == {n \in Nat : n <= Len(q) => Gathered(F[n], q, n)}
<1>4. 0 \in G
  <2>1. 1..0 = {}
      OBVIOUS
  <2> QED BY <1>2, <2>1 DEF Gathered, BoundFrom, NoFilter
<1>5. ASSUME NEW n \in Nat, n \in G PROVE n + 1 \in G
  <2> SUFFICES ASSUME n + 1 <= Len(q) PROVE Gathered(F[n + 1], q, n + 1)
      OBVIOUS
  <2>1. /\ n + 1 \in 1..Len(q) /\ n \in 0..Len(q) /\ (n + 1) - 1 = n /\ Gathered(F[n], q, n)
        /\ n + 1 \in Nat \ {0}
      BY <1>2, <1>5
  <2>2. F[n + 1] = WithToken(F[n], q[n + 1])
      BY <1>1, <2>1 DEF Parses
  <2>3. TokenSets(F[n], q[n + 1], F[n + 1])
      BY <1>2, <1>3, <2>1, <2>2, TokenEffect
  <2> QED BY <2>1, <2>3, GatheredOne
<1>6. Nat \subseteq G
  <2> HIDE DEF G
  <2> QED BY <1>4, <1>5, Induction
<1> QED BY <1>2, <1>3, <1>6

-----------------------------------------------------------------------------
(***************************************************************************)
(* A filter passes the rows its predicates mean.                           *)
(***************************************************************************)

\* A side of a filter lets a row through.
Admits(b, v, row) ==
    IF b = "min" THEN v >= 0 => SizeOf[row.hash] >= v
    ELSE IF b = "max" THEN v >= 0 => SizeOf[row.hash] <= v
    ELSE IF b = "after" THEN v > 0 => MtimeOf[row.hash] >= v
    ELSE v > 0 => MtimeOf[row.hash] <= v

LEMMA SizeMeans ==
    ASSUME NEW t, t.key = "size", t.n \in Nat, ~(t.op = "<" /\ t.n = 0), NEW row \in Row
    PROVE  Size(t, row) <=> \A b \in Bounds(t) : Admits(b, BoundOf(t, b), row)
<1>1. SizeOf[row.hash] \in Nat
    BY StoreSearchAssumption DEF Row
<1>2. Bounds(t) = IF t.op \in {">", ">="} THEN {"min"} ELSE IF t.op \in {"<", "<="} THEN {"max"} ELSE {}
    BY DEF Bounds
<1>3. CASE t.op \in {">", ">="}
  <2>1. BoundOf(t, "min") = (IF t.op = ">" THEN t.n + 1 ELSE t.n) /\ BoundOf(t, "min") >= 0
      BY DEF BoundOf
  <2>2. Admits("min", BoundOf(t, "min"), row) <=> SizeOf[row.hash] >= BoundOf(t, "min")
      BY <2>1 DEF Admits
  <2>3. Size(t, row) <=> IF t.op = ">" THEN SizeOf[row.hash] > t.n ELSE SizeOf[row.hash] >= t.n
      BY <1>3 DEF Size
  <2> QED BY <1>1, <1>2, <1>3, <2>1, <2>2, <2>3
<1>4. CASE t.op \in {"<", "<="}
  <2>1. BoundOf(t, "max") = (IF t.op = "<" THEN t.n - 1 ELSE t.n) /\ BoundOf(t, "max") >= 0
      BY <1>4 DEF BoundOf
  <2>2. Admits("max", BoundOf(t, "max"), row) <=> SizeOf[row.hash] <= BoundOf(t, "max")
      BY <2>1 DEF Admits
  <2>3. Size(t, row) <=> IF t.op = "<" THEN SizeOf[row.hash] < t.n ELSE SizeOf[row.hash] <= t.n
      BY <1>4 DEF Size
  <2> QED BY <1>1, <1>2, <1>4, <2>1, <2>2, <2>3
<1>5. CASE t.op \notin {">", ">=", "<", "<="}
    BY <1>2, <1>5 DEF Size
<1> QED BY <1>3, <1>4, <1>5

\* The day of a time is at least the k-th.
LEMMA DayAtLeast ==
    ASSUME NEW m \in Nat, NEW k \in Int
    PROVE  (m \div Tick) \div Day >= k <=> m >= (k * Day) * Tick
<1> USE StoreSearchAssumption
<1>0. Day \in Nat \ {0} /\ Tick \in Nat \ {0}
    OBVIOUS
<1>1. k * Day \in Int /\ m \div Tick \in Nat
  <2>1. k * Day \in Int
      BY <1>0
  <2> QED BY <1>0, <2>1, Division
<1>2. (m \div Tick) \div Day >= k <=> m \div Tick >= k * Day
    BY <1>0, <1>1, QuotientAtLeast
<1>3. m \div Tick >= k * Day <=> m >= (k * Day) * Tick
    BY <1>0, <1>1, QuotientAtLeast
<1> QED BY <1>2, <1>3

LEMMA Ticks ==
    ASSUME NEW k \in Int
    PROVE  k * Tick \in Int /\ (k > 0 <=> k * Tick > 0)
<1>1. 0 * Tick = 0 /\ Tick \in Nat \ {0}
    BY StoreSearchAssumption
<1>2. k * Tick \in Int /\ (k < 0 => k * Tick + Tick <= 0 * Tick) /\ (0 < k => 0 * Tick + Tick <= k * Tick)
    BY <1>1, Scaled
<1> QED BY <1>1, <1>2

\* A window lets through what is in it: from and to as seconds.
LEMMA WindowAdmits ==
    ASSUME NEW t, t.key = "modified", t.is # "malformed", NEW row \in Row,
           NEW from \in Int, NEW to \in Int, Window(t) = [from |-> from, to |-> to], to >= 0
    PROVE  (\A b \in Bounds(t) : Admits(b, BoundOf(t, b), row))
           <=> /\ MtimeOf[row.hash] >= from * Tick
               /\ to # 0 => MtimeOf[row.hash] <= to * Tick
<1> DEFINE m == MtimeOf[row.hash]
<1>1. m \in Nat
    BY StoreSearchAssumption DEF Row
<1>2. /\ from * Tick \in Int /\ (from > 0 <=> from * Tick > 0)
      /\ to * Tick \in Int /\ (to > 0 <=> to * Tick > 0)
    BY Ticks
<1>3. Bounds(t) = (IF from # 0 THEN {"after"} ELSE {}) \cup (IF to # 0 THEN {"before"} ELSE {})
    BY DEF Bounds
<1>4. Admits("after", BoundOf(t, "after"), row) <=> (from * Tick > 0 => m >= from * Tick)
    BY DEF Admits, BoundOf
<1>5. Admits("before", BoundOf(t, "before"), row) <=> (to * Tick > 0 => m <= to * Tick)
    BY DEF Admits, BoundOf
<1>6. (from * Tick > 0 => m >= from * Tick) <=> m >= from * Tick
    BY <1>1, <1>2
<1>7. from = 0 => m >= from * Tick
    BY <1>1, <1>2
<1>8. to # 0 => to * Tick > 0
    BY <1>2
<1> HIDE DEF m
<1>9. (\A b \in Bounds(t) : Admits(b, BoundOf(t, b), row))
      <=> /\ from # 0 => Admits("after", BoundOf(t, "after"), row)
          /\ to # 0 => Admits("before", BoundOf(t, "before"), row)
    BY <1>3
<1> QED BY <1>4, <1>5, <1>6, <1>7, <1>8, <1>9 DEF m

LEMMA AgeMeans ==
    ASSUME NEW t, t.key = "modified", IsToken(t), NEW row \in Row,
           ~(t.is = "date" /\ t.op = "<" /\ t.n = 0),
           ~(t.is = "duration" /\ t.op = ">" /\ t.n >= Now),
           t.is \in {"yesterday", "date"} /\ Window(t).to # 0 => MtimeOf[row.hash] % (Day * Tick) <= (Day - 1) * Tick
    PROVE  Age(t, row) <=> \A b \in Bounds(t) : Admits(b, BoundOf(t, b), row)
<1> DEFINE m == MtimeOf[row.hash]
           second == m \div Tick
           day == second \div Day
           today == Now \div Day
<1>1. m \in Nat
    BY StoreSearchAssumption DEF Row
<1>2. Day \in Nat \ {0} /\ Day > 1 /\ Tick \in Nat \ {0} /\ Now \in Nat /\ Now >= Day
    BY StoreSearchAssumption
<1>3. second \in Nat /\ day \in Nat
    BY <1>1, <1>2, Division
<1>4. today \in Nat /\ Now - (Now % Day) = today * Day /\ today >= 1
  <2>1. today \in Nat /\ Now % Day \in 0..(Day - 1) /\ Now = today * Day + (Now % Day)
      BY <1>2, Division
  <2>2. today >= 1 <=> Now >= 1 * Day
      BY <1>2, QuotientAtLeast
  <2> HIDE DEF today
  <2>3. today * Day \in Int
      BY <1>2, <2>1
  <2> QED BY <1>2, <2>1, <2>2, <2>3
<1>5. \A k \in Int : day >= k <=> m >= (k * Day) * Tick
    BY <1>1, DayAtLeast
<1>6. \A k \in Int : second >= k <=> m >= k * Tick
    BY <1>1, <1>2, QuotientAtLeast
<1>7. ASSUME NEW k \in Int, m % (Day * Tick) <= (Day - 1) * Tick
      PROVE  ~(day >= k) <=> m <= (k * Day - 1) * Tick
  <2>1. m < (k * Day) * Tick <=> m <= (k * Day - 1) * Tick
      BY <1>1, <1>2, <1>7, LastSeconds
  <2>2. (k * Day) * Tick \in Int
      BY <1>2
  <2> QED BY <1>1, <1>5, <2>1, <2>2
<1>8. \A k \in Int : k >= 1 => k * Day - 1 \in Int /\ k * Day - 1 > 0
  <2> SUFFICES ASSUME NEW k \in Int, k >= 1 PROVE k * Day - 1 \in Int /\ k * Day - 1 > 0
      OBVIOUS
  <2>1. k * Day \in Int /\ 1 * Day = Day /\ k * Day >= 1 * Day
      BY <1>2, Scaled
  <2> QED BY <1>2, <2>1
<1> HIDE DEF m, second, day, today
<1>9. CASE t.is = "today"
  <2>1. Window(t) = [from |-> today * Day, to |-> 0]
      BY <1>4, <1>9 DEF Window
  <2>2. Age(t, row) <=> day >= today
      BY <1>9 DEF Age, day, second, m, today
  <2>3. today * Day \in Int
      BY <1>2, <1>4
  <2> QED BY <1>4, <1>5, <1>9, <2>1, <2>2, <2>3, WindowAdmits DEF m
<1>10. CASE t.is = "yesterday"
  <2>1. Window(t) = [from |-> (today - 1) * Day, to |-> today * Day - 1]
    <3>1. (today - 1) * Day = today * Day - Day
        BY <1>2, <1>4
    <3> QED BY <1>4, <1>10, <3>1 DEF Window
  <2>2. Age(t, row) <=> day + 1 = today
      BY <1>10 DEF Age, day, second, m, today
  <2>3. (today - 1) * Day \in Int /\ today * Day - 1 \in Int /\ today * Day - 1 > 0
      BY <1>2, <1>4, <1>8
  <2>4. day + 1 = today <=> day >= today - 1 /\ ~(day >= today)
      BY <1>3, <1>4
  <2>5. m % (Day * Tick) <= (Day - 1) * Tick
      BY <1>10, <2>1, <2>3 DEF m
  <2>6. /\ day >= today - 1 <=> m >= ((today - 1) * Day) * Tick
        /\ ~(day >= today) <=> m <= (today * Day - 1) * Tick
      BY <1>4, <1>5, <1>7, <2>5
  <2> QED BY <1>10, <2>1, <2>2, <2>3, <2>4, <2>6, WindowAdmits DEF m
<1>11. CASE t.is = "duration"
  <2>1. t.n \in Nat /\ Now - t.n \in Int
      BY <1>2, <1>11 DEF IsToken
  <2>2. CASE t.op = ">"
    <3>1. Window(t) = [from |-> 0, to |-> Now - t.n]
        BY <1>11, <2>2 DEF Window
    <3>2. Age(t, row) <=> m <= (Now - t.n) * Tick
        BY <1>11, <2>2 DEF Age, m
    <3>3. Now - t.n > 0
        BY <1>2, <1>11, <2>1, <2>2
    <3>4. m >= 0 * Tick
        BY <1>1, <1>2
    <3> QED BY <1>11, <2>1, <3>1, <3>2, <3>3, <3>4, WindowAdmits DEF m
  <2>3. CASE t.op # ">"
    <3>1. Window(t) = [from |-> Now - t.n, to |-> 0]
        BY <1>11, <2>3 DEF Window
    <3>2. Age(t, row) <=> second >= Now - t.n
        BY <1>11, <2>3 DEF Age, second, m
    <3> QED BY <1>6, <1>11, <2>1, <3>1, <3>2, WindowAdmits DEF m
  <2> QED BY <2>2, <2>3
<1>12. CASE t.is = "date"
  <2>1. t.n \in Nat
      BY <1>12 DEF IsToken
  <2>2. (t.n + 1) * Day = t.n * Day + Day /\ t.n * Day \in Int
      BY <1>2, <2>1
  <2>3. CASE t.op = "<"
    <3>1. Window(t) = [from |-> 0, to |-> t.n * Day - 1]
        BY <1>12, <2>3 DEF Window
    <3>2. Age(t, row) <=> day < t.n
        BY <1>12, <2>3 DEF Age, day, second, m
    <3>3. t.n * Day - 1 \in Int /\ t.n * Day - 1 > 0
        BY <1>8, <1>12, <2>1, <2>3
    <3>4. m >= 0 * Tick
        BY <1>1, <1>2
    <3>5. m % (Day * Tick) <= (Day - 1) * Tick
        BY <1>12, <3>1, <3>3 DEF m
    <3>6. day < t.n <=> m <= (t.n * Day - 1) * Tick
        BY <1>3, <1>7, <2>1, <3>5
    <3> QED BY <1>12, <3>1, <3>2, <3>3, <3>4, <3>6, WindowAdmits DEF m
  <2>4. CASE t.op = ">"
    <3>1. Window(t) = [from |-> (t.n + 1) * Day, to |-> 0]
        BY <1>12, <2>2, <2>4 DEF Window
    <3>2. Age(t, row) <=> day > t.n
        BY <1>12, <2>4 DEF Age, day, second, m
    <3>3. day > t.n <=> m >= ((t.n + 1) * Day) * Tick
        BY <1>3, <1>5, <2>1
    <3>4. (t.n + 1) * Day \in Int
        BY <2>2, <1>2
    <3> QED BY <1>12, <3>1, <3>2, <3>3, <3>4, WindowAdmits DEF m
  <2>5. CASE t.op \notin {"<", ">"}
    <3>1. Window(t) = [from |-> t.n * Day, to |-> (t.n + 1) * Day - 1]
      <4>1. Window(t) = [from |-> t.n * Day, to |-> t.n * Day + Day - 1]
          BY <1>12, <2>5 DEF Window
      <4>2. (t.n + 1) * Day - 1 = t.n * Day + Day - 1
        <5>1. \A n \in Nat : (n + 1) * Day - 1 = n * Day + Day - 1
            BY <1>2
        <5> QED BY <2>1, <5>1
      <4> QED BY <4>1, <4>2
    <3>2. Age(t, row) <=> day = t.n
        BY <1>12, <2>5 DEF Age, day, second, m
    <3>3. (t.n + 1) * Day - 1 \in Int /\ (t.n + 1) * Day - 1 > 0
        BY <1>8, <2>1
    <3>4. m % (Day * Tick) <= (Day - 1) * Tick
        BY <1>12, <3>1, <3>3 DEF m
    <3>5. day = t.n <=> day >= t.n /\ ~(day >= t.n + 1)
        BY <1>3, <2>1
    <3>6. /\ day >= t.n <=> m >= (t.n * Day) * Tick
          /\ ~(day >= t.n + 1) <=> m <= ((t.n + 1) * Day - 1) * Tick
        BY <1>5, <1>7, <2>1, <3>4
    <3> QED BY <1>12, <2>2, <3>1, <3>2, <3>3, <3>5, <3>6, WindowAdmits DEF m
  <2> QED BY <2>3, <2>4, <2>5
<1>13. CASE t.is = "malformed"
    BY <1>13 DEF Age, Bounds
<1> QED BY <1>9, <1>10, <1>11, <1>12, <1>13 DEF IsToken

\* What passes is as old as is meant, in the last second of a day too.
LEMMA AgeSound ==
    ASSUME NEW t, t.key = "modified", IsToken(t), NEW row \in Row,
           ~(t.is = "date" /\ t.op = "<" /\ t.n = 0),
           ~(t.is = "duration" /\ t.op = ">" /\ t.n >= Now),
           \A b \in Bounds(t) : Admits(b, BoundOf(t, b), row)
    PROVE  Age(t, row)
<1> DEFINE m == MtimeOf[row.hash]
           second == m \div Tick
           day == second \div Day
           today == Now \div Day
<1>1. m \in Nat
    BY StoreSearchAssumption DEF Row
<1>2. Day \in Nat \ {0} /\ Day > 1 /\ Tick \in Nat \ {0} /\ Now \in Nat /\ Now >= Day
    BY StoreSearchAssumption
<1>3. day \in Nat
    BY <1>1, <1>2, Division
<1>4. today \in Nat /\ Now - (Now % Day) = today * Day /\ today >= 1
  <2>1. today \in Nat /\ Now % Day \in 0..(Day - 1) /\ Now = today * Day + (Now % Day)
      BY <1>2, Division
  <2>2. today >= 1 <=> Now >= 1 * Day
      BY <1>2, QuotientAtLeast
  <2> HIDE DEF today
  <2>3. today * Day \in Int
      BY <1>2, <2>1
  <2> QED BY <1>2, <2>1, <2>2, <2>3
<1>5. \A k \in Int : day >= k <=> m >= (k * Day) * Tick
    BY <1>1, DayAtLeast
<1> HIDE DEF m, second, day, today
<1>6. ASSUME NEW k \in Int, k >= 1, NEW from \in Int, t.is # "malformed",
             Window(t) = [from |-> from, to |-> k * Day - 1]
      PROVE  m >= from * Tick /\ day < k
  <2>1. k * Day \in Int /\ 1 * Day = Day /\ k * Day >= 1 * Day
      BY <1>2, <1>6, Scaled
  <2>2. k * Day - 1 \in Int /\ k * Day - 1 > 0
      BY <1>2, <2>1
  <2>3. m >= from * Tick /\ m <= (k * Day - 1) * Tick
      BY <1>6, <2>2, WindowAdmits DEF m
  <2>4. (k * Day - 1) * Tick \in Int /\ (k * Day) * Tick \in Int /\ (k * Day - 1) * Tick + Tick <= (k * Day) * Tick
      BY <1>2, <2>1, <2>2, Scaled
  <2>5. ~(m >= (k * Day) * Tick)
      BY <1>1, <1>2, <2>3, <2>4
  <2>6. ~(day >= k)
      BY <1>5, <1>6, <2>5
  <2> QED BY <1>3, <1>6, <2>3, <2>6
<1>7. CASE t.is = "yesterday"
  <2>1. Window(t) = [from |-> (today - 1) * Day, to |-> today * Day - 1]
    <3>1. (today - 1) * Day = today * Day - Day
        BY <1>2, <1>4
    <3> QED BY <1>4, <1>7, <3>1 DEF Window
  <2>2. (today - 1) * Day \in Int
      BY <1>2, <1>4
  <2>3. m >= ((today - 1) * Day) * Tick /\ day < today
      BY <1>4, <1>6, <1>7, <2>1, <2>2
  <2>4. day >= today - 1
      BY <1>4, <1>5, <2>3
  <2>5. day + 1 = today
      BY <1>3, <1>4, <2>3, <2>4
  <2> QED BY <1>7, <2>5 DEF Age, day, second, m, today
<1>8. CASE t.is = "date" /\ t.op = "<"
  <2>1. t.n \in Nat /\ t.n >= 1
      BY <1>8 DEF IsToken
  <2>2. Window(t) = [from |-> 0, to |-> t.n * Day - 1]
      BY <1>8 DEF Window
  <2>3. day < t.n
      BY <1>6, <1>8, <2>1, <2>2
  <2> QED BY <1>8, <2>3 DEF Age, day, second, m
<1>9. CASE t.is = "date" /\ t.op \notin {"<", ">"}
  <2>1. t.n \in Nat
      BY <1>9 DEF IsToken
  <2>2. Window(t) = [from |-> t.n * Day, to |-> (t.n + 1) * Day - 1]
    <3>1. Window(t) = [from |-> t.n * Day, to |-> t.n * Day + Day - 1]
        BY <1>9 DEF Window
    <3>2. \A n \in Nat : (n + 1) * Day - 1 = n * Day + Day - 1
        BY <1>2
    <3> QED BY <2>1, <3>1, <3>2
  <2>3. t.n * Day \in Int
      BY <1>2, <2>1
  <2>4. m >= (t.n * Day) * Tick /\ day < t.n + 1
      BY <1>6, <1>9, <2>1, <2>2, <2>3
  <2>5. day >= t.n
      BY <1>5, <2>1, <2>4
  <2>6. day = t.n
      BY <1>3, <2>1, <2>4, <2>5
  <2> QED BY <1>9, <2>6 DEF Age, day, second, m
<1>10. CASE t.is \in {"yesterday", "date"} => Window(t).to = 0
    BY <1>10, AgeMeans
<1>11. t.is = "date" /\ t.op = ">" => Window(t).to = 0
    BY DEF Window
<1> QED BY <1>7, <1>8, <1>9, <1>10, <1>11

\* A side of the filter lets through what every token with that side does.
LEMMA SideAdmits ==
    ASSUME NEW q, NEW i \in Nat, NEW v, NEW none, NEW b, NEW row, BoundFrom(v, none, b, q, i), Admits(b, none, row),
           \A j, k \in 1..i : j # k => Bounds(q[j]) \cap Bounds(q[k]) = {}
    PROVE  Admits(b, v, row) <=> \A j \in 1..i : b \in Bounds(q[j]) => Admits(b, BoundOf(q[j], b), row)
<1>1. CASE v = none /\ \A j \in 1..i : b \notin Bounds(q[j])
    BY <1>1
<1>2. ASSUME NEW j \in 1..i, b \in Bounds(q[j]), v = BoundOf(q[j], b)
      PROVE  Admits(b, v, row) <=> \A k \in 1..i : b \in Bounds(q[k]) => Admits(b, BoundOf(q[k], b), row)
  <2>1. \A k \in 1..i : b \in Bounds(q[k]) => k = j
      BY <1>2
  <2> QED BY <1>2, <2>1
<1> QED BY <1>1, <1>2 DEF BoundFrom

\* The predicates of a query as the parser makes them are true of a file only if those that
\* the query means are, and if they are, but for the last second of a day.
LEMMA PassesMeans ==
    ASSUME NEW q \in Queries, ~Ignored(q), ~Overruled(q), NEW row \in Row
    PROVE  /\ Passes(Parsed(q), row) => Means(q, row)
           /\ ~LastSecond(q) => (Means(q, row) => Passes(Parsed(q), row))
           /\ ~Parsed(q).active => Means(q, row)
<1> DEFINE f == Parsed(q)
           N == Len(q)
<1>1. q \in Seq(Tokens(q))
    BY StoreSearchAssumption DEF Tokens
<1>2. f \in Filters(q) /\ Gathered(f, q, N)
    BY <1>1, ParsedGathered
<1>3. N \in Nat /\ DOMAIN q = 1..N /\ Range(q) = {q[j] : j \in 1..N} /\ \A j \in 1..N : q[j] \in Tokens(q)
    BY <1>1 DEF Range
<1> HIDE DEF f, N
<1>4. \A j, k \in 1..N : j # k => Bounds(q[j]) \cap Bounds(q[k]) = {}
    BY <1>3 DEF Overruled
<1>5. SizeOf[row.hash] \in Nat /\ MtimeOf[row.hash] \in Nat
    BY StoreSearchAssumption DEF Row
<1> DEFINE Sides(t) == \A b \in Bounds(t) : Admits(b, BoundOf(t, b), row)
           Side(b) == \A j \in 1..N : b \in Bounds(q[j]) => Admits(b, BoundOf(q[j], b), row)
<1>6. ASSUME NEW t \in Range(q)
      PROVE  /\ t.key = "size" => (Size(t, row) <=> Sides(t))
             /\ t.key = "modified" => (Sides(t) => Age(t, row))
             /\ t.key = "modified" /\ ~LastSecond(q) => (Age(t, row) => Sides(t))
             /\ t.key \notin {"size", "modified"} => Sides(t)
  <2>1. IsToken(t)
      BY <1>3 DEF Tokens
  <2>2. CASE t.key = "size"
    <3>1. t.n \in Nat /\ ~(t.op = "<" /\ t.n = 0)
        BY <2>1, <2>2 DEF IsToken, Ignored
    <3> QED BY <2>2, <3>1, SizeMeans
  <2>3. CASE t.key = "modified"
    <3>1. ~(t.is = "date" /\ t.op = "<" /\ t.n = 0) /\ ~(t.is = "duration" /\ t.op = ">" /\ t.n >= Now)
        BY <2>3 DEF Ignored
    <3>2. ASSUME ~LastSecond(q), t.is \in {"yesterday", "date"}, Window(t).to # 0
          PROVE  MtimeOf[row.hash] % (Day * Tick) <= (Day - 1) * Tick
      <4>1. ~(MtimeOf[row.hash] % (Day * Tick) > (Day - 1) * Tick)
          BY <2>3, <3>2 DEF LastSecond, Row
      <4>2. Day * Tick \in Nat \ {0} /\ (Day - 1) * Tick \in Int
          BY StoreSearchAssumption
      <4>3. MtimeOf[row.hash] % (Day * Tick) \in Int
          BY <1>5, <4>2, Division
      <4> QED BY <4>1, <4>2, <4>3
    <3>3. Sides(t) => Age(t, row)
        BY <2>1, <2>3, <3>1, AgeSound
    <3>4. ~LastSecond(q) => (Age(t, row) <=> Sides(t))
        BY <2>1, <2>3, <3>1, <3>2, AgeMeans
    <3> QED BY <2>3, <3>3, <3>4
  <2>4. CASE t.key \notin {"size", "modified"}
      BY <2>4 DEF Bounds
  <2> QED BY <2>2, <2>3, <2>4
<1>7. ASSUME NEW t \in Range(q) PROVE Bounds(t) \subseteq {"min", "max", "after", "before"}
  <2>1. CASE t.key = "size"
      BY <2>1 DEF Bounds
  <2>2. CASE t.key = "modified"
      BY <2>2 DEF Bounds
  <2>3. CASE t.key \notin {"size", "modified"}
      BY <2>3 DEF Bounds
  <2> QED BY <2>1, <2>2, <2>3
<1>8. /\ Admits("min", f.min, row) <=> Side("min")
      /\ Admits("max", f.max, row) <=> Side("max")
      /\ Admits("after", f.after, row) <=> Side("after")
      /\ Admits("before", f.before, row) <=> Side("before")
  <2>1. Admits("min", -1, row) /\ Admits("max", -1, row) /\ Admits("after", 0, row) /\ Admits("before", 0, row)
      BY DEF Admits
  <2> QED BY <1>2, <1>3, <1>4, <2>1, SideAdmits DEF Gathered
<1> DEFINE Bounded == Side("min") /\ Side("max") /\ Side("after") /\ Side("before")
<1>9. Bounded <=> \A t \in Range(q) : Sides(t)
    BY <1>3, <1>7
<1> DEFINE Meant == \A t \in Range(q) : (t.key = "size" => Size(t, row)) /\ (t.key = "modified" => Age(t, row))
<1>10. (Bounded => Meant) /\ (~LastSecond(q) => (Meant => Bounded))
  <2> HIDE DEF Bounded, Sides
  <2> QED BY <1>6, <1>9
<1>11. f.names \subseteq NamesOf[row.path] <=> \A t \in Range(q) : IsName(t) => t.name \in NamesOf[row.path]
  <2>1. f.names = {q[j].name : j \in {k \in 1..N : IsName(q[k])}}
      BY <1>2 DEF Gathered
  <2> QED BY <1>3, <2>1
<1>12. f.kinds = {} \/ KindOf[row.path] \in f.kinds <=> Kinds(q) = {} \/ \E t \in Kinds(q) : KindOf[row.path] = t.kind
  <2>1. f.kinds = {q[j].kind : j \in {k \in 1..N : IsKind(q[k])}}
      BY <1>2 DEF Gathered
  <2>2. f.kinds = {t.kind : t \in Kinds(q)}
      BY <1>3, <2>1 DEF Kinds, IsKind
  <2> QED BY <2>2
<1>13. Passes(f, row) <=> /\ f.kinds = {} \/ KindOf[row.path] \in f.kinds
                          /\ f.names \subseteq NamesOf[row.path]
                          /\ Bounded
    BY <1>8 DEF Passes, Admits
<1>14. Means(q, row) <=> /\ Kinds(q) = {} \/ \E t \in Kinds(q) : KindOf[row.path] = t.kind
                         /\ \A t \in Range(q) : IsName(t) => t.name \in NamesOf[row.path]
                         /\ Meant
    BY DEF Means, IsName
<1>15. (Passes(f, row) => Means(q, row)) /\ (~LastSecond(q) => (Means(q, row) => Passes(f, row)))
  <2> HIDE DEF Bounded, Meant
  <2> QED BY <1>10, <1>11, <1>12, <1>13, <1>14
<1>16. ASSUME ~f.active PROVE Means(q, row)
  <2>1. \A t \in Range(q) : ~IsKind(t) /\ ~IsName(t) /\ Bounds(t) = {}
      BY <1>2, <1>3, <1>16 DEF Gathered
  <2>2. Bounded /\ Kinds(q) = {}
      BY <1>9, <2>1 DEF Kinds, IsKind
  <2> HIDE DEF Bounded, Meant
  <2> QED BY <1>10, <1>14, <2>1, <2>2
<1> QED BY <1>15, <1>16 DEF f

-----------------------------------------------------------------------------
(***************************************************************************)
(* What a search has found of what it sought, step by step.                *)
(***************************************************************************)

LEMMA MinOf == ASSUME NEW a \in Nat, NEW b \in Nat PROVE Min({a, b}) = IF a <= b THEN a ELSE b
<1>1. \A x \in {a, b} : (\A y \in {a, b} : x <= y) <=> x = (IF a <= b THEN a ELSE b)
    OBVIOUS
<1>2. (IF a <= b THEN a ELSE b) \in {a, b}
    OBVIOUS
<1> QED BY <1>1, <1>2 DEF Min

LEMMA MaxOf == ASSUME NEW a \in Nat, NEW b \in Nat PROVE Max({a, b}) = IF a >= b THEN a ELSE b
<1>1. \A x \in {a, b} : (\A y \in {a, b} : x >= y) <=> x = (IF a >= b THEN a ELSE b)
    OBVIOUS
<1>2. (IF a >= b THEN a ELSE b) \in {a, b}
    OBVIOUS
<1> QED BY <1>1, <1>2 DEF Max

LEMMA IdsFinite ==
    ASSUME NEW S, S \subseteq Ids
    PROVE  IsFiniteSet(S) /\ Cardinality(S) \in Nat /\ \A T : T \subseteq S => Cardinality(T) <= Cardinality(S)
<1>1. IsFiniteSet(Ids)
    BY FS_Interval, ContentStoreAssumption DEF Ids
<1>2. IsFiniteSet(S)
    BY <1>1, FS_Subset
<1>3. Cardinality(S) \in Nat
    BY <1>2, FS_CardinalityType
<1> QED BY <1>2, <1>3, FS_Subset

\* The newest candidates are as many as there are, or at least n.
LEMMA NewestCount ==
    ASSUME NEW S, S \subseteq Ids, NEW n \in Nat, NEW k \in Nat, k <= n
    PROVE  Newest(S, n) \subseteq S /\ Min({k, Cardinality(Newest(S, n))}) = Min({k, Cardinality(S)})
<1> DEFINE above(i) == {j \in S : j > i}
           new == Newest(S, n)
           old == S \ new
<1>1. Ids \subseteq Nat /\ MaxId \in Nat /\ \A i \in Ids : i <= MaxId
    BY ContentStoreAssumption DEF Ids
<1>2. new \subseteq S /\ \A i \in S : i \in new <=> Cardinality(above(i)) < n
    BY DEF Newest
<1>3. /\ Cardinality(S) \in Nat /\ Cardinality(new) \in Nat /\ Cardinality(new) <= Cardinality(S)
      /\ \A i : Cardinality(above(i)) \in Nat
  <2>1. \A i : above(i) \subseteq Ids
      OBVIOUS
  <2>2. new \subseteq Ids
      BY <1>2
  <2> HIDE DEF above, new
  <2> QED BY <1>2, <2>1, <2>2, IdsFinite
<1> HIDE DEF new
<1>4. CASE old = {}
  <2>1. new = S
      BY <1>2, <1>4
  <2> QED BY <2>1 DEF new
<1>5. CASE old # {}
  <2> DEFINE T == {MaxId - i : i \in old}
  <2>1. T \subseteq Nat /\ T # {}
    <3>1. \A i \in old : i \in Ids
        OBVIOUS
    <3>2. \A i \in Ids : MaxId - i \in Nat
        BY <1>1
    <3> HIDE DEF old
    <3> QED BY <1>5, <3>1, <3>2
  <2>2. PICK x \in T : \A y \in T : x <= y
    <3> HIDE DEF T
    <3> QED BY <2>1, Least
  <2>3. PICK i \in old : \A j \in old : j <= i
    <3>1. PICK i \in old : x = MaxId - i
        BY <2>2
    <3>2. ASSUME NEW j \in old PROVE j <= i
      <4>1. MaxId - j \in T /\ i \in Ids /\ j \in Ids
          OBVIOUS
      <4>2. x <= MaxId - j
          BY <2>2, <4>1
      <4> HIDE DEF old, T
      <4> QED BY <1>1, <3>1, <4>1, <4>2
    <3> QED BY <3>1, <3>2
  <2>4. above(i) \subseteq new
    <3>1. i \in Nat /\ \A j \in S : j \in Nat
        BY <1>1
    <3>2. ASSUME NEW j \in above(i) PROVE j \in new
      <4>1. j \in S /\ j > i
          OBVIOUS
      <4>2. j \notin old
          BY <2>3, <3>1, <4>1
      <4> QED BY <4>1, <4>2
    <3> QED BY <3>2
  <2>5. Cardinality(above(i)) >= n
    <3>1. i \in S /\ i \notin new
        BY <2>3
    <3>2. ~(Cardinality(above(i)) < n) /\ Cardinality(above(i)) \in Nat
        BY <1>2, <1>3, <3>1
    <3> HIDE DEF above
    <3> QED BY <3>2
  <2>6. Cardinality(above(i)) <= Cardinality(new)
    <3>1. new \subseteq Ids
        BY <1>2
    <3> HIDE DEF above
    <3> QED BY <2>4, <3>1, IdsFinite
  <2> HIDE DEF above
  <2>7. Cardinality(new) >= n
      BY <1>3, <2>5, <2>6
  <2>8. Min({k, Cardinality(new)}) = k /\ Min({k, Cardinality(S)}) = k
    <3>1. k <= Cardinality(new) /\ k <= Cardinality(S)
        BY <1>3, <2>7
    <3> QED BY <1>3, <3>1, MinOf
  <2> QED BY <1>2, <2>8 DEF new
<1> QED BY <1>4, <1>5

\* What a search is for, in the form it has: live rows, with its words in their text.
Sought(db, s) ==
    IF Terms(s.words) = {} THEN {i \in IdsIn(db, "indexed") : Passes(s.filter, db.rows[i])} ELSE Filtered(db, s)

Picked(db, s, chosen) ==
    chosen \subseteq Sought(db, s) /\ Cardinality(chosen) = Min({Limit, Cardinality(Sought(db, s))})

\* A search that has read nothing but db has as many as there are, up to the limit.
Exact(db, s) ==
    InStep(db) /\ {"files", "fts"} \subseteq db.has =>
        /\ s.pc = "hydrate" =>
            \E chosen : Picked(db, s, chosen) /\ s.top \subseteq chosen /\ s.hits = {Hit(db, i) : i \in chosen \ s.top}
        /\ s.pc = "done" /\ (Terms(s.words) # {} \/ s.filter.active) =>
            \E chosen : Picked(db, s, chosen) /\ s.hits = {Hit(db, i) : i \in chosen}

Planned(s) ==
    /\ s.q \in Queries /\ s.filter = Parsed(s.q) /\ s.words = s.filter.words
    /\ s.pc \in {"full", "bounded", "hydrate"} => Terms(s.words) # {}

ExactInv ==
    /\ kept.rows \in [Ids -> Row \cup {NoRow}] /\ (~kept.torn => InStep(kept))
    /\ search.pc # "none" => Planned(search) /\ (search.quiet => Exact(View, search))

LEMMA SameSought ==
    ASSUME NEW db, NEW s, NEW t, s.words = t.words, s.form = t.form, s.filter = t.filter
    PROVE  Sought(db, s) = Sought(db, t)
BY DEF Sought, Filtered, MatchingIds, Found, FormOf

LEMMA SoughtIds == ASSUME NEW db, NEW s PROVE Sought(db, s) \subseteq Ids
BY DEF Sought, Filtered, MatchingIds, IdsIn

\* A plan chooses.
LEMMA RankedExact ==
    ASSUME NEW db, NEW s, NEW best \in Best(Sought(db, s), Limit), s.hits = {}, s.top = best, s.pc = "hydrate"
    PROVE  Exact(db, s)
<1>1. Picked(db, s, best)
    BY DEF Best, Picked
<1> QED BY <1>1 DEF Exact

LEMMA ExactPrimed ==
    ASSUME UNCHANGED reader
    PROVE  Exact(View, search)' <=> Exact(View', search')
BY DEF Exact, Picked, Sought, Filtered, MatchingIds, Found, FormOf, Terms, InStep, HasRow, IdsIn, Passes, Hit, Live

LEMMA PlannedPrimed ==
    ASSUME UNCHANGED reader
    PROVE  Planned(search)' <=> Planned(search')
BY DEF Planned, Terms

LEMMA ViewFields ==
    /\ reader.inode = inode => /\ View.rows = disk.rows /\ View.docs = disk.docs /\ View.postings = disk.postings
                               /\ View.torn = torn
    /\ reader.inode # inode => View = kept
BY DEF View, Marked

\* Only an open that replaces the file unlinks it.
LEMMA Unlinked ==
    ASSUME WriterInv, Step, inode' # inode
    PROVE  st = "down"
BY DEF Step, Next, Opening, Writing, Open, DropObject, DropFails, CreateObject, RecordMode, RecordVersion, Begin, Commit, Maintain,
       Put, Touch, RemovePaths, Tombstone, ClearDocs, ClearFiles, ClearRebuild, Crash, Corrupt, Idle, Up

LEMMA ViewInStep ==
    ASSUME WriterInv, ~kept.torn => InStep(kept), kept.rows \in [Ids -> Row \cup {NoRow}]
    PROVE  /\ View.rows \in [Ids -> Row \cup {NoRow}]
           /\ ~View.torn /\ st \in {"up", "down"} => InStep(View)
<1>1. CASE reader.inode = inode
  <2>1. View.rows = disk.rows /\ View.docs = disk.docs /\ View.postings = disk.postings /\ View.torn = torn
      BY <1>1, ViewFields
  <2>2. InStep(disk) => InStep(View)
      BY <2>1 DEF InStep, HasRow
  <2>3. ~torn /\ st \in {"up", "down"} => InStep(disk)
      BY DEF WriterInv, IInv, Stored, Whole
  <2> QED BY <2>1, <2>2, <2>3 DEF WriterInv, IInv, TypeOK, Database
<1>2. CASE reader.inode # inode
    BY <1>2, ViewFields
<1> QED BY <1>1, <1>2

LEMMA ExactStart == SInit => ExactInv
<1> SUFFICES ASSUME SInit PROVE ExactInv
    OBVIOUS
<1>1. kept.rows = Blank.rows /\ kept.docs = Blank.docs /\ kept.postings = Blank.postings /\ search.pc = "none"
    BY DEF SInit, Marked, NoSearch
<1>2. InStep(kept)
    BY <1>1 DEF InStep, HasRow, Blank, Live, NoRow
<1>3. kept.rows \in [Ids -> Row \cup {NoRow}]
    BY <1>1 DEF Blank
<1> QED BY <1>1, <1>2, <1>3 DEF ExactInv

LEMMA ExactWriter ==
    ASSUME SearchInv, ExactInv, WriterStep
    PROVE  ExactInv'
<1>1. WriterInv /\ Step /\ UNCHANGED reader
    BY DEF SearchInv, WriterStep
<1>2. kept'.rows \in [Ids -> Row \cup {NoRow}] /\ (~kept'.torn => InStep(kept'))
  <2>1. CASE UNCHANGED kept
      BY <2>1 DEF ExactInv
  <2>2. CASE inode' # inode /\ kept' = View
    <3>1. st = "down"
        BY <1>1, <2>2, Unlinked
    <3> QED BY <1>1, <2>2, <3>1, ViewInStep DEF ExactInv
  <2> QED BY <2>1, <2>2 DEF WriterStep
<1>3. InStep(kept)' = InStep(kept')
    BY DEF InStep, HasRow, Live
<1>4. CASE search.pc = "none"
  <2>1. UNCHANGED search
      BY <1>4 DEF WriterStep
  <2> QED BY <1>2, <1>3, <1>4, <2>1 DEF ExactInv
<1>5. CASE search.pc # "none"
  <2>1. PICK at, q, words, filter, form, quiet, hits, top :
            search = Search(at, q, words, filter, form, quiet, hits, top)
      BY <1>5 DEF SearchInv, NoSearch
  <2>2. search' = [search EXCEPT !.quiet = @ /\ View' = View]
      BY <1>5 DEF WriterStep
  <2>3. search' = Search(at, q, words, filter, form, quiet /\ View' = View, hits, top)
      BY <2>1, <2>2 DEF Search
  <2>4. /\ UNCHANGED <<search.pc, search.q, search.words, search.filter, search.form, search.hits, search.top>>
        /\ search'.quiet => search.quiet /\ View' = View
      BY <2>1, <2>3 DEF Search
  <2>5. Planned(search')
      BY <1>5, <2>4 DEF ExactInv, Planned
  <2>6. ASSUME search'.quiet PROVE Exact(View', search')
    <3>1. Exact(View, search) /\ View' = View
        BY <1>5, <2>4, <2>6 DEF ExactInv
    <3>2. Sought(View, search') = Sought(View, search)
        BY <2>4, SameSought
    <3>3. Exact(View, search')
        BY <2>4, <3>1, <3>2 DEF Exact, Picked
    <3> QED BY <3>1, <3>3
  <2> QED BY <1>1, <1>2, <1>3, <2>5, <2>6, ExactPrimed, PlannedPrimed DEF ExactInv
<1> QED BY <1>4, <1>5

LEMMA ExactOpens ==
    ASSUME SearchInv, ExactInv, OpenReader \/ CloseReader
    PROVE  ExactInv'
<1>1. UNCHANGED kept /\ search' = NoSearch
    BY DEF OpenReader, CloseReader, SearchInv
<1>2. search'.pc = "none" /\ InStep(kept)' = InStep(kept')
    BY <1>1 DEF NoSearch, InStep, HasRow, Live
<1> QED BY <1>1, <1>2 DEF ExactInv

\* A search that is planned or goes on.
LEMMA ExactSteps ==
    ASSUME ExactInv, Reading, Planned(search'), search'.quiet => Exact(View, search')
    PROVE  ExactInv'
<1>1. UNCHANGED vars /\ UNCHANGED <<kept, reader>>
    BY DEF Reading, StayingWriter
<1>2. View' = View
    BY <1>1 DEF View, vars
<1>3. InStep(kept)' = InStep(kept)
    BY <1>1 DEF InStep, HasRow, Live
<1> QED BY <1>1, <1>2, <1>3, ExactPrimed, PlannedPrimed DEF ExactInv

LEMMA ExactReader ==
    ASSUME SearchInv, ExactInv,
           (\E q \in Queries : Plan(q)) \/ Browse \/ RankFull \/ Interrupted \/ RankBounded \/ Hydrate \/ Done
    PROVE  ExactInv'
<1>1. ASSUME NEW query \in Queries, Plan(query) PROVE ExactInv'
  <2> DEFINE f == Parsed(query)
             common == Readable({"fts"}) /\ IsCommon(View, f.words)
             plan == IF Terms(f.words) # {} THEN IF common THEN "bounded" ELSE "full"
                     ELSE IF f.active THEN "browse" ELSE "done"
  <2>1. Reading /\ search' = Search(plan, query, f.words, f, "start", TRUE, {}, {})
      BY <1>1 DEF Plan, FirstPhase, Search
  <2>2. /\ plan \in {"full", "bounded"} => Terms(f.words) # {}
        /\ plan # "hydrate" /\ (plan = "done" => Terms(f.words) = {} /\ ~f.active)
      OBVIOUS
  <2> HIDE DEF common, plan
  <2>3. search'.pc = plan /\ search'.q = query /\ search'.words = f.words /\ search'.filter = f
      BY <2>1 DEF Search
  <2>4. Planned(search')
      BY <2>2, <2>3 DEF Planned
  <2>5. Exact(View, search')
      BY <2>2, <2>3 DEF Exact
  <2> QED BY <2>1, <2>4, <2>5, ExactSteps
<1>2. CASE Browse \/ RankFull \/ Interrupted \/ RankBounded \/ Hydrate \/ Done
  <2>0. /\ Reading /\ search.pc \in {"browse", "full", "bounded", "hydrate"}
      BY <1>2 DEF Browse, RankFull, Interrupted, RankBounded, Hydrate, Done, FirstPhase, LaterPhase
  <2>1. Planned(search) /\ (search.quiet => Exact(View, search))
      BY <2>0 DEF ExactInv
  <2>3. PICK at, q, words, filter, form, quiet, hits, top :
            search = Search(at, q, words, filter, form, quiet, hits, top)
      BY <2>0 DEF SearchInv, NoSearch
  <2>4. /\ search.pc = at /\ search.words = words /\ search.hits = hits /\ search.form = form
        /\ search.top = top /\ search.q = q /\ search.filter = filter /\ search.quiet = quiet
      BY <2>3 DEF Search
  <2>5. CASE Browse
    <3>1. PICK best \in Best({i \in IdsIn(View, "indexed") : Passes(search.filter, View.rows[i])}, Limit) :
              search' = [search EXCEPT !.pc = "done", !.hits = {Hit(View, i) : i \in best}]
        BY <2>5 DEF Browse
    <3> DEFINE found == {Hit(View, i) : i \in best}
    <3>2. search' = Search("done", q, words, filter, form, quiet, found, top)
        BY <2>3, <3>1 DEF Search
    <3>3. /\ search'.pc = "done" /\ search'.words = words /\ search'.q = q /\ search'.filter = filter
          /\ search'.hits = found
        BY <3>2 DEF Search
    <3>4. Terms(words) = {}
        BY <2>4, <2>5 DEF Browse, SearchInv
    <3>5. Planned(search')
        BY <2>1, <2>4, <3>3 DEF Planned
    <3>6. Sought(View, search') = {i \in IdsIn(View, "indexed") : Passes(search.filter, View.rows[i])}
        BY <2>4, <3>3, <3>4 DEF Sought
    <3>7. Picked(View, search', best)
        BY <3>6 DEF Picked, Best
    <3>8. Exact(View, search')
        BY <3>3, <3>7 DEF Exact
    <3> QED BY <2>0, <3>5, <3>8, ExactSteps
  <2>6. CASE RankFull
    <3>1. PICK best \in IF Readable({"fts"}) THEN Best(Filtered(View, search), Limit) ELSE {{}} :
              search' = [search EXCEPT !.pc = "hydrate", !.top = best]
        BY <2>6 DEF RankFull
    <3>2. search' = Search("hydrate", q, words, filter, form, quiet, {}, best)
        BY <2>3, <2>4, <2>6, <3>1 DEF Search, RankFull, SearchInv
    <3>3. /\ search'.pc = "hydrate" /\ search'.words = words /\ search'.q = q /\ search'.filter = filter
          /\ search'.hits = {} /\ search'.top = best /\ search'.form = form
        BY <3>2 DEF Search
    <3>4. Terms(words) # {} /\ Planned(search')
        BY <2>1, <2>4, <2>6, <3>3 DEF Planned, RankFull
    <3>5. Sought(View, search') = Filtered(View, search)
        BY <2>4, <3>3, <3>4, SameSought DEF Sought
    <3>6. Exact(View, search')
      <4>1. CASE Readable({"fts"})
          BY <3>1, <3>3, <3>5, <4>1, RankedExact
      <4>2. CASE ~Readable({"fts"})
          BY <4>2 DEF Exact, Readable
      <4> QED BY <4>1, <4>2
    <3> QED BY <2>0, <3>4, <3>6, ExactSteps
  <2>7. CASE Interrupted
    <3>1. search' = Search("bounded", q, words, filter, form, quiet, hits, top)
        BY <2>3, <2>7 DEF Search, Interrupted
    <3>2. search'.pc = "bounded" /\ search'.words = words /\ search'.q = q /\ search'.filter = filter
        BY <3>1 DEF Search
    <3>3. Planned(search')
        BY <2>1, <2>4, <2>7, <3>2 DEF Planned, Interrupted
    <3>4. Exact(View, search')
        BY <3>2 DEF Exact
    <3> QED BY <2>0, <3>3, <3>4, ExactSteps
  <2>8. CASE RankBounded
    <3> DEFINE s == [search EXCEPT !.form = "word", !.pc = "hydrate"]
               candidates == IF Readable({"fts"}) THEN Newest(Filtered(View, s), Max({Limit, Budget})) ELSE {}
    <3>1. PICK best \in Best(candidates, Limit) : search' = [s EXCEPT !.top = best]
        BY <2>8 DEF RankBounded
    <3>0. hits = {}
        BY <2>4, <2>8 DEF RankBounded, SearchInv
    <3>9. s = Search("hydrate", q, words, filter, "word", quiet, {}, top)
      <4>1. [search EXCEPT !.form = "word"] = Search(at, q, words, filter, "word", quiet, hits, top)
          BY <2>3 DEF Search
      <4>2. s = [[search EXCEPT !.form = "word"] EXCEPT !.pc = "hydrate"]
          OBVIOUS
      <4> HIDE DEF s
      <4>3. s = Search("hydrate", q, words, filter, "word", quiet, hits, top)
          BY <4>1, <4>2 DEF Search
      <4> QED BY <3>0, <4>3
    <3>2. /\ search' = Search("hydrate", q, words, filter, "word", quiet, {}, best)
          /\ s = Search("hydrate", q, words, filter, "word", quiet, {}, top)
      <4> HIDE DEF s
      <4> QED BY <3>1, <3>9 DEF Search
    <3>3. /\ search'.pc = "hydrate" /\ search'.words = words /\ search'.q = q /\ search'.filter = filter
          /\ search'.hits = {} /\ search'.top = best /\ search'.form = "word"
          /\ s.words = words /\ s.form = "word" /\ s.filter = filter
        BY <3>2 DEF Search
    <3>4. Terms(words) # {} /\ Planned(search')
        BY <2>1, <2>4, <2>8, <3>3 DEF Planned, RankBounded
    <3> HIDE DEF s
    <3>5. Sought(View, search') = Filtered(View, s)
        BY <3>3, <3>4, SameSought DEF Sought
    <3>6. Exact(View, search')
      <4>1. CASE Readable({"fts"})
        <5> DEFINE F == Filtered(View, s)
                   n == Max({Limit, Budget})
        <5>1. n \in Nat /\ Limit \in Nat /\ Limit <= n
            BY StoreSearchAssumption, MaxOf
        <5>2. F \subseteq Ids
            BY <3>5, SoughtIds
        <5>3. candidates = Newest(F, n)
            BY <4>1
        <5> HIDE DEF F, n, candidates
        <5>4. candidates \subseteq F /\ Min({Limit, Cardinality(candidates)}) = Min({Limit, Cardinality(F)})
            BY <5>1, <5>2, <5>3, NewestCount
        <5>5. best \in Best(F, Limit)
            BY <3>1, <5>4 DEF Best
        <5> QED BY <3>3, <3>5, <5>5, RankedExact DEF F
      <4>2. CASE ~Readable({"fts"})
          BY <4>2 DEF Exact, Readable
      <4> QED BY <4>1, <4>2
    <3> QED BY <2>0, <3>4, <3>6, ExactSteps
  <2>9. CASE Hydrate
    <3>1. PICK i \in top :
              search' = [search EXCEPT !.top = @ \ {i},
                           !.hits = IF Readable({"fts", "files"}) /\ ~Vanished(View, search, i)
                                    THEN @ \cup {Hit(View, i)} ELSE @]
        BY <2>4, <2>9 DEF Hydrate
    <3> DEFINE more == IF Readable({"fts", "files"}) /\ ~Vanished(View, search, i)
                       THEN hits \cup {Hit(View, i)} ELSE hits
    <3>2. search' = Search("hydrate", q, words, filter, form, quiet, more, top \ {i})
        BY <2>3, <2>4, <2>9, <3>1 DEF Search, Hydrate
    <3>3. /\ search'.pc = "hydrate" /\ search'.words = words /\ search'.q = q /\ search'.filter = filter
          /\ search'.hits = more /\ search'.top = top \ {i} /\ search'.form = form /\ search'.quiet = quiet
        BY <3>2 DEF Search
    <3>4. Planned(search')
        BY <2>1, <2>4, <2>9, <3>3 DEF Planned, Hydrate
    <3>5. Sought(View, search') = Sought(View, search)
        BY <2>4, <3>3, SameSought
    <3>6. ASSUME quiet, InStep(View), {"files", "fts"} \subseteq View.has
          PROVE  \E chosen : Picked(View, search', chosen) /\ top \ {i} \subseteq chosen
                             /\ more = {Hit(View, j) : j \in chosen \ (top \ {i})}
      <4>1. PICK chosen : Picked(View, search, chosen) /\ top \subseteq chosen
                          /\ hits = {Hit(View, j) : j \in chosen \ top}
          BY <2>1, <2>4, <2>9, <3>6 DEF Exact, Hydrate
      <4>2. i \in Filtered(View, search)
          BY <2>1, <2>4, <2>9, <4>1 DEF Picked, Sought, Planned, Hydrate
      <4>3. ~Vanished(View, search, i)
        <5>1. i \in Ids /\ View.postings[i] # None /\ i \in MatchingIds(View, search)
            BY <4>2 DEF Filtered, MatchingIds
        <5>2. i \in HasRow(View)
            BY <3>6, <5>1 DEF InStep, HasRow, Live, NoRow
        <5> QED BY <5>1, <5>2 DEF Vanished
      <4>4. more = hits \cup {Hit(View, i)}
          BY <3>6, <4>3 DEF Readable
      <4>5. chosen \ (top \ {i}) = (chosen \ top) \cup {i}
          BY <4>1
      <4>6. more = {Hit(View, j) : j \in chosen \ (top \ {i})}
          BY <4>1, <4>4, <4>5
      <4>7. Picked(View, search', chosen)
          BY <3>5, <4>1 DEF Picked
      <4> QED BY <4>1, <4>6, <4>7
    <3>7. search'.quiet => Exact(View, search')
        BY <3>3, <3>6 DEF Exact
    <3> QED BY <2>0, <3>4, <3>7, ExactSteps
  <2>10. CASE Done
    <3>1. search' = Search("done", q, words, filter, form, quiet, hits, top) /\ top = {}
        BY <2>3, <2>4, <2>10 DEF Search, Done
    <3>2. /\ search'.pc = "done" /\ search'.words = words /\ search'.q = q /\ search'.filter = filter
          /\ search'.hits = hits /\ search'.form = form /\ search'.quiet = quiet
        BY <3>1 DEF Search
    <3>3. Planned(search')
        BY <2>1, <2>4, <3>2 DEF Planned
    <3>4. Sought(View, search') = Sought(View, search)
        BY <2>4, <3>2, SameSought
    <3>5. ASSUME quiet, InStep(View), {"files", "fts"} \subseteq View.has
          PROVE  \E chosen : Picked(View, search', chosen) /\ hits = {Hit(View, j) : j \in chosen}
      <4>1. PICK chosen : Picked(View, search, chosen) /\ hits = {Hit(View, j) : j \in chosen \ top}
          BY <2>1, <2>4, <2>10, <3>5 DEF Exact, Done
      <4>2. chosen \ top = chosen
          BY <3>1
      <4> QED BY <3>4, <4>1, <4>2 DEF Picked
    <3>6. search'.quiet => Exact(View, search')
        BY <3>2, <3>5 DEF Exact
    <3> QED BY <2>0, <3>3, <3>6, ExactSteps
  <2> QED BY <1>2, <2>5, <2>6, <2>7, <2>8, <2>9, <2>10
<1> QED BY <1>1, <1>2

LEMMA ExactGoesOn == SearchInv /\ ExactInv /\ [SNext]_<<vars, searchVars>> => ExactInv'
<1>1. ExactInv /\ UNCHANGED <<vars, searchVars>> => ExactInv'
  <2> SUFFICES ASSUME ExactInv, UNCHANGED <<vars, searchVars>> PROVE ExactInv'
      OBVIOUS
  <2>1. UNCHANGED <<kept, reader, search>> /\ View' = View
      BY DEF searchVars, View, vars
  <2>2. InStep(kept)' = InStep(kept)
      BY <2>1 DEF InStep, HasRow, Live
  <2> QED BY <2>1, <2>2, ExactPrimed, PlannedPrimed DEF ExactInv
<1> QED BY <1>1, ExactWriter, ExactOpens, ExactReader DEF SNext

LEMMA AnswersSought ==
    ASSUME NEW db, NEW s, Planned(s), InStep(db), db.rows \in [Ids -> Row \cup {NoRow}],
           ~Ignored(s.q), ~LastSecond(s.q), ~Overruled(s.q)
    PROVE  Answers(db, s) = Sought(db, s)
<1>1. \A i \in HasRow(db) : db.rows[i] \in Row
    BY DEF HasRow
<1>2. \A row \in Row : /\ Passes(s.filter, row) <=> Means(s.q, row)
                       /\ ~s.filter.active => Means(s.q, row)
    BY PassesMeans DEF Planned
<1>3. CASE Terms(s.words) = {}
  <2>1. \A i \in IdsIn(db, "indexed") : i \in HasRow(db) /\ Live(db.rows[i])
      BY DEF IdsIn, HasRow, NoRow, Live
  <2>2. Sought(db, s) = {i \in IdsIn(db, "indexed") : Passes(s.filter, db.rows[i])}
      BY <1>3 DEF Sought
  <2>3. ASSUME NEW i \in IdsIn(db, "indexed")
        PROVE  Passes(s.filter, db.rows[i]) <=> Means(s.q, db.rows[i])
    <3>1. db.rows[i] \in Row
        BY <1>1, <2>1
    <3> QED BY <1>2, <3>1
  <2>4. \A i : i \in IdsIn(db, "indexed") <=> i \in HasRow(db) /\ Live(db.rows[i]) /\ db.rows[i].state = "indexed"
      BY <2>1 DEF IdsIn, HasRow
  <2>5. \A i : i \in Answers(db, s) <=> i \in IdsIn(db, "indexed") /\ Means(s.q, db.rows[i])
      BY <1>3, <2>4 DEF Answers
  <2> QED BY <2>2, <2>3, <2>5
<1>4. CASE Terms(s.words) # {}
  <2>1. \A i \in Ids : db.postings[i] # None <=> i \in HasRow(db) /\ Live(db.rows[i])
      BY DEF InStep, HasRow, Live, NoRow
  <2>2. \A i : i \in Filtered(db, s)
              <=> /\ i \in HasRow(db) /\ Live(db.rows[i]) /\ Found(db.built, db.postings[i], s)
                  /\ s.filter.active => Passes(s.filter, db.rows[i])
    <3>1. \A i \in HasRow(db) : i \in Ids
        BY DEF HasRow
    <3> QED BY <2>1, <3>1 DEF Filtered, MatchingIds
  <2>3. ASSUME NEW i \in HasRow(db)
        PROVE  (s.filter.active => Passes(s.filter, db.rows[i])) <=> Means(s.q, db.rows[i])
    <3>1. db.rows[i] \in Row
        BY <1>1
    <3> QED BY <1>2, <3>1
  <2>4. \A i : i \in Answers(db, s)
              <=> /\ i \in HasRow(db) /\ Live(db.rows[i]) /\ Found(db.built, db.postings[i], s)
                  /\ Means(s.q, db.rows[i])
      BY <1>4 DEF Answers
  <2>5. Sought(db, s) = Filtered(db, s)
      BY <1>4 DEF Sought
  <2> QED BY <2>2, <2>3, <2>4, <2>5
<1> QED BY <1>3, <1>4

\* Rows that are answers have a path each, and so each is a hit of its own.
LEMMA HitsCount ==
    ASSUME NEW db, InStep(db), NEW chosen, chosen \subseteq HasRow(db)
    PROVE  Cardinality({Hit(db, i) : i \in chosen}) = Cardinality(chosen)
<1> DEFINE hits == {Hit(db, i) : i \in chosen}
           f == [i \in chosen |-> Hit(db, i)]
<1>1. \A i, j \in chosen : Hit(db, i) = Hit(db, j) => i = j
    BY DEF InStep, Hit
<1>2. IsFiniteSet(chosen)
    BY IdsFinite DEF HasRow
<1>3. f \in Bijection(chosen, hits)
  <2>1. f \in [chosen -> hits] /\ \A i \in chosen : f[i] = Hit(db, i)
      OBVIOUS
  <2>2. \A h \in hits : \E i \in chosen : f[i] = h
      OBVIOUS
  <2> HIDE DEF f, hits
  <2> QED BY <1>1, <2>1, <2>2 DEF IsInjective, Bijection, Injection, Surjection
<1> HIDE DEF f, hits
<1>4. ExistsBijection(chosen, hits)
    BY <1>3 DEF ExistsBijection
<1> QED BY <1>2, <1>4, FS_Bijection DEF hits

\* If nothing was committed while it ran a search finds as many as there are, up to the limit,
\* and only files that its predicates, as they are meant, and its words are true of: for any
\* files, queries, clock, indices and limits, whichever plan it took.
THEOREM SearchesExact == SSpec => []QuietSearchExact
<1>1. SearchInv /\ ExactInv => QuietSearchExact
  <2> SUFFICES ASSUME SearchInv, ExactInv, search.pc = "done", search.quiet, ~View.torn, st \in {"up", "down"},
                      ~Ignored(search.q), ~LastSecond(search.q), ~Overruled(search.q),
                      Terms(search.words) # {} \/ search.filter.active, Readable({"files", "fts"})
               PROVE  LET A == Answers(View, search)
                      IN  /\ {h.row.path : h \in search.hits} \subseteq {View.rows[i].path : i \in A}
                          /\ Cardinality(search.hits) = Min({Limit, Cardinality(A)})
      BY DEF QuietSearchExact
  <2>1. InStep(View) /\ View.rows \in [Ids -> Row \cup {NoRow}]
      BY ViewInStep DEF SearchInv, ExactInv
  <2>2. Planned(search) /\ Exact(View, search)
      BY DEF ExactInv
  <2>3. PICK chosen : Picked(View, search, chosen) /\ search.hits = {Hit(View, i) : i \in chosen}
      BY <2>1, <2>2 DEF Exact, Readable
  <2>4. Answers(View, search) = Sought(View, search)
      BY <2>1, <2>2, AnswersSought
  <2>5. chosen \subseteq Answers(View, search) /\ chosen \subseteq HasRow(View)
      BY <2>3, <2>4 DEF Picked, Answers
  <2>6. Cardinality(search.hits) = Cardinality(chosen)
      BY <2>1, <2>3, <2>5, HitsCount
  <2>7. {h.row.path : h \in search.hits} = {View.rows[i].path : i \in chosen}
    <3>1. \A i : Hit(View, i).row.path = View.rows[i].path
        BY DEF Hit
    <3> QED BY <2>3, <3>1
  <2> QED BY <2>3, <2>4, <2>5, <2>6, <2>7 DEF Picked
<1>2. SInit => SearchInv /\ ExactInv
    BY SearchStart, ExactStart
<1>3. (SearchInv /\ ExactInv) /\ [SNext]_<<vars, searchVars>> => (SearchInv /\ ExactInv)'
    BY SearchGoesOn, ExactGoesOn
<1> QED BY <1>1, <1>2, <1>3, PTL DEF SSpec
-----------------------------------------------------------------------------
(***************************************************************************)
(* What was ranked passed the filter, and so did a hit whose row is still  *)
(* the one that was ranked.                                                *)
(***************************************************************************)

Fits(f, row) == f.active => Passes(f, row)

Fitting(s, seen) ==
    /\ s.pc = "hydrate" => \A i \in s.top : Fits(s.filter, seen[i])
    /\ s.pc \in {"hydrate", "done"} =>
        \A h \in s.hits : h.row \in Row /\ (h.row = seen[h.id] => Fits(s.filter, h.row))

FitInv == Fitting(search, ranked)

LEMMA FitPrimed == FitInv' <=> Fitting(search', ranked')
BY DEF FitInv, Fitting, Fits, Passes

LEMMA FitStart == SInit => FitInv
BY DEF SInit, NoSearch, FitInv, Fitting

LEMMA FitWriter ==
    ASSUME SearchInv, FitInv, WriterStep
    PROVE  FitInv'
<1>1. UNCHANGED ranked
    BY DEF WriterStep
<1>2. CASE UNCHANGED search
    BY <1>1, <1>2, FitPrimed DEF FitInv
<1>3. CASE search.pc # "none" /\ search' = [search EXCEPT !.quiet = @ /\ View' = View]
  <2>1. PICK at, q, words, filter, form, quiet, hits, top :
            search = Search(at, q, words, filter, form, quiet, hits, top)
      BY <1>3 DEF SearchInv, NoSearch
  <2>2. search' = Search(at, q, words, filter, form, quiet /\ View' = View, hits, top)
      BY <1>3, <2>1 DEF Search
  <2>3. UNCHANGED <<search.pc, search.filter, search.hits, search.top>>
      BY <2>1, <2>2 DEF Search
  <2>4. Fitting(search', ranked')
      BY <1>1, <2>3 DEF FitInv, Fitting
  <2> QED BY <2>4, FitPrimed
<1> QED BY <1>2, <1>3 DEF WriterStep

\* What the first phase has seen of the rows it ranked.
Seen(top) == ranked' = [i \in Ids |-> IF i \in top THEN View.rows[i] ELSE NoRow]

LEMMA FitReader ==
    ASSUME SearchInv, ExactInv, FitInv,
           OpenReader \/ CloseReader \/ (\E q \in Queries : Plan(q))
           \/ Browse \/ RankFull \/ Interrupted \/ RankBounded \/ Hydrate \/ Done
    PROVE  FitInv'
<1>1. View.rows \in [Ids -> Row \cup {NoRow}]
    BY ViewInStep DEF SearchInv, ExactInv
<1>2. CASE OpenReader \/ CloseReader
  <2>1. search' = NoSearch
      BY <1>2 DEF OpenReader, CloseReader, SearchInv
  <2> QED BY <2>1, FitPrimed DEF Fitting, NoSearch
<1>3. ASSUME NEW query \in Queries, Plan(query) PROVE FitInv'
  <2>1. PICK plan \in {"bounded", "full", "browse", "done"} :
            search' = [pc |-> plan, q |-> query, words |-> Parsed(query).words, filter |-> Parsed(query),
                       form |-> "start", quiet |-> TRUE, hits |-> {}, top |-> {}]
      BY <1>3 DEF Plan
  <2>2. search'.pc # "hydrate" /\ search'.hits = {}
      BY <2>1
  <2> QED BY <2>2, FitPrimed DEF Fitting
<1>4. CASE Browse \/ RankFull \/ Interrupted \/ RankBounded \/ Hydrate \/ Done
  <2>0. search.pc \in {"browse", "full", "bounded", "hydrate"}
      BY <1>4 DEF Browse, RankFull, Interrupted, RankBounded, Hydrate, Done, FirstPhase, LaterPhase
  <2>1. PICK at, q, words, filter, form, quiet, hits, top :
            search = Search(at, q, words, filter, form, quiet, hits, top)
      BY <2>0 DEF SearchInv, NoSearch
  <2>2. /\ search.pc = at /\ search.filter = filter /\ search.hits = hits /\ search.top = top
      BY <2>1 DEF Search
  <2>3. ASSUME NEW s, s.filter = filter, NEW i \in Filtered(View, s) PROVE i \in Ids /\ Fits(filter, View.rows[i])
      BY <2>3 DEF Filtered, MatchingIds, Fits
  <2>4. CASE Browse
    <3>1. PICK best \in Best({i \in IdsIn(View, "indexed") : Passes(search.filter, View.rows[i])}, Limit) :
              search' = [search EXCEPT !.pc = "done", !.hits = {Hit(View, i) : i \in best}]
        BY <2>4 DEF Browse
    <3> DEFINE found == {Hit(View, i) : i \in best}
    <3>2. search' = Search("done", q, words, filter, form, quiet, found, top)
        BY <2>1, <3>1 DEF Search
    <3>3. search'.pc = "done" /\ search'.filter = filter /\ search'.hits = found
        BY <3>2 DEF Search
    <3>4. ASSUME NEW i \in best PROVE View.rows[i] \in Row /\ Passes(filter, View.rows[i])
      <4>1. i \in IdsIn(View, "indexed") /\ Passes(filter, View.rows[i])
          BY <2>2, <3>1 DEF Best
      <4>2. i \in Ids /\ View.rows[i] # NoRow
          BY <4>1 DEF IdsIn, NoRow
      <4> QED BY <1>1, <4>1, <4>2
    <3>5. \A h \in found : h.row \in Row /\ Fits(filter, h.row)
        BY <3>4 DEF Hit, Fits
    <3> QED BY <3>3, <3>5, FitPrimed DEF Fitting
  <2>5. CASE RankFull
    <3>1. PICK best \in IF Readable({"fts"}) THEN Best(Filtered(View, search), Limit) ELSE {{}} :
              Seen(best) /\ search' = [search EXCEPT !.pc = "hydrate", !.top = best]
        BY <2>5 DEF RankFull, FirstPhase, Seen
    <3>2. search' = Search("hydrate", q, words, filter, form, quiet, {}, best)
        BY <2>1, <2>2, <2>5, <3>1 DEF Search, RankFull, SearchInv
    <3>3. search'.pc = "hydrate" /\ search'.filter = filter /\ search'.hits = {} /\ search'.top = best
        BY <3>2 DEF Search
    <3>4. best \subseteq Filtered(View, search)
        BY <3>1 DEF Best
    <3>5. \A i \in best : i \in Ids /\ Fits(filter, View.rows[i])
        BY <2>2, <2>3, <3>4
    <3>6. \A i \in best : ranked'[i] = View.rows[i]
        BY <3>1, <3>5 DEF Seen
    <3> QED BY <3>3, <3>5, <3>6, FitPrimed DEF Fitting
  <2>6. CASE Interrupted
    <3>1. search' = Search("bounded", q, words, filter, form, quiet, hits, top)
        BY <2>1, <2>6 DEF Search, Interrupted
    <3>2. search'.pc = "bounded"
        BY <3>1 DEF Search
    <3> QED BY <3>2, FitPrimed DEF Fitting
  <2>7. CASE RankBounded
    <3> DEFINE s == [search EXCEPT !.form = "word", !.pc = "hydrate"]
               candidates == IF Readable({"fts"}) THEN Newest(Filtered(View, s), Max({Limit, Budget})) ELSE {}
    <3>1. PICK best \in Best(candidates, Limit) : Seen(best) /\ search' = [s EXCEPT !.top = best]
        BY <2>7 DEF RankBounded, FirstPhase, Seen
    <3>2. s = Search("hydrate", q, words, filter, "word", quiet, hits, top)
      <4>1. [search EXCEPT !.form = "word"] = Search(at, q, words, filter, "word", quiet, hits, top)
          BY <2>1 DEF Search
      <4>2. s = [[search EXCEPT !.form = "word"] EXCEPT !.pc = "hydrate"]
          OBVIOUS
      <4> HIDE DEF s
      <4> QED BY <4>1, <4>2 DEF Search
    <3>3. hits = {}
        BY <2>2, <2>7 DEF RankBounded, SearchInv
    <3>4. best \subseteq candidates /\ candidates \subseteq Filtered(View, s)
        BY <3>1 DEF Best, Newest
    <3> HIDE DEF s, candidates
    <3>5. search' = Search("hydrate", q, words, filter, "word", quiet, hits, best) /\ s.filter = filter
        BY <3>1, <3>2 DEF Search
    <3>6. search'.pc = "hydrate" /\ search'.filter = filter /\ search'.hits = {} /\ search'.top = best
        BY <3>3, <3>5 DEF Search
    <3>7. \A i \in best : i \in Ids /\ Fits(filter, View.rows[i])
        BY <2>3, <3>4, <3>5
    <3>8. \A i \in best : ranked'[i] = View.rows[i]
        BY <3>1, <3>7 DEF Seen
    <3> QED BY <3>6, <3>7, <3>8, FitPrimed DEF Fitting
  <2>8. CASE Hydrate
    <3>0. ranked' = ranked /\ at = "hydrate"
        BY <2>2, <2>8 DEF Hydrate, LaterPhase
    <3>1. PICK i \in top :
              search' = [search EXCEPT !.top = @ \ {i},
                           !.hits = IF Readable({"fts", "files"}) /\ ~Vanished(View, search, i)
                                    THEN @ \cup {Hit(View, i)} ELSE @]
        BY <2>2, <2>8 DEF Hydrate
    <3> DEFINE more == IF Readable({"fts", "files"}) /\ ~Vanished(View, search, i)
                       THEN hits \cup {Hit(View, i)} ELSE hits
    <3>2. search' = Search("hydrate", q, words, filter, form, quiet, more, top \ {i})
        BY <2>1, <2>2, <3>0, <3>1 DEF Search
    <3>3. search'.pc = "hydrate" /\ search'.filter = filter /\ search'.hits = more /\ search'.top = top \ {i}
        BY <3>2 DEF Search
    <3>4. /\ \A j \in top : Fits(filter, ranked[j])
          /\ \A h \in hits : h.row \in Row /\ (h.row = ranked[h.id] => Fits(filter, h.row))
        BY <2>2, <3>0 DEF FitInv, Fitting
    <3>5. ASSUME ~Vanished(View, search, i), NEW h, h = Hit(View, i)
          PROVE  h.row \in Row /\ (h.row = ranked[h.id] => Fits(filter, h.row))
      <4>1. h.id = i /\ h.row = View.rows[i]
          BY <3>5 DEF Hit
      <4>2. i \in Ids /\ View.rows[i] # NoRow
          BY <3>5 DEF Vanished, HasRow
      <4> QED BY <1>1, <3>1, <3>4, <4>1, <4>2
    <3>6. \A h \in more : h.row \in Row /\ (h.row = ranked[h.id] => Fits(filter, h.row))
        BY <3>4, <3>5
    <3> HIDE DEF more
    <3> QED BY <3>0, <3>3, <3>4, <3>6, FitPrimed DEF Fitting
  <2>9. CASE Done
    <3>1. search' = Search("done", q, words, filter, form, quiet, hits, top) /\ ranked' = ranked /\ at = "hydrate"
        BY <2>1, <2>2, <2>9 DEF Search, Done, LaterPhase
    <3>2. search'.pc = "done" /\ search'.filter = filter /\ search'.hits = hits
        BY <3>1 DEF Search
    <3> QED BY <2>2, <3>1, <3>2, FitPrimed DEF FitInv, Fitting
  <2> QED BY <1>4, <2>4, <2>5, <2>6, <2>7, <2>8, <2>9
<1> QED BY <1>2, <1>3, <1>4

LEMMA FitGoesOn == SearchInv /\ ExactInv /\ FitInv /\ [SNext]_<<vars, searchVars>> => FitInv'
<1>1. FitInv /\ UNCHANGED <<vars, searchVars>> => FitInv'
    BY FitPrimed DEF searchVars, FitInv
<1> QED BY <1>1, FitWriter, FitReader DEF SNext

\* Whatever is committed, dropped or unlinked between the statements of a search, a hit shows
\* the version of its row, in whose text the words are, and if its row is the one that was
\* ranked the predicates hold of it as they are meant: for any files, queries, clock and limits.
THEOREM HitsTrue == SSpec => []HitsMatch
<1>1. SearchInv /\ ExactInv /\ FitInv => HitsMatch
  <2> SUFFICES ASSUME SearchInv, ExactInv, FitInv, search.pc \in {"hydrate", "done"}, NEW h \in search.hits
               PROVE  /\ Terms(search.words) # {} /\ ~h.torn =>
                            h.shown \in {h.row.hash, Empty} /\ Found(h.index, h.shown, search)
                      /\ h.row = ranked[h.id] /\ ~Ignored(search.q) /\ ~Overruled(search.q) => Means(search.q, h.row)
      BY DEF HitsMatch
  <2>1. Terms(search.words) # {} /\ ~h.torn => h.shown \in {h.row.hash, Empty} /\ Found(h.index, h.shown, search)
      BY DEF SearchInv, WordsMatch, IsHit
  <2>2. ASSUME h.row = ranked[h.id], ~Ignored(search.q), ~Overruled(search.q) PROVE Means(search.q, h.row)
    <3>1. h.row \in Row /\ (search.filter.active => Passes(search.filter, h.row))
        BY <2>2 DEF FitInv, Fitting, Fits
    <3>2. search.q \in Queries /\ search.filter = Parsed(search.q)
        BY DEF ExactInv, Planned
    <3>3. /\ Passes(search.filter, h.row) => Means(search.q, h.row)
          /\ ~search.filter.active => Means(search.q, h.row)
        BY <2>2, <3>1, <3>2, PassesMeans
    <3> QED BY <3>1, <3>3
  <2> QED BY <2>1, <2>2
<1>2. SInit => SearchInv /\ ExactInv /\ FitInv
    BY SearchStart, ExactStart, FitStart
<1>3. (SearchInv /\ ExactInv /\ FitInv) /\ [SNext]_<<vars, searchVars>> => (SearchInv /\ ExactInv /\ FitInv)'
    BY SearchGoesOn, ExactGoesOn, FitGoesOn
<1> QED BY <1>1, <1>2, <1>3, PTL DEF SSpec
=============================================================================
