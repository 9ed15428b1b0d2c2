------------------------ MODULE ProcessesMC_proofs ------------------------
(***************************************************************************)
(* Proofs about the six parts of ProcessesMC: what a save reports is kept, *)
(* a press reaches the instance that is up, waylaunchctl's word is true,   *)
(* what a child said comes back whole, the compositor's events come in     *)
(* order, and the indexer's worker sleeps on no work and minds a pause.    *)
(***************************************************************************)
EXTENDS ProcessesMC, Sequences, FiniteSetTheorems, SequenceTheorems, TLAPS

-----------------------------------------------------------------------------
(* The lock and the pid *)

Named == {"starting", "up", "open", "write", "rename", "again", "saved", "leaving"}
Holding == {"locked", "emptied"} \cup Named

Past ==
    [overlap : BOOLEAN, forgotten : BOOLEAN, killed : SUBSET Processes, unlocked : SUBSET Processes,
     unnamed : SUBSET Processes, faults : Nat]

LockType ==
    /\ past \in Past
    /\ mode \in Modes
    /\ slot \in [Processes -> Keys]
    /\ pc \in [Processes -> Holding \cup {"new", "guarded", "signal", "gone"}]
    /\ lock \in [Keys -> [owner : Processes \cup {None}, child : BOOLEAN]]
    /\ pid \in [Keys -> Processes \cup {None}]
    /\ target \in [Processes -> Processes \cup {None}]

\* A process past the lock owns it, whatever signals and kills there were, unless it could not
\* open it; and past the start the lock's file names it, unless it could not be written.
LockInv ==
    /\ LockType
    /\ past.unlocked \subseteq past.unnamed
    /\ \A p \in past.unlocked : pc[p] \in Named \cup {"gone"}
    /\ \A p \in Processes : pc[p] \in Holding /\ p \notin past.unlocked => lock[slot[p]].owner = p
    /\ \A p \in Processes : pc[p] \in Named /\ p \notin past.unnamed => pid[slot[p]] = p
    /\ mode # "dropdown" => \A p, q \in Processes : slot[p] = slot[q]
    /\ mode \in {"switcher", "dropdown"} => past.killed = {}

LocksStep == Locks!Next \/ UNCHANGED locks
ThreadsStep == Threads!Next \/ UNCHANGED indexing

LEMMA LockInit == Init => LockInv
<1> SUFFICES ASSUME Init PROVE LockInv
    OBVIOUS
<1>1. Locks!Init
    BY DEF Init
<1>2. (CHOOSE k \in Keys : TRUE) \in Keys
    BY ProcessesAssumption
<1>. slot \in [Processes -> Keys]
    BY <1>1, <1>2, ProcessesAssumption DEF Locks!Init
<1>3. LockType
    BY <1>1, <1>2 DEF Locks!Init, LockType, Past, Holding, Named
<1>4. mode # "dropdown" => \A p, q \in Processes : slot[p] = slot[q]
    BY <1>1 DEF Locks!Init
<1>5. past.killed = {} /\ past.unlocked = {} /\ past.unnamed = {}
    BY <1>1 DEF Locks!Init
<1> QED BY <1>1, <1>3, <1>4, <1>5 DEF Locks!Init, LockInv, Holding, Named

\* Nothing happens to the locks that is worth keeping.
Same ==
    /\ past' \in Past
    /\ past'.killed = past.killed /\ past'.unlocked = past.unlocked /\ past'.unnamed = past.unnamed

\* What the files' history may become.
LEMMA SameKept ==
    ASSUME past \in Past, MaxFaults \in Nat, NEW b \in BOOLEAN, NEW c \in BOOLEAN, NEW n \in Nat
    PROVE  /\ past' = past => Same
           /\ past' = [past EXCEPT !.forgotten = b, !.faults = n] => Same
           /\ past' = [past EXCEPT !.forgotten = b] => Same
           /\ past' = [past EXCEPT !.faults = n] => Same
           /\ past' = [[past EXCEPT !.forgotten = b, !.faults = n] EXCEPT !.overlap = c] => Same
BY DEF Same, Past

\* A process that goes on with the lock and the pid as they are.
LEMMA GoesKeeps ==
    ASSUME LockInv, NEW p \in Processes, NEW from, NEW to \in Holding \cup {"guarded", "signal", "gone"},
           Locks!Goes(p, from, to), UNCHANGED <<lock, pid>>,
           target' \in [Processes -> Processes \cup {None}],
           Same,
           to \in Holding => from \in Holding, from \in Named \cup {"gone"} => to \in Named \cup {"gone"},
           to \in Named => from \in Named
    PROVE  LockInv'
<1>1. pc' = [pc EXCEPT ![p] = to] /\ pc[p] = from /\ UNCHANGED <<mode, slot>>
    BY DEF Locks!Goes, Locks!chosen
<1>2. LockType'
    BY <1>1 DEF LockInv, LockType, Same
<1> QED BY <1>1, <1>2 DEF LockInv, LockType, Same, Past

\* A process that ends lets go of its lock.
LEMMA EndKeeps ==
    ASSUME LockInv, NEW p \in Processes, pc' = [pc EXCEPT ![p] = "gone"], Locks!Release(p),
           UNCHANGED <<mode, slot, pid, target>>, Same
    PROVE  LockInv'
<1>1. /\ lock' \in [Keys -> [owner : Processes \cup {None}, child : BOOLEAN]]
      /\ \A r \in Processes : r # p /\ lock[slot[r]].owner = r => lock'[slot[r]].owner = r
    BY DEF LockInv, LockType, Locks!Release
<1>2. LockType'
    BY <1>1 DEF LockInv, LockType, Same
<1>3. pc'[p] = "gone" /\ \A r \in Processes : r # p => pc'[r] = pc[r]
    BY DEF LockInv, LockType
<1> QED BY <1>1, <1>2, <1>3 DEF LockInv, Holding, Named, Same, Past

\* What a signal moves.
Dies(p) == target[p] # None /\ Locks!Fatal(target[p])

LEMMA SignalMoves ==
    ASSUME NEW p \in Processes, Locks!SignalAndEnd(p)
    PROVE  /\ pc[p] = "signal" /\ UNCHANGED <<mode, slot, pid, target, mem, fd, disk, kept>>
           /\ pc' = [r \in Processes |->
                     IF r = p \/ (r = target[p] /\ Dies(p)) THEN "gone"
                     ELSE IF r = target[p] /\ pc[target[p]] = "up" /\ mode = "launcher" THEN "leaving" ELSE pc[r]]
           /\ past' = [past EXCEPT !.killed = IF Dies(p) THEN @ \cup {target[p]} ELSE @]
           /\ IF Dies(p) THEN Locks!Release(target[p]) ELSE UNCHANGED lock
<1> USE DEF Locks!files
<1>1. CASE Dies(p)
    BY <1>1 DEF Locks!SignalAndEnd, Locks!chosen, Locks!Fatal, Dies
<1>2. CASE ~Dies(p)
    BY <1>2 DEF Locks!SignalAndEnd, Locks!chosen, Dies
<1> QED BY <1>1, <1>2

LEMMA LockStep == LockInv /\ LocksStep => LockInv'
<1> SUFFICES ASSUME LockInv, LocksStep PROVE LockInv'
    OBVIOUS
<1> USE DEF Locks!locks, Locks!files
<1>0. CASE UNCHANGED locks
    BY <1>0 DEF locks, LockInv, LockType
<1>f. past \in Past /\ past.faults + 1 \in Nat /\ MaxFaults \in Nat
    BY ProcessesAssumption DEF LockInv, LockType, Past
<1>1. ASSUME NEW p \in Processes, Locks!Main(p) PROVE LockInv'
  <2>1. CASE Locks!Start(p)
      BY <2>1, <1>f, GoesKeeps, SameKept DEF Locks!Start, LockInv, LockType, Holding, Named
  <2>2. CASE Locks!Acquire(p)
    <3>1. /\ pc' = [pc EXCEPT ![p] = "locked"] /\ pc[p] = "guarded" /\ UNCHANGED <<mode, slot, pid, target, past>>
          /\ lock' = [lock EXCEPT ![slot[p]].owner = p]
          /\ lock[slot[p]].owner = None
        BY <2>2 DEF Locks!Acquire, Locks!Goes, Locks!chosen
    <3>2. LockType'
        BY <3>1 DEF LockInv, LockType, Holding
    <3>3. \A q \in Processes : q # p /\ pc[q] \in Holding /\ q \notin past.unlocked => slot[q] # slot[p]
        BY <3>1, ProcessesAssumption DEF LockInv
    <3> QED BY <3>1, <3>2, <3>3 DEF LockInv, LockType, Holding, Named
  <2>3. CASE Locks!Truncate(p) \/ Locks!WritePid(p)
    <3>1. PICK to \in {"emptied", "starting"} :
              /\ pc' = [pc EXCEPT ![p] = to] /\ pc[p] \in {"locked", "emptied"}
              /\ UNCHANGED <<mode, slot, lock, target, past>>
              /\ pid' = [pid EXCEPT ![slot[p]] = IF to = "emptied" THEN None ELSE p]
        BY <2>3 DEF Locks!Truncate, Locks!WritePid, Locks!Goes, Locks!chosen
    <3>2. LockType'
        BY <3>1 DEF LockInv, LockType, Holding, Named
    <3>3. \A q \in Processes : q # p /\ pc[q] \in Holding /\ q \notin past.unlocked => slot[q] # slot[p]
        BY <3>1 DEF LockInv, Holding, Named
    <3> QED BY <3>1, <3>2, <3>3 DEF LockInv, LockType, Holding, Named
  <2>4. CASE Locks!FindTaken(p)
    <3>1. target' \in [Processes -> Processes \cup {None}]
        BY <2>4 DEF Locks!FindTaken, LockInv, LockType
    <3> QED BY <2>4, <3>1, <1>f, GoesKeeps, SameKept DEF Locks!FindTaken, Holding, Named
  <2>7. CASE Locks!AcquireFails(p) \/ Locks!PidFails(p)
    <3>1. PICK went \in {past.unlocked, past.unlocked \cup {p}} :
              /\ past' = [past EXCEPT !.unlocked = went, !.unnamed = @ \cup {p}, !.faults = @ + 1]
              /\ pc' = [pc EXCEPT ![p] = "starting"]
              /\ pc[p] \in {"guarded", "locked", "emptied"}
              /\ p \in went \/ pc[p] \in {"locked", "emptied"}
              /\ UNCHANGED <<mode, slot, lock, pid, target>>
        BY <2>7, <1>f DEF Locks!AcquireFails, Locks!PidFails, Locks!Goes, Locks!chosen, Past
    <3>2. /\ past' \in Past /\ past'.killed = past.killed /\ past'.unlocked = went
          /\ past'.unnamed = past.unnamed \cup {p}
        BY <3>1, <1>f DEF Past
    <3>3. LockType'
        BY <3>1, <3>2 DEF LockInv, LockType, Holding, Named
    <3> QED BY <3>1, <3>2, <3>3 DEF LockInv, LockType, Holding, Named
  <2>5. CASE Locks!SignalAndEnd(p)
    <3> DEFINE q == target[p]
               dies == Dies(p)
    <3>1. /\ pc[p] = "signal" /\ UNCHANGED <<mode, slot, pid, target>>
          /\ pc' = [r \in Processes |->
                    IF r = p \/ (r = q /\ dies) THEN "gone"
                    ELSE IF r = q /\ pc[q] = "up" /\ mode = "launcher" THEN "leaving" ELSE pc[r]]
          /\ past' = [past EXCEPT !.killed = IF dies THEN @ \cup {q} ELSE @]
          /\ IF dies THEN Locks!Release(q) ELSE UNCHANGED lock
        BY <2>5, SignalMoves
    <3>2. q \in Processes \cup {None} /\ (dies => q \in Processes /\ pc[q] = "starting" /\ mode = "launcher")
        BY DEF LockInv, LockType, Locks!Fatal, Dies
    <3> HIDE DEF q, dies
    <3>3. \A r \in Processes : pc'[r] \in {"gone", "leaving", pc[r]}
        BY <3>1
    <3>4. \A r \in Processes : pc'[r] # "gone" => ~(dies /\ r = q)
        BY <3>1
    <3>5. \A r \in Processes : pc'[r] = "leaving" => pc[r] \in {"up", "leaving"}
        BY <3>1
    <3>6. pc' \in [Processes -> Holding \cup {"new", "guarded", "signal", "gone"}]
        BY <3>1, <3>3 DEF LockInv, LockType, Holding, Named
    <3>7. /\ lock' \in [Keys -> [owner : Processes \cup {None}, child : BOOLEAN]]
          /\ \A r \in Processes : ~(dies /\ r = q) /\ lock[slot[r]].owner = r => lock'[slot[r]].owner = r
      <4> USE <3>2 DEF LockInv, LockType
      <4>1. CASE dies
          BY <3>1, <4>1 DEF Locks!Release
      <4>2. CASE ~dies
          BY <3>1, <4>2
      <4> QED BY <4>1, <4>2
    <3>8. /\ past' \in Past /\ past'.unlocked = past.unlocked /\ past'.unnamed = past.unnamed
          /\ ~dies => past'.killed = past.killed
        BY <3>1, <3>2, <1>f DEF Past
    <3>10. LockType'
        BY <3>1, <3>6, <3>7, <3>8 DEF LockInv, LockType
    <3>9. past'.killed = {} \/ mode \notin {"switcher", "dropdown"}
        BY <3>1, <3>2, <3>8 DEF LockInv
    <3>11. \A r \in past'.unlocked : pc'[r] \in Named \cup {"gone"}
        BY <3>3, <3>8 DEF LockInv, LockType, Past, Named
    <3> QED BY <3>1, <3>3, <3>4, <3>5, <3>7, <3>8, <3>9, <3>10, <3>11 DEF LockInv, Holding, Named
  <2>6. CASE Locks!Up(p)
    <3>1. Same /\ Locks!Goes(p, "starting", "up") /\ UNCHANGED <<lock, pid, target>>
      <4>1. CASE mode = "launcher"
          BY <2>6, <4>1, <1>f, SameKept DEF Locks!Up, Locks!Having
      <4>2. CASE mode # "launcher"
          BY <2>6, <4>2, <1>f, SameKept DEF Locks!Up
      <4> QED BY <4>1, <4>2
    <3> QED BY <3>1, GoesKeeps DEF LockInv, LockType, Holding, Named
  <2> QED BY <1>1, <2>1, <2>2, <2>3, <2>4, <2>5, <2>6, <2>7 DEF Locks!Main
<1>2. ASSUME NEW p \in Processes, Locks!Store(p) PROVE LockInv'
  <2> USE DEF LockInv, LockType, Holding, Named, Locks!Saved
  <2>1. ASSUME NEW k \in Keys, Locks!Save(p, k) PROVE LockInv'
    <3>1. Same /\ Locks!Goes(p, "up", "open") /\ UNCHANGED <<lock, pid, target>>
        BY <2>1, <1>f, SameKept DEF Locks!Save, Locks!Having, Past
    <3> QED BY <3>1, GoesKeeps
  <2>2. CASE Locks!OpenTmp(p) \/ Locks!Write(p)
      BY <2>2, <1>f, GoesKeeps, SameKept DEF Locks!OpenTmp, Locks!Write
  <2>5. CASE Locks!RenameFails(p)
    <3>1. Same /\ Locks!Goes(p, "rename", "again") /\ UNCHANGED <<lock, pid, target>>
        BY <2>5, <1>f, SameKept DEF Locks!RenameFails, Past
    <3> QED BY <3>1, GoesKeeps
  <2>3. CASE Locks!Rename(p) \/ Locks!RenameFailsAgain(p)
    <3>1. Same /\ UNCHANGED <<lock, pid, target>>
        BY <2>3, <1>f, SameKept DEF Locks!Rename, Locks!RenameFailsAgain, Past
    <3>2. \E from \in {"rename", "again"}, to \in {"saved", "up"} : Locks!Goes(p, from, to)
        BY <2>3 DEF Locks!Rename, Locks!RenameFailsAgain
    <3> QED BY <3>1, <3>2, GoesKeeps
  <2>4. CASE Locks!WriteFails(p)
    <3>1. PICK to \in {Locks!Saved, "gone"} :
              /\ pc' = [pc EXCEPT ![p] = to]
              /\ IF to = "gone" THEN Locks!Release(p) ELSE UNCHANGED lock
        BY <2>4 DEF Locks!WriteFails
    <3>2. UNCHANGED <<mode, slot, pid, target, past>> /\ pc[p] = "write"
        BY <2>4 DEF Locks!WriteFails, Locks!chosen
    <3>3. CASE to = "gone"
        BY <3>1, <3>2, <3>3, <1>f, EndKeeps, SameKept
    <3>4. CASE to # "gone"
        BY <3>1, <3>2, <3>4, <1>f, GoesKeeps, SameKept DEF Locks!Goes, Locks!chosen
    <3> QED BY <3>3, <3>4
  <2> QED BY <1>2, <2>1, <2>2, <2>3, <2>4, <2>5 DEF Locks!Store
<1>3. ASSUME NEW p \in Processes, Locks!Detach(p) PROVE LockInv'
  <2>1. /\ pc' = [pc EXCEPT ![p] = "leaving"] /\ pc[p] \in {"up", "saved"}
        /\ UNCHANGED <<mode, slot, pid, target, past>>
        /\ lock' = [lock EXCEPT ![slot[p]].child = TRUE]
      BY <1>3 DEF Locks!Detach, Locks!Goes, Locks!chosen
  <2>0. slot[p] \in Keys /\ lock \in [Keys -> [owner : Processes \cup {None}, child : BOOLEAN]]
      BY DEF LockInv, LockType
  <2>2. /\ lock' \in [Keys -> [owner : Processes \cup {None}, child : BOOLEAN]]
        /\ \A s \in Keys : lock'[s].owner = lock[s].owner
      BY <2>0, <2>1
  <2>3. LockType'
      BY <2>1, <2>2 DEF LockInv, LockType, Holding, Named
  <2> QED BY <2>1, <2>2, <2>3 DEF LockInv, LockType, Holding, Named
<1>4. ASSUME NEW p \in Processes, Locks!End(p) PROVE LockInv'
  <2>1. Same
      BY <1>4, <1>f, SameKept DEF Locks!End, Past
  <2> QED BY <1>4, <2>1, EndKeeps DEF Locks!End, Locks!chosen
<1>5. ASSUME NEW s \in Keys, Locks!Exec(s) PROVE LockInv'
  <2>1. /\ UNCHANGED <<mode, slot, pc, pid, target, past>>
        /\ lock' = [lock EXCEPT ![s].child = FALSE]
      BY <1>5 DEF Locks!Exec, Locks!chosen
  <2>2. LockType' /\ \A k \in Keys : lock'[k].owner = lock[k].owner
      BY <2>1 DEF LockInv, LockType
  <2> QED BY <2>1, <2>2 DEF LockInv, LockType
<1> QED BY <1>0, <1>1, <1>2, <1>3, <1>4, <1>5 DEF LocksStep, Locks!Next

\* Only the part that was chosen moves.
LEMMA PartSteps ==
    [Next]_vars => /\ LocksStep
                   /\ Control!Next \/ UNCHANGED control
                   /\ Run!Next \/ UNCHANGED running
                   /\ Extractor!Next \/ UNCHANGED extracting
                   /\ Events!Next \/ UNCHANGED stream
                   /\ ThreadsStep
BY DEF Next, vars, LocksStep, ThreadsStep, MoveLocks, MoveControl, OthersOfRun, OthersOfExtractor, MoveEvents,
       OthersOfThreads

LEMMA LockAlways == Spec => []LockInv
BY LockInit, LockStep, PartSteps, PTL DEF Spec

\* The instance that is up is the one a press goes to, and no press kills one that starts, in
\* any number of processes and slots.
THEOREM PressesArrive == Spec => []PressesReach
<1>1. LockInv => PressesReach
    BY DEF LockInv, Named, Holding, PressesReach, Locks!PressesReach, Locks!Saving
<1> QED BY <1>1, LockAlways, PTL

-----------------------------------------------------------------------------
(* The history, and the sizes of the dropdowns *)

Row == [Keys -> Nat]
Writing == Locks!Saving

FileType ==
    /\ mem \in [Processes -> Row]
    /\ fd \in [Processes -> {1, 2, None}]
    /\ disk \in [path : {1, 2, None}, tmp : {1, 2, None},
                 data : [1..2 -> [is : {"empty", "whole", "torn"}, rows : Row]]]
    /\ kept \in Row
    /\ past \in Past

AtLeast(rows, old) == \A k \in Keys : rows[k] >= old[k]

\* What a save that goes on alone has done so far: the file it writes is never the one the
\* readers see, and what it is about to put there keeps what was reported before.
SaveSoFar(p) ==
    /\ pc[p] \in Writing \/ (pc[p] = "up" /\ mode = "launcher") => AtLeast(mem[p], kept)
    /\ pc[p] = "write" => fd[p] = disk.tmp /\ disk.tmp # None /\ disk.data[disk.tmp] = Locks!Empty
    /\ pc[p] \in {"rename", "again"} => disk.tmp # None /\ disk.data[disk.tmp] = Locks!Whole(mem[p])

KeptInFile ==
    \/ disk.path = None /\ (kept = Locks!NoRows \/ \E p \in Processes : pc[p] = "again")
    \/ disk.path # None /\ disk.data[disk.path].is = "whole" /\ AtLeast(disk.data[disk.path].rows, kept)

Worth == Locks!Alone /\ Locks!Told

FileInv ==
    /\ FileType
    /\ disk.tmp # None => disk.tmp # disk.path
    /\ mode = "launcher" /\ Locks!Alone => ~past.overlap
    /\ Worth =>
         /\ \A p, q \in Processes : pc[p] \in Writing /\ pc[q] \in Writing => p = q
         /\ KeptInFile
         /\ \A p \in Processes : SaveSoFar(p)

LEMMA FileInit == Init => FileInv
BY DEF Init, Locks!Init, Locks!NoRows, Locks!Empty, Locks!Saving, FileInv, FileType, Row, Writing,
       AtLeast, KeptInFile, SaveSoFar, Past, Worth, Locks!Alone, Locks!Told

\* What is read keeps what was reported.
LEMMA ReadKeeps ==
    ASSUME FileInv, Worth, \A q \in Processes : pc[q] # "again"
    PROVE  Locks!WhatIsSaved \in Row /\ AtLeast(Locks!WhatIsSaved, kept)
BY DEF FileInv, FileType, KeptInFile, Locks!WhatIsSaved, AtLeast, Row, Locks!NoRows

\* One launcher at a time is past the lock.
LEMMA LauncherAlone ==
    ASSUME LockInv, mode = "launcher", Locks!Alone, NEW p \in Processes, NEW q \in Processes,
           pc[p] \in Holding, pc[q] \in Holding
    PROVE  p = q
BY DEF LockInv, LockType, Locks!Alone

\* What the history of the files may become without telling of the rows again.
Later ==
    /\ past' \in Past /\ past'.overlap = past.overlap
    /\ past.unlocked \subseteq past'.unlocked /\ (past.forgotten => past'.forgotten)

LEMMA StaysWorth ==
    ASSUME FileType, Later, mode' = mode
    PROVE  /\ Worth' => Worth
           /\ Locks!Alone' => Locks!Alone
BY DEF FileType, Past, Later, Worth, Locks!Alone, Locks!Told

LEMMA LaterKept ==
    ASSUME past \in Past, NEW b \in BOOLEAN, NEW n \in Nat
    PROVE  /\ past' = past => Later
           /\ past' = [past EXCEPT !.forgotten = @ \/ b] => Later /\ (b => past'.forgotten)
           /\ past' = [past EXCEPT !.faults = n] => Later
BY DEF Past, Later

\* A save on its way finds what was reported where readers see it, until it removes the file.
LEMMA Firm ==
    ASSUME FileInv, Worth, NEW p \in Processes, pc[p] \in {"open", "write", "rename"}
    PROVE  \/ disk.path = None /\ kept = Locks!NoRows
           \/ /\ disk.path # None /\ disk.data[disk.path].is = "whole"
              /\ AtLeast(disk.data[disk.path].rows, kept)
BY DEF FileInv, KeptInFile, Writing, Locks!Saving

\* A process that has saved has nothing under way.
LEMMA DoneSoFar ==
    ASSUME LockInv, NEW p \in Processes, NEW to \in {Locks!Saved, "gone"},
           pc' = [pc EXCEPT ![p] = to], mode' = mode
    PROVE  SaveSoFar(p)'
BY DEF LockInv, LockType, SaveSoFar, Writing, Locks!Saving, Locks!Saved

\* A step that is no part of a save.
LEMMA FilesStay ==
    ASSUME FileInv, FileType', UNCHANGED <<mode, disk, kept>>, Later,
           \A r \in Processes : pc[r] = "again" => pc'[r] = "again" \/ (Locks!Removed(r) => past'.forgotten),
           \A r \in Processes : pc'[r] \in Writing \cup {"up"} =>
                pc'[r] = pc[r] /\ mem'[r] = mem[r] /\ fd'[r] = fd[r]
    PROVE  FileInv'
<1>1. ASSUME NEW r \in Processes, SaveSoFar(r) PROVE SaveSoFar(r)'
    BY <1>1 DEF SaveSoFar, Writing, Locks!Saving, AtLeast, Locks!Empty, Locks!Whole, Locks!NoRows
<1>2. ASSUME Worth', KeptInFile PROVE KeptInFile'
    BY <1>2 DEF KeptInFile, AtLeast, Locks!NoRows, Locks!Removed, Worth, Locks!Told
<1>3. ASSUME Worth' PROVE Worth
    BY <1>3, StaysWorth DEF FileInv
<1>4. ASSUME NEW r \in Processes, pc'[r] \in Writing PROVE pc[r] \in Writing
    BY <1>4
<1>5. (mode = "launcher" /\ Locks!Alone => ~past.overlap)'
    BY StaysWorth DEF FileInv, Later
<1> QED BY <1>1, <1>2, <1>3, <1>4, <1>5 DEF FileInv

\* A save that goes on: the other processes have nothing to do with it.
LEMMA SaveGoesOn ==
    ASSUME LockInv, FileInv, NEW p \in Processes, pc[p] \in Writing,
           mode' = mode, Later, NEW to, pc' = [pc EXCEPT ![p] = to],
           FileType', (disk.tmp # None => disk.tmp # disk.path)',
           Worth' => KeptInFile' /\ SaveSoFar(p)'
    PROVE  FileInv'
<1>0. ASSUME Worth' PROVE Worth /\ Locks!Alone
    BY <1>0, StaysWorth DEF FileInv, Worth
<1>1. ASSUME Worth, NEW q \in Processes, q # p
      PROVE  pc'[q] = pc[q] /\ pc[q] \notin Writing /\ ~(pc[q] = "up" /\ mode = "launcher")
    BY <1>1, LauncherAlone DEF FileInv, LockInv, LockType, Writing, Locks!Saving, Holding, Named, Worth
<1>2. ASSUME Worth', NEW q \in Processes PROVE SaveSoFar(q)'
    BY <1>0, <1>1, <1>2 DEF SaveSoFar, Writing, Locks!Saving
<1>3. (mode = "launcher" /\ Locks!Alone => ~past.overlap)'
    BY StaysWorth DEF FileInv, Later
<1> QED BY <1>0, <1>1, <1>2, <1>3 DEF FileInv

LEMMA FileStep == LockInv /\ FileInv /\ LocksStep => FileInv'
<1> SUFFICES ASSUME LockInv, FileInv, LocksStep PROVE FileInv'
    OBVIOUS
<1> USE DEF Locks!locks, Locks!files
<1>f. past \in Past /\ past.faults + 1 \in Nat
    BY DEF LockInv, LockType, Past
<1>0. CASE UNCHANGED locks
    BY <1>0, FilesStay DEF locks, FileInv, FileType, Later
<1>1. ASSUME NEW p \in Processes, Locks!Main(p) PROVE FileInv'
  <2>1. CASE \/ Locks!Start(p) \/ Locks!Acquire(p) \/ Locks!Truncate(p) \/ Locks!WritePid(p)
             \/ Locks!FindTaken(p)
    <3>1. /\ UNCHANGED <<mode, mem, fd, disk, kept, past>> /\ pc[p] # "again"
          /\ \E to \in {"guarded", "locked", "emptied", "starting", "signal"} : pc' = [pc EXCEPT ![p] = to]
        BY <2>1 DEF Locks!Start, Locks!Acquire, Locks!Truncate, Locks!WritePid, Locks!FindTaken, Locks!Goes, Locks!chosen
    <3>2. FileType' /\ Later
        BY <3>1 DEF FileInv, FileType, Later
    <3> QED BY <3>1, <3>2, FilesStay DEF LockInv, LockType, Writing, Locks!Saving
  <2>4. CASE Locks!AcquireFails(p) \/ Locks!PidFails(p)
    <3>1. PICK went \in {past.unlocked, past.unlocked \cup {p}} :
              past' = [past EXCEPT !.unlocked = went, !.unnamed = @ \cup {p}, !.faults = @ + 1]
        BY <2>4, <1>f DEF Locks!AcquireFails, Locks!PidFails, Past
    <3>2. /\ UNCHANGED <<mode, mem, fd, disk, kept>> /\ pc[p] # "again"
          /\ pc' = [pc EXCEPT ![p] = "starting"]
        BY <2>4 DEF Locks!AcquireFails, Locks!PidFails, Locks!Goes, Locks!chosen
    <3>3. Later
        BY <3>1, <1>f DEF Past, Later
    <3>4. FileType'
        BY <3>2, <3>3 DEF FileInv, FileType, Later
    <3> QED BY <3>2, <3>3, <3>4, FilesStay DEF LockInv, LockType, Writing, Locks!Saving
  <2>2. CASE Locks!SignalAndEnd(p)
    <3>1. /\ UNCHANGED <<mode, mem, fd, disk, kept>>
          /\ \A r \in Processes : pc'[r] \in {"gone", "leaving", pc[r]} /\ (pc[r] = "again" => pc'[r] = "again")
        BY <2>2, SignalMoves DEF Dies, Locks!Fatal
    <3>2. past' = [past EXCEPT !.killed = IF Dies(p) THEN @ \cup {target[p]} ELSE @]
        BY <2>2, SignalMoves
    <3>3. Dies(p) => target[p] \in Processes
        BY <2>2, SignalMoves DEF LockInv, LockType, Dies
    <3>4. Later
        BY <3>2, <3>3, <1>f DEF Past, Later
    <3>5. FileType'
        BY <3>1, <3>4 DEF FileInv, FileType, Later
    <3> QED BY <3>1, <3>4, <3>5, FilesStay DEF Writing, Locks!Saving
  <2>3. CASE Locks!Up(p)
    <3>1. /\ UNCHANGED <<mode, fd, disk, kept>> /\ pc[p] = "starting"
          /\ pc' = [pc EXCEPT ![p] = "up"]
        BY <2>3 DEF Locks!Up, Locks!Goes, Locks!chosen
    <3>2. CASE mode # "launcher"
      <4>1. UNCHANGED <<mem, past>>
          BY <2>3, <3>2 DEF Locks!Up
      <4>2. FileType' /\ Later
          BY <3>1, <4>1 DEF FileInv, FileType, Later
      <4>3. ASSUME Worth', NEW q \in Processes PROVE SaveSoFar(q)'
          BY <3>1, <3>2, <4>1, <4>2, <4>3, StaysWorth DEF SaveSoFar, FileInv, LockInv, LockType, Writing, Locks!Saving,
                AtLeast, Locks!Empty, Locks!Whole, Locks!NoRows
      <4>4. ASSUME Worth' PROVE KeptInFile'
          BY <3>1, <4>1, <4>2, <4>4, StaysWorth DEF FileInv, KeptInFile, AtLeast, Locks!NoRows, LockInv, LockType
      <4>5. ASSUME Worth' PROVE \A q, r \in Processes : pc'[q] \in Writing /\ pc'[r] \in Writing => q = r
          BY <3>1, <4>2, <4>5, StaysWorth DEF FileInv, LockInv, LockType, Writing, Locks!Saving
      <4> QED BY <3>1, <3>2, <4>1, <4>2, <4>3, <4>4, <4>5 DEF FileInv
    <3>3. CASE mode = "launcher"
      <4>1. PICK rows \in {Locks!WhatIsSaved, Locks!NoRows} :
                mem' = [mem EXCEPT ![p] = rows] /\ past' = Locks!Having(Locks!Misses(rows))
          BY <2>3, <3>3 DEF Locks!Up, Locks!Reads
      <4>2. Locks!WhatIsSaved \in Row /\ rows \in Row
          BY <4>1 DEF FileInv, FileType, Locks!WhatIsSaved, Row, Locks!NoRows
      <4>3. Later /\ (past'.forgotten \/ rows = Locks!WhatIsSaved)
        <5>1. Locks!Misses(rows) \in BOOLEAN
            BY DEF Locks!Misses
        <5> QED BY <4>1, <5>1, <1>f DEF Past, Later, Locks!Having, Locks!Misses
      <4>4. FileType'
          BY <3>1, <4>1, <4>2, <4>3 DEF FileInv, FileType, Later
      <4>5. ASSUME NEW q \in Processes, q # p PROVE pc'[q] = pc[q] /\ mem'[q] = mem[q]
          BY <3>1, <4>1, <4>5 DEF FileInv, FileType, LockInv, LockType
      <4>6. ASSUME Worth' PROVE Worth /\ rows = Locks!WhatIsSaved /\ \A q \in Processes : pc[q] # "again"
        <5>1. Worth /\ Locks!Alone
            BY <4>3, <4>6, <3>1, StaysWorth DEF FileInv, Worth
        <5>2. rows = Locks!WhatIsSaved
            BY <4>3, <4>6 DEF Worth, Locks!Told
        <5>3. ASSUME NEW q \in Processes, pc[q] = "again" PROVE FALSE
            BY <3>1, <3>3, <5>1, <5>3, LauncherAlone DEF Holding, Named
        <5> QED BY <5>1, <5>2, <5>3
      <4>7. ASSUME Worth', NEW q \in Processes PROVE SaveSoFar(q)'
        <5>1. CASE q = p
            BY <3>1, <4>1, <4>2, <4>6, <4>7, <5>1, ReadKeeps DEF SaveSoFar, LockInv, LockType, FileInv, FileType, Writing,
                  Locks!Saving, AtLeast
        <5>2. CASE q # p
            BY <3>1, <4>5, <4>6, <4>7, <5>2 DEF SaveSoFar, FileInv, Writing, Locks!Saving, AtLeast, Locks!Empty,
                  Locks!Whole, Locks!NoRows
        <5> QED BY <5>1, <5>2
      <4>8. ASSUME Worth' PROVE KeptInFile'
          BY <3>1, <4>6, <4>8 DEF FileInv, KeptInFile, AtLeast, Locks!NoRows
      <4>9. ASSUME Worth' PROVE \A q, r \in Processes : pc'[q] \in Writing /\ pc'[r] \in Writing => q = r
          BY <3>1, <4>6, <4>9 DEF FileInv, LockInv, LockType, Writing, Locks!Saving
      <4>10. (mode = "launcher" /\ Locks!Alone => ~past.overlap)'
          BY <3>1, <4>3, StaysWorth DEF FileInv, Later
      <4> QED BY <3>1, <4>4, <4>7, <4>8, <4>9, <4>10 DEF FileInv
    <3> QED BY <3>2, <3>3
  <2> QED BY <1>1, <2>1, <2>2, <2>3, <2>4 DEF Locks!Main
<1>2. ASSUME NEW p \in Processes, NEW k \in Keys, Locks!Save(p, k) PROVE FileInv'
  <2>0. PICK rows \in {mem[p], Locks!WhatIsSaved, Locks!NoRows} :
          /\ UNCHANGED <<mode, fd, disk, kept>> /\ pc[p] = "up" /\ Locks!Told
          /\ pc' = [pc EXCEPT ![p] = "open"]
          /\ mode = "launcher" => rows = mem[p]
          /\ mode # "launcher" => mode = "dropdown"
          /\ mem' = [mem EXCEPT ![p] = Locks!Bumped(rows, k)]
          /\ past' = [Locks!Having(mode = "dropdown" /\ Locks!Misses(rows)) EXCEPT
                        !.overlap = @ \/ \E q \in Processes : pc[q] \in Writing]
      BY <1>2 DEF Locks!Save, Locks!Goes, Locks!chosen, Writing, Locks!Reads
  <2>1. /\ past' \in Past /\ past'.overlap = (\E q \in Processes : pc[q] \in Writing)
        /\ past'.unlocked = past.unlocked
        /\ past'.forgotten \/ mode = "launcher" \/ rows = Locks!WhatIsSaved
    <3>1. (mode = "dropdown" /\ Locks!Misses(rows)) \in BOOLEAN
          /\ (\E q \in Processes : pc[q] \in Writing) \in BOOLEAN /\ ~past.overlap /\ ~past.forgotten
        BY <2>0 DEF Locks!Misses, Locks!Told
    <3> HIDE DEF Writing
    <3> QED BY <2>0, <3>1, <1>f DEF Past, Locks!Having, Locks!Misses
  <2>t. Locks!WhatIsSaved \in Row /\ rows \in Row
      BY DEF FileInv, FileType, Locks!WhatIsSaved, Row, Locks!NoRows
  <2>5. ASSUME mode = "launcher", Locks!Alone, NEW q \in Processes PROVE pc[q] \notin Writing
      BY <2>0, <2>5, LauncherAlone DEF Holding, Named, Writing, Locks!Saving
  <2>w. ASSUME Worth' PROVE Worth /\ \A q \in Processes : pc[q] \notin Writing
      BY <2>0, <2>1, <2>w DEF Worth, Locks!Alone, Locks!Told
  <2>2. ASSUME Worth' PROVE AtLeast(rows, kept)
    <3>1. CASE mode = "launcher"
        BY <2>0, <2>w, <2>2, <3>1 DEF FileInv, SaveSoFar
    <3>2. CASE mode # "launcher"
      <4>1. rows = Locks!WhatIsSaved
          BY <2>1, <2>2, <3>2 DEF Worth, Locks!Told
      <4>2. \A q \in Processes : pc[q] # "again"
          BY <2>w, <2>2 DEF Writing, Locks!Saving
      <4> QED BY <2>w, <2>2, <4>1, <4>2, ReadKeeps
    <3> QED BY <3>1, <3>2
  <2>3. Locks!Bumped(rows, k) \in Row /\ (Worth' => AtLeast(Locks!Bumped(rows, k), kept))
      BY <2>2, <2>t DEF Locks!Bumped, Row, AtLeast, FileInv, FileType
  <2>4. FileType'
      BY <2>0, <2>1, <2>3 DEF FileInv, FileType
  <2>6. ASSUME Worth', NEW q \in Processes PROVE SaveSoFar(q)'
    <3>1. CASE q = p
        BY <2>0, <2>3, <2>6, <3>1 DEF SaveSoFar, FileInv, FileType, LockInv, LockType, AtLeast
    <3>2. CASE q # p
        BY <2>0, <2>w, <2>6, <3>2 DEF SaveSoFar, FileInv, FileType, LockInv, LockType, Writing, Locks!Saving, AtLeast
    <3> QED BY <3>1, <3>2
  <2>7. ASSUME Worth', NEW q \in Processes, pc'[q] \in Writing PROVE q = p
      BY <2>0, <2>w, <2>7 DEF LockInv, LockType
  <2>8. ASSUME Worth' PROVE KeptInFile'
    <3>1. \A q \in Processes : pc[q] # "again"
        BY <2>w, <2>8 DEF Writing, Locks!Saving
    <3> QED BY <2>0, <2>w, <2>8, <3>1 DEF FileInv, KeptInFile, AtLeast, Locks!NoRows
  <2>9. (disk.tmp # None => disk.tmp # disk.path)'
      BY <2>0 DEF FileInv
  <2>11. (mode = "launcher" /\ Locks!Alone => ~past.overlap)'
      BY <2>0, <2>1, <2>5 DEF Locks!Alone
  <2>10. Worth' => \A q, r \in Processes : pc'[q] \in Writing /\ pc'[r] \in Writing => q = r
      BY <2>7
  <2> QED BY <2>4, <2>6, <2>8, <2>9, <2>10, <2>11 DEF FileInv, Writing, Locks!Saving
<1>3. ASSUME NEW p \in Processes, Locks!OpenTmp(p) PROVE FileInv'
  <2> DEFINE f == IF disk.tmp = None THEN Locks!Unnamed ELSE disk.tmp
  <2>1. /\ UNCHANGED <<mode, mem, kept, past>> /\ pc[p] = "open"
        /\ pc' = [pc EXCEPT ![p] = "write"]
        /\ fd' = [fd EXCEPT ![p] = f]
        /\ disk' = [disk EXCEPT !.tmp = f, !.data[f] = Locks!Empty]
      BY <1>3 DEF Locks!OpenTmp, Locks!Goes, Locks!chosen
  <2>2. f \in {1, 2} /\ f # disk.path /\ f # None
    <3>1. \E g \in 1..2 : g # disk.path
        OBVIOUS
    <3>2. Locks!Unnamed \in 1..2 /\ Locks!Unnamed # disk.path
        BY <3>1 DEF Locks!Unnamed
    <3> QED BY <3>2, ProcessesAssumption DEF FileInv, FileType
  <2> HIDE DEF f
  <2>3. Locks!Empty \in [is : {"empty", "whole", "torn"}, rows : Row]
      BY DEF Locks!Empty, Locks!NoRows, Row
  <2>4. /\ FileType'
        /\ disk'.path = disk.path /\ disk'.tmp = f /\ disk'.data[f] = Locks!Empty
        /\ disk.path # None => disk'.data[disk.path] = disk.data[disk.path]
    <3>1. FileType' /\ disk'.path = disk.path /\ disk'.tmp = f
        BY <2>1, <2>2, <2>3 DEF FileInv, FileType
    <3>2. disk'.data = [disk.data EXCEPT ![f] = Locks!Empty]
        BY <2>1 DEF FileInv, FileType
    <3> QED BY <2>2, <3>1, <3>2 DEF FileInv, FileType
  <2>w. ASSUME Worth' PROVE Worth
      BY <2>1, <2>w DEF Worth, Locks!Alone, Locks!Told
  <2>5. ASSUME Worth' PROVE KeptInFile'
      BY <2>1, <2>4, <2>5, <2>w, Firm DEF KeptInFile, AtLeast, Locks!NoRows
  <2>6. ASSUME Worth' PROVE SaveSoFar(p)'
      BY <2>1, <2>2, <2>4, <2>6, <2>w DEF FileInv, FileType, LockInv, LockType, SaveSoFar, Writing, Locks!Saving, AtLeast,
                              Locks!Empty, Locks!NoRows
  <2> QED BY <2>1, <2>2, <2>4, <2>5, <2>6, <1>f, SaveGoesOn, LaterKept DEF Writing, Locks!Saving
<1>4. ASSUME NEW p \in Processes, Locks!Write(p) PROVE FileInv'
  <2>1. /\ UNCHANGED <<mode, mem, fd, kept, past>> /\ pc[p] = "write"
        /\ pc' = [pc EXCEPT ![p] = "rename"]
        /\ disk' = [disk EXCEPT !.data[fd[p]] = IF @ = Locks!Empty THEN Locks!Whole(mem[p]) ELSE Locks!Torn]
      BY <1>4 DEF Locks!Write, Locks!Goes, Locks!chosen
  <2>2. /\ Locks!Whole(mem[p]) \in [is : {"empty", "whole", "torn"}, rows : Row]
        /\ Locks!Torn \in [is : {"empty", "whole", "torn"}, rows : Row]
      BY DEF Locks!Whole, Locks!Torn, Locks!NoRows, Row, FileInv, FileType
  <2>3. FileType' /\ disk'.path = disk.path /\ disk'.tmp = disk.tmp
      BY <2>1, <2>2 DEF FileInv, FileType
  <2>w. ASSUME Worth' PROVE Worth
      BY <2>1, <2>w DEF Worth, Locks!Alone, Locks!Told
  <2>4. ASSUME Worth
        PROVE  /\ disk'.data[disk.tmp] = Locks!Whole(mem[p]) /\ disk.tmp # None
               /\ disk.path # None => disk'.data[disk.path] = disk.data[disk.path]
    <3>1. fd[p] = disk.tmp /\ disk.tmp # None /\ disk.data[disk.tmp] = Locks!Empty /\ disk.tmp # disk.path
        BY <2>1, <2>4 DEF FileInv, SaveSoFar
    <3> QED BY <2>1, <3>1 DEF FileInv, FileType
  <2>5. ASSUME Worth' PROVE KeptInFile'
      BY <2>1, <2>3, <2>4, <2>5, <2>w, Firm DEF KeptInFile, AtLeast, Locks!NoRows
  <2>6. ASSUME Worth' PROVE SaveSoFar(p)'
      BY <2>1, <2>3, <2>4, <2>6, <2>w DEF FileInv, FileType, LockInv, LockType, SaveSoFar, Writing, Locks!Saving, AtLeast,
                              Locks!Whole
  <2> QED BY <2>1, <2>3, <2>5, <2>6, <1>f, SaveGoesOn, LaterKept DEF FileInv, Writing, Locks!Saving
<1>5. ASSUME NEW p \in Processes, Locks!WriteFails(p) PROVE FileInv'
  <2>1. PICK to \in {Locks!Saved, "gone"} : pc' = [pc EXCEPT ![p] = to]
      BY <1>5 DEF Locks!WriteFails
  <2>2. /\ UNCHANGED <<mode, kept, past>> /\ pc[p] = "write"
        /\ mem' = [mem EXCEPT ![p] = Locks!NoRows] /\ fd' = [fd EXCEPT ![p] = None]
        /\ disk' = [disk EXCEPT !.data[fd[p]] = Locks!Torn]
      BY <1>5 DEF Locks!WriteFails, Locks!Forgets, Locks!chosen
  <2>3. Locks!Torn \in [is : {"empty", "whole", "torn"}, rows : Row] /\ Locks!NoRows \in Row
      BY DEF Locks!Torn, Locks!NoRows, Row
  <2>4. FileType' /\ disk'.path = disk.path /\ disk'.tmp = disk.tmp
      BY <2>2, <2>3 DEF FileInv, FileType
  <2>w. ASSUME Worth' PROVE Worth
      BY <2>2, <2>w DEF Worth, Locks!Alone, Locks!Told
  <2>5. ASSUME Worth
        PROVE  disk.path # None => disk'.data[disk.path] = disk.data[disk.path]
      BY <2>2, <2>5 DEF FileInv, FileType, SaveSoFar
  <2>6. ASSUME Worth' PROVE KeptInFile'
      BY <2>2, <2>4, <2>5, <2>6, <2>w, Firm DEF KeptInFile, AtLeast, Locks!NoRows
  <2>7. ASSUME Worth' PROVE SaveSoFar(p)'
      BY <2>1, <2>2, <2>7, <2>w, DoneSoFar
  <2> QED BY <2>1, <2>2, <2>4, <2>6, <2>7, <1>f, SaveGoesOn, LaterKept DEF FileInv, Writing, Locks!Saving
<1>6. ASSUME NEW p \in Processes, Locks!Rename(p) PROVE FileInv'
  <2>1. /\ UNCHANGED <<mode, past>> /\ pc[p] \in {"rename", "again"} /\ disk.tmp # None
        /\ pc' = [pc EXCEPT ![p] = Locks!Saved]
        /\ mem' = [mem EXCEPT ![p] = Locks!NoRows] /\ fd' = [fd EXCEPT ![p] = None]
        /\ disk' = [disk EXCEPT !.path = disk.tmp, !.tmp = None]
        /\ kept' = IF past.overlap THEN kept ELSE [k \in Keys |-> Locks!Larger(kept[k], mem[p][k])]
      BY <1>6 DEF Locks!Rename, Locks!Goes, Locks!chosen, Locks!Reported, Locks!Forgets
  <2>2. Locks!NoRows \in Row
      BY DEF Locks!NoRows, Row
  <2>3. FileType' /\ disk'.path = disk.tmp /\ disk'.tmp = None /\ disk'.data = disk.data
      BY <2>1, <2>2 DEF FileInv, FileType, Row, Locks!Larger
  <2>w. ASSUME Worth' PROVE Worth
      BY <2>1, <2>w DEF Worth, Locks!Alone, Locks!Told
  <2>4. ASSUME Worth' PROVE KeptInFile'
    <3>1. disk.data[disk.tmp] = Locks!Whole(mem[p]) /\ mem[p] \in Row /\ kept \in Row /\ AtLeast(mem[p], kept)
        BY <2>1, <2>4, <2>w DEF FileInv, FileType, SaveSoFar, Writing, Locks!Saving
    <3>2. \A k \in Keys : kept'[k] = mem[p][k]
        BY <2>1, <2>4, <2>w, <3>1 DEF Worth, Locks!Told, Locks!Larger, Row, AtLeast
    <3>3. disk'.data[disk'.path].is = "whole" /\ disk'.data[disk'.path].rows = mem[p]
        BY <2>3, <3>1 DEF Locks!Whole
    <3> QED BY <2>1, <2>3, <3>1, <3>2, <3>3 DEF KeptInFile, AtLeast, Row
  <2>5. ASSUME Worth' PROVE SaveSoFar(p)'
      BY <2>1, DoneSoFar
  <2> QED BY <2>1, <2>3, <2>4, <2>5, <1>f, SaveGoesOn, LaterKept DEF Writing, Locks!Saving
<1>7. ASSUME NEW p \in Processes, Locks!RenameFails(p) PROVE FileInv'
  <2>1. /\ UNCHANGED <<mode, mem, fd, kept>> /\ pc[p] = "rename"
        /\ pc' = [pc EXCEPT ![p] = "again"]
        /\ disk' \in {disk, [disk EXCEPT !.path = None]}
      BY <1>7 DEF Locks!RenameFails, Locks!Goes, Locks!chosen
  <2>2. Later
    <3>1. past.faults \in Nat
        BY <1>f DEF Past
    <3>2. past' \in {[past EXCEPT !.faults = past.faults + 1], [past EXCEPT !.faults = past.faults]}
        BY <1>7 DEF Locks!RenameFails
    <3> QED BY <1>f, <3>1, <3>2, LaterKept
  <2>3. /\ FileType' /\ disk'.tmp = disk.tmp /\ disk'.data = disk.data
        /\ disk'.path \in {disk.path, None}
      BY <2>1, <2>2 DEF FileInv, FileType, Later
  <2>w. ASSUME Worth' PROVE Worth
      BY <2>1, <2>2, <2>w, StaysWorth DEF FileInv
  <2>4. ASSUME Worth' PROVE KeptInFile'
    <3>1. pc'[p] = "again"
        BY <2>1 DEF LockInv, LockType
    <3> QED BY <2>1, <2>3, <2>4, <2>w, <3>1, Firm DEF KeptInFile, AtLeast, Locks!NoRows
  <2>5. ASSUME Worth' PROVE SaveSoFar(p)'
      BY <2>1, <2>3, <2>5, <2>w DEF FileInv, FileType, LockInv, LockType, SaveSoFar, Writing, Locks!Saving, AtLeast,
                                    Locks!Whole
  <2> QED BY <2>1, <2>2, <2>3, <2>4, <2>5, SaveGoesOn DEF FileInv, Writing, Locks!Saving
<1>11. ASSUME NEW p \in Processes, Locks!RenameFailsAgain(p) PROVE FileInv'
  <2>1. /\ UNCHANGED <<mode, kept, disk>> /\ pc[p] = "again"
        /\ pc' = [pc EXCEPT ![p] = Locks!Saved]
        /\ mem' = [mem EXCEPT ![p] = Locks!NoRows] /\ fd' = [fd EXCEPT ![p] = None]
        /\ past' = [past EXCEPT !.forgotten = @ \/ Locks!Removed(p)]
      BY <1>11 DEF Locks!RenameFailsAgain, Locks!Goes, Locks!chosen, Locks!Forgets
  <2>2. Later /\ (Locks!Removed(p) => past'.forgotten)
      BY <2>1, <1>f, LaterKept DEF Locks!Removed
  <2>3. FileType'
    <3>1. Locks!NoRows \in Row
        BY DEF Locks!NoRows, Row
    <3> QED BY <2>1, <2>2, <3>1 DEF FileInv, FileType, Later
  <2>w. ASSUME Worth' PROVE Worth
      BY <2>1, <2>2, <2>w, StaysWorth DEF FileInv
  <2>4. ASSUME Worth' PROVE KeptInFile'
    <3>1. ~(disk.path = None /\ kept # Locks!NoRows)
        BY <2>1, <2>2, <2>4 DEF Worth, Locks!Told, Locks!Removed
    <3> QED BY <2>1, <2>4, <2>w, <3>1 DEF FileInv, KeptInFile, AtLeast, Locks!NoRows
  <2>5. ASSUME Worth' PROVE SaveSoFar(p)'
      BY <2>1, DoneSoFar
  <2> QED BY <2>1, <2>2, <2>3, <2>4, <2>5, SaveGoesOn DEF FileInv, Writing, Locks!Saving
<1>8. ASSUME NEW p \in Processes, Locks!Detach(p) PROVE FileInv'
  <2>1. UNCHANGED <<mode, mem, fd, disk, kept, past>> /\ pc' = [pc EXCEPT ![p] = "leaving"] /\ pc[p] # "again"
      BY <1>8 DEF Locks!Detach, Locks!Goes, Locks!chosen
  <2> QED BY <2>1, <1>f, FilesStay, LaterKept DEF FileInv, FileType, LockInv, LockType, Writing, Locks!Saving
<1>9. ASSUME NEW p \in Processes, Locks!End(p) PROVE FileInv'
  <2>1. /\ UNCHANGED <<mode, disk, kept>> /\ pc' = [pc EXCEPT ![p] = "gone"]
        /\ mem' = [mem EXCEPT ![p] = Locks!NoRows] /\ fd' = [fd EXCEPT ![p] = None]
        /\ past' = [past EXCEPT !.forgotten = @ \/ Locks!Removed(p)]
      BY <1>9 DEF Locks!End, Locks!Forgets, Locks!chosen
  <2>2. Locks!NoRows \in Row
      BY DEF Locks!NoRows, Row
  <2>3. Later /\ (Locks!Removed(p) => past'.forgotten)
      BY <2>1, <1>f, LaterKept DEF Locks!Removed
  <2>4. FileType'
      BY <2>1, <2>2, <2>3 DEF FileInv, FileType, Later
  <2> QED BY <2>1, <2>3, <2>4, FilesStay DEF FileInv, FileType, LockInv, LockType, Writing, Locks!Saving
<1>10. ASSUME NEW s \in Keys, Locks!Exec(s) PROVE FileInv'
    BY <1>10, <1>f, FilesStay, LaterKept DEF Locks!Exec, Locks!chosen, FileInv, FileType
<1> QED BY <1>0, <1>1, <1>2, <1>3, <1>4, <1>5, <1>6, <1>7, <1>8, <1>9, <1>10, <1>11
        DEF LocksStep, Locks!Next, Locks!Store

LEMMA FilesAlways == Spec => []FileInv
<1>1. FileInv /\ LockInv /\ [Next]_vars => FileInv'
    BY FileStep, PartSteps
<1> QED BY <1>1, FileInit, LockAlways, PTL DEF Spec

\* What a launcher or a dropdown's daemon reported saved is in the file, whole, whichever of any
\* number of processes are killed and whichever writes fail, unless two dropdowns saved at once.
THEOREM SavesStay == Spec => []SavesKept
<1>1. FileInv => SavesKept
    BY DEF FileInv, KeptInFile, AtLeast, SavesKept, Locks!SavesKept, Worth, Locks!Told
<1> QED BY <1>1, FilesAlways, PTL

-----------------------------------------------------------------------------
(* waylaunchctl and waylaunchd *)

In(e, s) == \E i \in 1..Len(s) : s[i] = e
Once(s) == \A i, j \in 1..Len(s) : s[i] = s[j] => i = j

\* Who is taken from the head of a queue is no longer in it.
LEMMA HeadLeaves ==
    ASSUME NEW S, NEW s \in Seq(S), s # <<>>, Once(s)
    PROVE  /\ Head(s) \in S /\ In(Head(s), s) /\ Tail(s) \in Seq(S) /\ Once(Tail(s))
           /\ \A e : In(e, Tail(s)) => In(e, s) /\ e # Head(s)
<1>1. /\ Len(s) \in Nat /\ Len(s) >= 1 /\ Head(s) = s[1] /\ Head(s) \in S /\ Tail(s) \in Seq(S)
      /\ Len(Tail(s)) = Len(s) - 1
      /\ \A i \in 1..(Len(s) - 1) : Tail(s)[i] = s[i + 1]
    OBVIOUS
<1>2. In(Head(s), s)
    BY <1>1 DEF In
<1>3. ASSUME NEW i \in 1..Len(Tail(s)), NEW j \in 1..Len(Tail(s)), Tail(s)[i] = Tail(s)[j] PROVE i = j
  <2>1. i + 1 \in 1..Len(s) /\ j + 1 \in 1..Len(s) /\ s[i + 1] = s[j + 1]
      BY <1>1, <1>3
  <2>2. i + 1 = j + 1
      BY <2>1 DEF Once
  <2> QED BY <1>1, <2>2
<1>4. ASSUME NEW e, NEW i \in 1..Len(Tail(s)), Tail(s)[i] = e PROVE In(e, s) /\ e # Head(s)
  <2>1. i + 1 \in 1..Len(s) /\ s[i + 1] = e /\ 1 \in 1..Len(s) /\ i + 1 # 1
      BY <1>1, <1>4
  <2>2. e # s[1]
      BY <2>1 DEF Once
  <2> QED BY <1>1, <2>1, <2>2 DEF In
<1> QED BY <1>1, <1>2, <1>3, <1>4 DEF Once, In

LEMMA LastJoins ==
    ASSUME NEW S, NEW s \in Seq(S), NEW e \in S, Once(s), ~In(e, s)
    PROVE  /\ Append(s, e) \in Seq(S) /\ Once(Append(s, e))
           /\ \A f : In(f, Append(s, e)) => In(f, s) \/ f = e
BY DEF Once, In

ControlType ==
    /\ daemon \in [Daemons -> {"new", "locked", "bound", "serving", "stopping", "joined", "unlinked", "over"}]
    /\ locked \in Daemons \cup {None}
    /\ path \in Daemons \cup {None}
    /\ thread \in [Daemons -> [at : {"off", "wait", "read", "done"}, client : Clients \cup {None}]]
    /\ backlog \in [Daemons -> Seq(Clients)]
    /\ client \in [Clients -> {"new", "unreachable", "connected", "sent", "cut", "ok", "silent"}]
    /\ talks \in [Clients -> Daemons \cup {None}]
    /\ reply \in [Clients -> {"none", "ok", "error"}]
    /\ handled \in [Clients -> {0, 1}]

\* The lock is let go of last, and the name taken after it and given up before it.
DaemonInv ==
    \A d \in Daemons :
        /\ daemon[d] \notin {"new", "over"} => locked = d
        /\ daemon[d] \in {"bound", "serving", "stopping", "joined"} => path = d
        /\ thread[d].at \in {"off", "wait"} <=> thread[d].client = None

Waits(c, d) == In(c, backlog[d])
Served(c, d) == c # None /\ thread[d].client = c

\* A client is in one place at a time, and its command is carried out when it leaves the last.
ClientInv ==
    /\ \A d \in Daemons : Once(backlog[d])
    /\ \A c \in Clients, d \in Daemons :
        /\ Waits(c, d) \/ Served(c, d) =>
             talks[c] = d /\ client[c] \in {"connected", "sent", "silent"} /\ reply[c] = "none"
        /\ Waits(c, d) \/ (Served(c, d) /\ thread[d].at = "read") => handled[c] = 0
        /\ ~(Waits(c, d) /\ Served(c, d))
        /\ Served(c, d) /\ thread[d].at = "done" => handled[c] = 1
    /\ \A c \in Clients :
        /\ reply[c] = "ok" \/ client[c] = "ok" => handled[c] = 1
        /\ handled[c] = 1 => client[c] \in {"sent", "silent", "ok"}
        /\ client[c] = "new" => reply[c] = "none"

ControlInv == ControlType /\ DaemonInv /\ ClientInv

LEMMA ControlStart == Init => ControlInv
BY DEF Init, Control!Init, Control!Off, Control!At, ControlInv, ControlType, DaemonInv, ClientInv, Waits, Served,
       In, Once

\* Of those who held a connection some may do no longer.
LEMMA FewerHeld ==
    ASSUME ClientInv, UNCHANGED <<client, talks, reply, handled>>,
           \A d \in Daemons : backlog'[d] \in {backlog[d], << >>},
           \A d \in Daemons : thread'[d] = thread[d] \/ thread'[d].client = None
    PROVE  ClientInv'
<1>1. \A d \in Daemons : Once(backlog'[d]) /\ \A c \in Clients : In(c, backlog'[d]) => In(c, backlog[d])
    BY DEF ClientInv, Once, In
<1> QED BY <1>1 DEF ClientInv, Waits, Served

LEMMA MainStep ==
    ASSUME ControlInv, NEW d \in Daemons, Control!Main(d)
    PROVE  ControlInv'
<1> USE DEF Control!clients, Control!Goes
<1>1. \/ /\ daemon[d] = "new" /\ UNCHANGED <<path, thread, backlog>>
         /\ \/ daemon' = [daemon EXCEPT ![d] = "locked"] /\ locked = None /\ locked' = d
            \/ daemon' = [daemon EXCEPT ![d] = "over"] /\ UNCHANGED locked
      \/ /\ daemon[d] = "locked" /\ UNCHANGED <<locked, thread, backlog>>
         /\ \/ daemon' = [daemon EXCEPT ![d] = "bound"] /\ path' = d
            \/ daemon' = [daemon EXCEPT ![d] = "unlinked"] /\ path' = None
      \/ /\ daemon[d] = "bound" /\ daemon' = [daemon EXCEPT ![d] = "serving"] /\ UNCHANGED <<locked, path, backlog>>
         /\ thread' = [thread EXCEPT ![d] = [at |-> "wait", client |-> None]]
      \/ /\ daemon[d] = "serving" /\ daemon' = [daemon EXCEPT ![d] = "stopping"]
         /\ UNCHANGED <<locked, path, thread, backlog>>
      \/ /\ daemon[d] = "stopping" /\ daemon' = [daemon EXCEPT ![d] = "joined"] /\ UNCHANGED <<locked, path, thread>>
         /\ backlog' = [backlog EXCEPT ![d] = << >>]
      \/ /\ daemon[d] = "joined" /\ daemon' = [daemon EXCEPT ![d] = "unlinked"] /\ UNCHANGED <<locked, thread, backlog>>
         /\ path' = None
      \/ /\ daemon[d] = "unlinked" /\ daemon' = [daemon EXCEPT ![d] = "over"] /\ UNCHANGED <<path, thread, backlog>>
         /\ locked' = None
      \/ /\ daemon[d] \notin {"new", "over"} /\ daemon' = [daemon EXCEPT ![d] = "over"] /\ UNCHANGED path
         /\ locked' = None /\ thread' = [thread EXCEPT ![d] = [at |-> "off", client |-> None]]
         /\ backlog' = [backlog EXCEPT ![d] = << >>]
    BY DEF Control!Main, Control!TakeLock, Control!FindTaken, Control!Bind, Control!BindFails, Control!StartThread,
           Control!Stop, Control!Join, Control!Unlink, Control!Unlock, Control!Killed, Control!At, Control!Off
<1>2. UNCHANGED <<client, talks, reply, handled>>
    BY DEF Control!Main, Control!TakeLock, Control!FindTaken, Control!Bind, Control!BindFails, Control!StartThread,
           Control!Stop, Control!Join, Control!Unlink, Control!Unlock, Control!Killed
<1>3. /\ \E to \in {"locked", "over", "bound", "unlinked", "serving", "stopping", "joined"} :
            daemon' = [daemon EXCEPT ![d] = to]
      /\ locked' \in {locked, d, None} /\ path' \in {path, d, None}
      /\ \E at \in {"wait", "off"} : thread' \in {thread, [thread EXCEPT ![d] = [at |-> at, client |-> None]]}
      /\ backlog' \in {backlog, [backlog EXCEPT ![d] = << >>]}
    BY <1>1
<1>4. ControlType'
  <2>1. PICK at \in {"wait", "off"} : thread' \in {thread, [thread EXCEPT ![d] = [at |-> at, client |-> None]]}
      BY <1>3
  <2>2. [at |-> at, client |-> None] \in [at : {"off", "wait", "read", "done"}, client : Clients \cup {None}]
      OBVIOUS
  <2>3. thread' \in [Daemons -> [at : {"off", "wait", "read", "done"}, client : Clients \cup {None}]]
      BY <2>1, <2>2 DEF ControlInv, ControlType
  <2>4. daemon' \in [Daemons -> {"new", "locked", "bound", "serving", "stopping", "joined", "unlinked", "over"}]
      BY <1>3 DEF ControlInv, ControlType
  <2>5. << >> \in Seq(Clients)
      OBVIOUS
  <2>6. backlog' \in [Daemons -> Seq(Clients)]
      BY <1>3, <2>5 DEF ControlInv, ControlType
  <2> QED BY <1>2, <1>3, <2>3, <2>4, <2>6 DEF ControlInv, ControlType
<1>5. DaemonInv'
  <2>1. \A e \in Daemons : thread'[e] = thread[e] \/ \E at \in {"wait", "off"} : thread'[e] = [at |-> at, client |-> None]
      BY <1>3 DEF ControlInv, ControlType
  <2>2. ASSUME NEW e \in Daemons, e # d
        PROVE  /\ daemon'[e] \notin {"new", "over"} => locked' = e
               /\ daemon'[e] \in {"bound", "serving", "stopping", "joined"} => path' = e
    <3>1. daemon'[e] = daemon[e]
        BY <1>3, <2>2 DEF ControlInv, ControlType
    <3> QED BY <1>1, <2>2, <3>1, ProcessesAssumption DEF ControlInv, DaemonInv
  <2>3. /\ daemon'[d] \notin {"new", "over"} => locked' = d
        /\ daemon'[d] \in {"bound", "serving", "stopping", "joined"} => path' = d
    <3>1. \A to : daemon' = [daemon EXCEPT ![d] = to] => daemon'[d] = to
        BY DEF ControlInv, ControlType
    <3> QED BY <1>1, <3>1 DEF ControlInv, DaemonInv
  <2> QED BY <2>1, <2>2, <2>3 DEF ControlInv, DaemonInv
<1>6. ClientInv'
    BY <1>2, <1>3, FewerHeld DEF ControlInv, ControlType
<1> QED BY <1>4, <1>5, <1>6 DEF ControlInv

LEMMA ServerStep ==
    ASSUME ControlInv, NEW d \in Daemons, Control!AcceptLoop(d)
    PROVE  ControlInv'
<1> USE DEF Control!Thread, Control!At
<1> DEFINE c == thread[d].client
<1>1. UNCHANGED <<daemon, locked, path, client, talks>>
    BY DEF Control!AcceptLoop, Control!Leave, Control!Accept, Control!Handle, Control!Refuse, Control!Answer
<1>2. CASE Control!Leave(d)
  <2>1. /\ thread' = [thread EXCEPT ![d] = [at |-> "off", client |-> None]]
        /\ UNCHANGED <<backlog, reply, handled>>
      BY <1>2 DEF Control!Leave, Control!Off
  <2>2. ControlType' /\ DaemonInv'
      BY <1>1, <2>1 DEF ControlInv, ControlType, DaemonInv
  <2> QED BY <1>1, <2>1, <2>2, FewerHeld DEF ControlInv, ControlType
<1>3. CASE Control!Accept(d)
  <2> DEFINE h == Head(backlog[d])
  <2>1. /\ backlog[d] # << >> /\ thread[d].client = None
        /\ thread' = [thread EXCEPT ![d] = [at |-> "read", client |-> h]]
        /\ backlog' = [backlog EXCEPT ![d] = Tail(backlog[d])]
        /\ UNCHANGED <<reply, handled>>
      BY <1>3 DEF Control!Accept
  <2>2. /\ h \in Clients /\ In(h, backlog[d]) /\ Tail(backlog[d]) \in Seq(Clients) /\ Once(Tail(backlog[d]))
        /\ \A e : In(e, Tail(backlog[d])) => In(e, backlog[d]) /\ e # h
      BY <2>1, HeadLeaves DEF ControlInv, ControlType, ClientInv
  <2> HIDE DEF h
  <2>3. ControlType'
      BY <1>1, <2>1, <2>2 DEF ControlInv, ControlType
  <2>4. DaemonInv'
      BY <1>1, <2>1, <2>2, ProcessesAssumption DEF ControlInv, ControlType, DaemonInv
  <2>5. ClientInv'
      BY <1>1, <2>1, <2>2, ProcessesAssumption DEF ControlInv, ControlType, ClientInv, Waits, Served
  <2> QED BY <2>3, <2>4, <2>5 DEF ControlInv
<1>4. CASE Control!Handle(d)
  <2>1. /\ c # None /\ thread[d] = [at |-> "read", client |-> c] /\ client[c] # "connected"
        /\ thread' = [thread EXCEPT ![d] = [at |-> "done", client |-> c]]
        /\ handled' = [handled EXCEPT ![c] = @ + 1]
        /\ UNCHANGED <<backlog, reply>>
      BY <1>4 DEF Control!Handle, Control!CarryOut
  <2>2. c \in Clients /\ handled[c] = 0
      BY <2>1, SMTT(30) DEF ControlInv, ControlType, ClientInv, Served
  <2> HIDE DEF c
  <2>3. ControlType' /\ handled' = [handled EXCEPT ![c] = 1]
      BY <1>1, <2>1, <2>2 DEF ControlInv, ControlType
  <2>4. DaemonInv'
      BY <1>1, <2>1 DEF ControlInv, ControlType, DaemonInv
  <2>5. ClientInv'
      BY <1>1, <2>1, <2>2, <2>3, ProcessesAssumption DEF ControlInv, ControlType, ClientInv, Waits, Served
  <2> QED BY <2>3, <2>4, <2>5 DEF ControlInv
<1>5. CASE Control!Refuse(d) \/ Control!Answer(d)
  <2>1. PICK word \in {"error", "ok"} :
            /\ thread[d] = [at |-> IF word = "ok" THEN "done" ELSE "read", client |-> c]
            /\ thread' = [thread EXCEPT ![d] = [at |-> "wait", client |-> None]]
            /\ reply' = [reply EXCEPT ![c] = word]
            /\ UNCHANGED <<backlog, handled>>
      BY <1>5 DEF Control!Refuse, Control!Answer
  <2>0. c = thread[d].client /\ c # None
      BY <1>5, <2>1 DEF Control!Refuse, Control!Answer, ControlInv, DaemonInv
  <2> HIDE DEF c
  <2>3. ControlType'
      BY <1>1, <2>1 DEF ControlInv, ControlType
  <2>4. DaemonInv'
      BY <1>1, <2>1 DEF ControlInv, ControlType, DaemonInv
  <2>5. ClientInv'
    <3>1. \A e \in Daemons : thread'[e] = IF e = d THEN [at |-> "wait", client |-> None] ELSE thread[e]
        BY <2>1 DEF ControlInv, ControlType
    <3>2. Served(c, d) /\ talks[c] = d /\ client[c] # "new" /\ c \in Clients
      <4>1. c \in Clients /\ Served(c, d)
          BY <2>0 DEF ControlInv, ControlType, Served
      <4> QED BY <4>1 DEF ControlInv, ClientInv
    <3>3. word = "ok" => handled[c] = 1
        BY <2>1, <3>2 DEF ControlInv, ClientInv
    <3>4. \A b \in Clients : reply'[b] = IF b = c THEN word ELSE reply[b]
        BY <2>1 DEF ControlInv, ControlType
    <3>5. ASSUME NEW b \in Clients, NEW e \in Daemons, Waits(b, e) \/ Served(b, e)'
          PROVE  b # c /\ (Served(b, e)' => Served(b, e) /\ e # d)
        BY <3>1, <3>2, <3>5 DEF ControlInv, ClientInv, Served
    <3> QED BY <1>1, <2>1, <3>1, <3>2, <3>3, <3>4, <3>5 DEF ControlInv, ClientInv, Waits, Served
  <2> QED BY <2>3, <2>4, <2>5 DEF ControlInv
<1> QED BY <1>2, <1>3, <1>4, <1>5 DEF Control!AcceptLoop

LEMMA CtlStep ==
    ASSUME ControlInv, NEW c \in Clients, Control!Control(c)
    PROVE  ControlInv'
<1>1. UNCHANGED <<daemon, locked, path, thread, reply, handled>>
    BY DEF Control!Control, Control!Connect, Control!CannotReach, Control!Send, Control!SendBroken,
           Control!Told, Control!Silent, Control!Ctl
<1>2. CASE Control!Connect(c)
  <2>1. /\ client[c] = "new" /\ client' = [client EXCEPT ![c] = "connected"]
        /\ path \in Daemons
        /\ talks' = [talks EXCEPT ![c] = path]
        /\ backlog' = [backlog EXCEPT ![path] = Append(backlog[path], c)]
      BY <1>2 DEF Control!Connect, Control!Reachable, Control!Ctl, ControlInv, ControlType
  <2>2. \A d \in Daemons : ~Waits(c, d) /\ ~Served(c, d)
      BY <2>1 DEF ControlInv, ClientInv
  <2>3. /\ Append(backlog[path], c) \in Seq(Clients) /\ Once(Append(backlog[path], c))
        /\ \A e : In(e, Append(backlog[path], c)) => In(e, backlog[path]) \/ e = c
      BY <2>1, <2>2, LastJoins DEF ControlInv, ControlType, ClientInv, Waits
  <2>4. ControlType'
      BY <1>1, <2>1, <2>3 DEF ControlInv, ControlType
  <2>5. handled[c] = 0 /\ reply[c] # "ok"
      BY <2>1 DEF ControlInv, ControlType, ClientInv
  <2>6. ClientInv'
      BY <1>1, <2>1, <2>2, <2>3, <2>5 DEF ControlInv, ControlType, ClientInv, Waits, Served
  <2> QED BY <1>1, <2>4, <2>6 DEF ControlInv, DaemonInv
<1>3. CASE ~Control!Connect(c)
  <2>1. /\ UNCHANGED <<talks, backlog>>
        /\ \/ client[c] = "new" /\ client' = [client EXCEPT ![c] = "unreachable"]
           \/ client[c] = "connected" /\ client' = [client EXCEPT ![c] = "sent"]
           \/ client[c] = "connected" /\ ~Control!Held(c) /\ client' = [client EXCEPT ![c] = "cut"]
           \/ client[c] = "sent" /\ reply[c] = "ok" /\ client' = [client EXCEPT ![c] = "ok"]
           \/ client[c] = "sent" /\ reply[c] = "none" /\ client' = [client EXCEPT ![c] = "silent"]
      BY <1>3 DEF Control!Control, Control!Connect, Control!CannotReach, Control!Send, Control!SendBroken,
                  Control!Told, Control!Silent, Control!Ctl
  <2>2. ControlType'
      BY <1>1, <2>1 DEF ControlInv, ControlType
  <2>3. ASSUME NEW d \in Daemons, Waits(c, d) \/ Served(c, d) PROVE Control!Held(c)
      BY <2>3 DEF ControlInv, ClientInv, Waits, Served, In, Control!Held, Control!Contains
  <2>4. ClientInv'
    <3>1. \A b \in Clients : b # c => client'[b] = client[b]
        BY <2>1 DEF ControlInv, ControlType
    <3>2. \E to : client' = [client EXCEPT ![c] = to]
        BY <2>1
    <3>3. \A d \in Daemons : Waits(c, d) \/ Served(c, d) => client'[c] \in {"sent", "silent"}
        BY <1>1, <2>1, <2>3 DEF ControlInv, ControlType, ClientInv
    <3>4. /\ client'[c] = "ok" => handled[c] = 1
          /\ handled[c] = 1 => client'[c] \in {"sent", "silent", "ok"}
          /\ client'[c] # "new"
        BY <2>1 DEF ControlInv, ControlType, ClientInv
    <3>5. ASSUME NEW b \in Clients, NEW d \in Daemons, Waits(b, d) \/ Served(b, d)
          PROVE  talks[b] = d /\ client'[b] \in {"connected", "sent", "silent"} /\ reply[b] = "none"
        BY <3>1, <3>3, <3>5 DEF ControlInv, ClientInv
    <3>6. ASSUME NEW b \in Clients
          PROVE  /\ client'[b] = "ok" => handled[b] = 1
                 /\ handled[b] = 1 => client'[b] \in {"sent", "silent", "ok"}
                 /\ client'[b] = "new" => reply[b] = "none"
        BY <3>1, <3>4 DEF ControlInv, ClientInv
    <3> QED BY <1>1, <2>1, <3>5, <3>6 DEF ControlInv, ClientInv, Waits, Served
  <2> QED BY <1>1, <2>2, <2>4 DEF ControlInv, DaemonInv
<1> QED BY <1>2, <1>3

LEMMA ControlStep == ControlInv /\ (Control!Next \/ UNCHANGED control) => ControlInv'
<1>1. ControlInv /\ UNCHANGED control => ControlInv'
    BY DEF control, ControlInv, ControlType, DaemonInv, ClientInv, Waits, Served
<1> QED BY <1>1, MainStep, ServerStep, CtlStep DEF Control!Next

LEMMA ControlAlways == Spec => []ControlInv
BY ControlStart, ControlStep, PartSteps, PTL DEF Spec

\* What waylaunchctl says of its command is true, and the socket's name is that of the daemon that
\* serves, for any number of daemons killed at any moment and of clients at any stage with them.
THEOREM ControlTold == Spec => []ControlTrue
<1>1. ControlInv => ControlTrue
  <2>1. ControlInv => Control!AnswerTrue
    <3>1. ASSUME ControlInv, NEW c \in Clients
          PROVE  handled[c] <= 1 /\ (client[c] = "ok" => handled[c] = 1)
                 /\ (client[c] \in {"unreachable", "cut"} => handled[c] = 0)
      <4>1. handled[c] \in {0, 1}
          BY <3>1 DEF ControlInv, ControlType
      <4> QED BY <3>1, <4>1 DEF ControlInv, ClientInv
    <3> QED BY <3>1 DEF Control!AnswerTrue
  <2>2. ControlInv => Control!PathNamesDaemon
      BY DEF ControlInv, DaemonInv, Control!PathNamesDaemon
  <2> QED BY <2>1, <2>2 DEF ControlTrue
<1> QED BY <1>1, ControlAlways, PTL

-----------------------------------------------------------------------------
(* Subprocess::run *)

RunType ==
    /\ run \in [at : {"idle", "loop", "wait", "done"}, todo : Nat, open : SUBSET Run!Streams,
                got : [Run!Outputs -> Nat], error : BOOLEAN, code : {"none", "not run", "exited", "killed"}]
    /\ pipes \in [Run!Streams -> Nat]
    /\ kid \in [is : {"none", "runs", "hangs", "closed", "stuck", "exited", "killed", "reaped"},
                reads : BOOLEAN, owes : {0, 1}, wrote : [Run!Outputs -> Nat]]

\* Nothing that was written is lost on the way, and a descriptor is closed without an error only
\* when there is nothing more to come, or to send.
RunInv ==
    /\ RunType
    /\ \A s \in Run!Outputs : run.got[s] + pipes[s] = kid.wrote[s]
    /\ run.at = "idle" => kid = Run!NoKid
    /\ run.at # "done" => run.code = "none"
    /\ run.at # "loop" => run.open = {}
    /\ run.at = "done" /\ run.code # "not run" => kid.is = "reaped"
    /\ run.at # "idle" /\ run.code # "not run" /\ ~run.error =>
         /\ "in" \notin run.open => run.todo = 0
         /\ \A s \in Run!Outputs : s \notin run.open => pipes[s] = 0 /\ kid.is \notin {"runs", "hangs"}

LEMMA RunInit == Init => RunInv
BY DEF Init, Run!Init, Run!NoOutput, Run!NoKid, Run!Outputs, Run!Streams, RunInv, RunType

LEMMA CallStep ==
    ASSUME RunInv, Run!Runs
    PROVE  RunInv'
<1> USE DEF Run!Outputs, Run!Streams, Run!Polling
<1>1. CASE Run!LoopEnds
    BY <1>1 DEF Run!LoopEnds, RunInv, RunType
<1>2. CASE Run!Reap
  <2>1. /\ run.at = "wait" /\ kid.is \in {"exited", "killed"} /\ UNCHANGED pipes
        /\ run' = [run EXCEPT !.at = "done", !.code = kid.is]
        /\ kid' = [kid EXCEPT !.is = "reaped"]
      BY <1>2 DEF Run!Reap
  <2>2. RunType'
      BY <2>1 DEF RunInv, RunType
  <2>3. /\ run'.at = "done" /\ UNCHANGED <<run.todo, run.open, run.got, run.error>>
        /\ kid'.is = "reaped" /\ UNCHANGED kid.wrote /\ run.code = "none"
      BY <2>1 DEF RunInv, RunType
  <2> QED BY <2>1, <2>2, <2>3 DEF RunInv
<1>3. CASE Run!WriteInput
  <2> DEFINE n == IF run.todo <= Capacity - pipes["in"] THEN run.todo ELSE Capacity - pipes["in"]
  <2>1. /\ run.at = "loop" /\ UNCHANGED <<kid, heir>> /\ n > 0
        /\ pipes' = [pipes EXCEPT !["in"] = @ + n]
        /\ run' = [run EXCEPT !.todo = @ - n, !.open = IF n = run.todo THEN @ \ {"in"} ELSE @]
      BY <1>3 DEF Run!WriteInput
  <2>2. n \in Nat /\ run.todo - n \in Nat
    <3>1. run.todo \in Nat /\ pipes["in"] \in Nat
        BY DEF RunInv, RunType
    <3> QED BY <2>1, <3>1, ProcessesAssumption
  <2> HIDE DEF n
  <2>3. /\ run'.todo = run.todo - n /\ run'.open = (IF n = run.todo THEN run.open \ {"in"} ELSE run.open)
        /\ UNCHANGED <<run.at, run.got, run.error, run.code>>
        /\ \A s \in Run!Outputs : pipes'[s] = pipes[s]
      BY <2>1 DEF RunInv, RunType
  <2>4. pipes' \in [Run!Streams -> Nat]
    <3>0. pipes \in [Run!Streams -> Nat]
        BY DEF RunInv, RunType
    <3>1. pipes["in"] + n \in Nat
        BY <2>2, <3>0
    <3> QED BY <2>1, <3>0, <3>1
  <2>5. run' \in [at : {"idle", "loop", "wait", "done"}, todo : Nat, open : SUBSET Run!Streams,
                   got : [Run!Outputs -> Nat], error : BOOLEAN, code : {"none", "not run", "exited", "killed"}]
      BY <2>1, <2>2 DEF RunInv, RunType
  <2>6. RunType'
      BY <2>1, <2>4, <2>5 DEF RunInv, RunType
  <2>7. "in" \in run.open /\ run.todo \in Nat
      BY <1>3 DEF Run!WriteInput, RunInv, RunType
  <2>8. /\ "in" \notin run'.open => run'.todo = 0
        /\ \A s \in Run!Outputs : s \notin run'.open => s \notin run.open
      BY <2>3, <2>7
  <2> QED BY <2>1, <2>3, <2>6, <2>7, <2>8 DEF RunInv
<1>4. CASE Run!InputBroken
    BY <1>4 DEF Run!InputBroken, RunInv, RunType
<1>5. ASSUME NEW s \in Run!Outputs, Run!ReadOutput(s) PROVE RunInv'
  <2>1. /\ run.at = "loop" /\ s \in run.open /\ UNCHANGED <<kid, heir>>
        /\ run' = [run EXCEPT !.got[s] = @ + pipes[s]]
        /\ pipes' = [pipes EXCEPT ![s] = 0]
      BY <1>5 DEF Run!ReadOutput
  <2>2. /\ run'.got = [run.got EXCEPT ![s] = @ + pipes[s]]
        /\ UNCHANGED <<run.at, run.todo, run.open, run.error, run.code>>
      BY <2>1 DEF RunInv, RunType
  <2>3. run'.got \in [Run!Outputs -> Nat] /\ pipes' \in [Run!Streams -> Nat]
      BY <2>1, <2>2, ZenonT(30) DEF RunInv, RunType
  <2>4. run' = [at |-> run.at, todo |-> run.todo, open |-> run.open, got |-> run'.got,
                error |-> run.error, code |-> run.code]
      BY <2>1, <2>2 DEF RunInv, RunType
  <2>5. RunType'
      BY <2>1, <2>3, <2>4 DEF RunInv, RunType
  <2>6. ASSUME NEW t \in Run!Outputs PROVE run'.got[t] + pipes'[t] = kid.wrote[t]
    <3>1. run.got[t] \in Nat /\ pipes[t] \in Nat /\ run.got[t] + pipes[t] = kid.wrote[t]
        BY DEF RunInv, RunType
    <3>2. /\ run'.got[t] = IF t = s THEN run.got[s] + pipes[s] ELSE run.got[t]
          /\ pipes'[t] = IF t = s THEN 0 ELSE pipes[t]
        BY <2>1, <2>2 DEF RunInv, RunType
    <3> QED BY <3>1, <3>2
  <2>7. \A t \in Run!Outputs : t # s => pipes'[t] = pipes[t]
      BY <2>1 DEF RunInv, RunType
  <2> QED BY <2>1, <2>2, <2>5, <2>6, <2>7 DEF RunInv
<1>6. ASSUME NEW s \in Run!Outputs, Run!EndOfOutput(s) PROVE RunInv'
  <2>1. /\ run.at = "loop" /\ pipes[s] = 0 /\ kid.is \notin {"runs", "hangs"} /\ UNCHANGED <<pipes, kid>>
        /\ run' = [run EXCEPT !.open = @ \ {s}]
      BY <1>6 DEF Run!EndOfOutput, Run!Writers
  <2> QED BY <2>1 DEF RunInv, RunType
<1> QED BY <1>1, <1>2, <1>3, <1>4, <1>5, <1>6 DEF Run!Runs

\* What the child does, but for its writing, takes nothing from what it has said.
LEMMA KidKeeps ==
    ASSUME RunInv, RunType', UNCHANGED run, kid.is \notin {"none", "reaped"}, kid'.is # "none",
           kid'.wrote = kid.wrote, \A s \in Run!Outputs : pipes'[s] = pipes[s],
           kid'.is \in {"runs", "hangs"} => kid.is \in {"runs", "hangs"}
    PROVE  RunInv'
<1>1. Run!NoKid.is = "none"
    BY DEF Run!NoKid
<1>2. run.at # "idle" /\ ~(run.at = "done" /\ run.code # "not run")
    BY <1>1 DEF RunInv
<1> QED BY <1>2 DEF RunInv

LEMMA KidStep ==
    ASSUME RunInv,
           \/ Run!KidGoesOn \/ Run!KidClosesInput \/ Run!KidHasMore \/ Run!KidForks
           \/ Run!KidClosesOutputs \/ Run!KidDies \/ Run!KidHangs
    PROVE  RunInv'
<1> USE DEF Run!Outputs, Run!Streams, Run!KidRuns
<1>1. CASE Run!KidReads
  <2>1. PICK owes \in {0, 1} : kid' = [kid EXCEPT !.owes = owes]
      BY <1>1 DEF Run!KidReads
  <2>2. kid.is = "runs" /\ UNCHANGED run /\ pipes' = [pipes EXCEPT !["in"] = @ - 1] /\ pipes["in"] > 0
      BY <1>1 DEF Run!KidReads
  <2>3. pipes["in"] - 1 \in Nat
    <3>1. pipes["in"] \in Nat
        BY DEF RunInv, RunType
    <3> QED BY <2>2, <3>1
  <2>4. pipes' \in [Run!Streams -> Nat] /\ \A s \in Run!Outputs : pipes'[s] = pipes[s]
      BY <2>2, <2>3 DEF RunInv, RunType
  <2>5. RunType' /\ UNCHANGED <<kid.is, kid.wrote>>
      BY <2>1, <2>2, <2>4 DEF RunInv, RunType
  <2> QED BY <2>2, <2>4, <2>5, KidKeeps
<1>2. CASE Run!KidSeesEnd \/ Run!KidClosesInput \/ Run!KidHasMore \/ Run!KidForks \/ Run!KidClosesOutputs
    BY <1>2, KidKeeps DEF Run!KidSeesEnd, Run!KidClosesInput, Run!KidHasMore, Run!KidForks, Run!KidClosesOutputs,
                          RunInv, RunType
<1>3. CASE Run!KidExits \/ Run!KidDies \/ Run!KidHangs
    BY <1>3, KidKeeps DEF Run!KidExits, Run!KidDies, Run!KidHangs, Run!Alive, RunInv, RunType
<1>4. ASSUME NEW s \in Run!Outputs, Run!KidWrites(s) PROVE RunInv'
  <2>1. /\ kid.is = "runs" /\ UNCHANGED run
        /\ pipes' = [pipes EXCEPT ![s] = @ + 1]
        /\ kid' = [kid EXCEPT !.owes = 0, !.wrote[s] = @ + 1]
      BY <1>4 DEF Run!KidWrites
  <2>2. kid'.is = "runs" /\ UNCHANGED kid.reads /\ kid'.owes = 0 /\ kid'.wrote = [kid.wrote EXCEPT ![s] = @ + 1]
      BY <2>1 DEF RunInv, RunType
  <2>3. kid'.wrote \in [Run!Outputs -> Nat] /\ pipes' \in [Run!Streams -> Nat]
    <3>1. kid.wrote \in [Run!Outputs -> Nat] /\ pipes \in [Run!Streams -> Nat]
        BY DEF RunInv, RunType
    <3>2. kid.wrote[s] + 1 \in Nat /\ pipes[s] + 1 \in Nat
        BY <3>1
    <3> QED BY <2>1, <2>2, <3>1, <3>2
  <2>4. kid' = [is |-> "runs", reads |-> kid.reads, owes |-> 0, wrote |-> kid'.wrote]
      BY <2>1, <2>2 DEF RunInv, RunType
  <2>5. RunType'
      BY <2>1, <2>3, <2>4 DEF RunInv, RunType
  <2>6. ASSUME NEW t \in Run!Outputs PROVE run.got[t] + pipes'[t] = kid'.wrote[t]
    <3>1. run.got[t] \in Nat /\ pipes[t] \in Nat /\ run.got[t] + pipes[t] = kid.wrote[t]
        BY DEF RunInv, RunType
    <3>2. /\ kid'.wrote[t] = IF t = s THEN kid.wrote[s] + 1 ELSE kid.wrote[t]
          /\ pipes'[t] = IF t = s THEN pipes[s] + 1 ELSE pipes[t]
        BY <2>1, <2>2 DEF RunInv, RunType
    <3> QED BY <3>1, <3>2
  <2>7. run.at # "idle" /\ ~(run.at = "done" /\ run.code # "not run")
    <3>1. Run!NoKid.is = "none"
        BY DEF Run!NoKid
    <3> QED BY <2>1, <3>1 DEF RunInv
  <2>8. run.code # "not run" /\ ~run.error => \A t \in Run!Outputs : t \in run.open
      BY <2>1, <2>7 DEF RunInv
  <2> QED BY <2>1, <2>2, <2>5, <2>6, <2>7, <2>8 DEF RunInv
<1> QED BY <1>1, <1>2, <1>3, <1>4 DEF Run!KidGoesOn

LEMMA RunStep == RunInv /\ (Run!Next \/ UNCHANGED running) => RunInv'
<1> SUFFICES ASSUME RunInv, Run!Next \/ UNCHANGED running PROVE RunInv'
    OBVIOUS
<1> USE DEF Run!Outputs, Run!Streams
<1>1. CASE UNCHANGED running
    BY <1>1, ZenonT(30) DEF running, RunInv, RunType
<1>2. CASE Run!CannotSpawn
  <2>1. run' = [run EXCEPT !.at = "done", !.code = "not run"] /\ UNCHANGED <<pipes, kid>>
      BY <1>2 DEF Run!CannotSpawn
  <2>2. RunType' /\ run'.at = "done" /\ run'.code = "not run" /\ UNCHANGED run.got
      BY <2>1 DEF RunInv, RunType
  <2>3. run'.open = {}
      BY <1>2, <2>1 DEF Run!CannotSpawn, RunInv, RunType
  <2> QED BY <2>1, <2>2, <2>3 DEF RunInv
<1>3. ASSUME NEW n \in 0..MaxInput, Run!Spawn(n) PROVE RunInv'
  <2> DEFINE open == Run!Outputs \cup IF n = 0 THEN {} ELSE {"in"}
  <2>1. /\ run.at = "idle" /\ UNCHANGED pipes
        /\ run' = [run EXCEPT !.at = "loop", !.todo = n, !.open = open]
        /\ kid' = [Run!NoKid EXCEPT !.is = "runs", !.reads = TRUE]
      BY <1>3 DEF Run!Spawn
  <2>2. open \in SUBSET Run!Streams /\ n \in Nat /\ ("in" \notin open => n = 0)
        /\ \A s \in Run!Outputs : s \in open
      BY ProcessesAssumption
  <2> HIDE DEF open
  <2>3. /\ run'.at = "loop" /\ run'.todo = n /\ run'.open = open
        /\ UNCHANGED <<run.got, run.error, run.code>>
      BY <2>1 DEF RunInv, RunType
  <2>4. kid' = [is |-> "runs", reads |-> TRUE, owes |-> 0, wrote |-> Run!NoOutput] /\ kid'.wrote = kid.wrote
      BY <2>1 DEF Run!NoKid, RunInv
  <2>5. Run!NoOutput \in [Run!Outputs -> Nat]
      BY DEF Run!NoOutput
  <2>6. RunType'
      BY <2>1, <2>2, <2>4, <2>5 DEF RunInv, RunType
  <2> QED BY <2>1, <2>2, <2>3, <2>4, <2>6 DEF RunInv
<1>4. CASE Run!PollFails
    BY <1>4 DEF Run!PollFails, Run!Alive, RunInv, RunType
<1> QED BY <1>1, <1>2, <1>3, <1>4, CallStep, KidStep DEF Run!Next

-----------------------------------------------------------------------------
(* Extractor::run_capped *)

ExtractType ==
    /\ extract \in [at : {"idle", "start", "reading", "waiting", "ran", "done"},
                    status : {"none", "ok", "empty", "unsupported", "error", "timeout"},
                    text : Nat, by : {"none", "file", "unzip", "program"}]
    /\ capped \in [program : Extractor!Programs \cup {"none"}, out : Nat,
                   end : {"none", "not run", "timeout", "capped"} \cup Extractor!Ended,
                   cut : BOOLEAN, stray : BOOLEAN]
    /\ child \in [is : {"none", "forked", "runs", "hangs", "closed", "stuck", "reaped"} \cup Extractor!Ended,
                  grouped : BOOLEAN, wrote : Nat]
    /\ orphan \in {"none", "grouped", "killed", "over"}

\* The reading stops at the end of what there is to read, at the cap, at the deadline or at a
\* signal, and after the middle two the child has been killed, if it could be.
ExtractInv ==
    /\ ExtractType
    /\ extract.at \in {"idle", "start", "ran", "done"} => child.is \in {"none", "reaped"}
    /\ extract.at \in {"reading", "waiting"} => child.is \notin {"none", "reaped"}
    /\ extract.at \in {"start", "reading"} => capped.end = "none" /\ ~capped.cut
    /\ extract.at = "waiting" => capped.end \in {"none", "timeout", "capped"}
    /\ extract.at = "waiting" /\ capped.end = "none" /\ ~capped.cut =>
         capped.out = child.wrote /\ ~Extractor!ChildWrites
    /\ extract.at = "ran" /\ capped.end = "exited well" /\ ~capped.cut => capped.out = child.wrote
    /\ capped.end = "capped" => capped.out = MaxText
    /\ extract.at \in {"waiting", "ran"} /\ capped.end \in {"timeout", "capped"} /\ ~capped.stray =>
         child.is \in Extractor!Ended \cup {"reaped"} /\ orphan # "grouped"
    /\ extract.at # "done" => extract.by = "none"
    /\ Extractor!ExtractedWhole

LEMMA ExtractInit == Init => ExtractInv
BY DEF Init, Extractor!Init, Extractor!NoOutput, Extractor!NoChild, Extractor!Ended, Extractor!ExtractedWhole,
       ExtractInv, ExtractType

\* extract returns, before a program or after one.
LEMMA Returns ==
    ASSUME ExtractInv, extract.at \in {"idle", "ran"}, UNCHANGED <<capped, child, orphan>>,
           NEW status \in {"ok", "empty", "unsupported", "error", "timeout"}, NEW text \in Nat,
           NEW by \in {"none", "file", "unzip", "program"}, Extractor!Return(status, text, by),
           status = "ok" /\ by = "program" => Extractor!Ok /\ text = capped.out /\ extract.at = "ran"
    PROVE  ExtractInv'
<1>1. extract' = [at |-> "done", status |-> status, text |-> text, by |-> by]
    BY DEF Extractor!Return
<1>2. extract'.at = "done" /\ extract'.status = status /\ extract'.text = text /\ extract'.by = by
    BY <1>1
<1>3. ExtractType'
  <2>1. extract' \in [at : {"idle", "start", "reading", "waiting", "ran", "done"},
                      status : {"none", "ok", "empty", "unsupported", "error", "timeout"},
                      text : Nat, by : {"none", "file", "unzip", "program"}]
      BY <1>1
  <2> QED BY <2>1, ZenonT(30) DEF ExtractInv, ExtractType
<1>4. Extractor!ExtractedWhole'
    BY <1>2 DEF ExtractInv, Extractor!ExtractedWhole, Extractor!Ok
<1> QED BY <1>2, <1>3, <1>4 DEF ExtractInv

LEMMA Tries ==
    ASSUME ExtractInv, extract.at \in {"idle", "ran"}, UNCHANGED <<child, orphan>>,
           NEW program \in Extractor!Programs \cup {"none"}, Extractor!Try(program)
    PROVE  ExtractInv'
<1>1. CASE program = "none"
    BY <1>1, Returns DEF Extractor!Try
<1>2. CASE program # "none"
  <2>1. /\ extract' = [extract EXCEPT !.at = "start"]
        /\ capped' = [program |-> program, out |-> 0, end |-> "none", cut |-> FALSE, stray |-> FALSE]
      BY <1>2 DEF Extractor!Try, Extractor!NoOutput
  <2>2. ExtractType' /\ extract'.at = "start" /\ extract'.by = "none" /\ capped'.end = "none" /\ ~capped'.cut
      BY <2>1 DEF ExtractInv, ExtractType
  <2> QED BY <2>2 DEF ExtractInv, Extractor!ExtractedWhole
<1> QED BY <1>1, <1>2

LEMMA ProgramsToTry ==
    /\ Extractor!LastResort \in Extractor!Programs \cup {"none"}
    /\ Extractor!FirstProgram \in Extractor!Programs \cup {"none"}
<1>1. Extractor!LastResort \in Extractor!Programs \cup {"none"}
    BY DEF Extractor!LastResort, Extractor!Programs
<1> QED BY <1>1 DEF Extractor!FirstProgram, Extractor!Programs, Extractor!HasPlan

\* Extractor::extract, around its programs.
LEMMA ChoiceStep ==
    ASSUME ExtractInv,
           \/ Extractor!NoImporter \/ Extractor!ReadText \/ Extractor!ReadHtml
           \/ Extractor!Choose \/ Extractor!UseOutput
    PROVE  ExtractInv'
<1> USE DEF Extractor!Found
<1>1. CASE Extractor!NoImporter \/ Extractor!ReadText
    BY <1>1, Returns DEF Extractor!NoImporter, Extractor!ReadText, Extractor!Read
<1>2. CASE Extractor!ReadHtml
    BY <1>2, Returns DEF Extractor!ReadHtml, Extractor!Read, Extractor!WithoutHtml
<1>3. CASE Extractor!Choose
    BY <1>3, Tries, ProgramsToTry DEF Extractor!Choose
<1>4. CASE Extractor!UseOutput
  <2>1. extract.at = "ran" /\ UNCHANGED <<child, orphan>> /\ capped.out \in Nat
      BY <1>4 DEF Extractor!UseOutput, ExtractInv, ExtractType
  <2>2. CASE capped.end = "timeout"
      BY <1>4, <2>1, <2>2, Returns DEF Extractor!UseOutput
  <2>3. CASE capped.end # "timeout" /\ capped.program = "unzip"
    <3>1. CASE capped.out > 0
        BY <1>4, <2>1, <2>3, <3>1, Returns DEF Extractor!UseOutput, Extractor!WithoutXml
    <3>2. CASE ~(capped.out > 0)
        BY <1>4, <2>1, <2>3, <3>2, Tries, ProgramsToTry DEF Extractor!UseOutput
    <3> QED BY <3>1, <3>2
  <2>4. CASE capped.end # "timeout" /\ capped.program # "unzip"
    <3>1. UNCHANGED capped /\ IF Extractor!Ok THEN Extractor!Found(capped.out, "program")
                              ELSE Extractor!Return("error", 0, "none")
        BY <1>4, <2>4 DEF Extractor!UseOutput
    <3> QED BY <2>1, <3>1, Returns
  <2> QED BY <2>2, <2>3, <2>4
<1> QED BY <1>1, <1>2, <1>3, <1>4

\* Of a parser whose group is killed nothing goes on.
LEMMA GroupKilled ==
    ASSUME ExtractInv, extract.at = "reading", Extractor!KillGroup
    PROVE  /\ child'.wrote = child.wrote /\ child'.is \notin {"none", "reaped"}
           /\ child' \in [is : {"none", "forked", "runs", "hangs", "closed", "stuck", "reaped"} \cup Extractor!Ended,
                          grouped : BOOLEAN, wrote : Nat]
           /\ orphan' \in {"none", "grouped", "killed", "over"}
           /\ child.grouped => child'.is \in Extractor!Ended /\ orphan' # "grouped"
BY DEF Extractor!KillGroup, Extractor!Ended, ExtractInv, ExtractType

LEMMA CappedStep ==
    ASSUME ExtractInv,
           \/ Extractor!CannotStart \/ Extractor!SpawnChild \/ Extractor!ReadSome \/ Extractor!EndOfFile
           \/ Extractor!Interrupted \/ Extractor!TimesOut \/ Extractor!Reaped
    PROVE  ExtractInv'
<1> USE DEF Extractor!Reading
<1>0. ASSUME NEW at \in {"reading", "waiting", "ran"}, extract' = [extract EXCEPT !.at = at], extract.by = "none"
      PROVE  /\ extract'.at = at /\ extract'.by = "none" /\ Extractor!ExtractedWhole'
             /\ extract' \in [at : {"idle", "start", "reading", "waiting", "ran", "done"},
                              status : {"none", "ok", "empty", "unsupported", "error", "timeout"},
                              text : Nat, by : {"none", "file", "unzip", "program"}]
    BY <1>0 DEF ExtractInv, ExtractType, Extractor!ExtractedWhole
<1>1. CASE Extractor!CannotStart
  <2>1. /\ extract.at = "start" /\ extract' = [extract EXCEPT !.at = "ran"]
        /\ capped' = [capped EXCEPT !.end = "not run"] /\ UNCHANGED <<child, orphan>>
      BY <1>1 DEF Extractor!CannotStart
  <2>2. capped'.end = "not run" /\ ExtractType'
      BY <1>0, <2>1 DEF ExtractInv, ExtractType
  <2> QED BY <1>0, <2>1, <2>2 DEF ExtractInv
<1>2. CASE Extractor!SpawnChild
  <2>1. /\ extract.at = "start" /\ extract' = [extract EXCEPT !.at = "reading"]
        /\ child' = [is |-> "forked", grouped |-> FALSE, wrote |-> 0] /\ orphan' = "none" /\ UNCHANGED capped
      BY <1>2 DEF Extractor!SpawnChild, Extractor!NoChild
  <2>2. child'.is = "forked" /\ ExtractType'
      BY <1>0, <2>1 DEF ExtractInv, ExtractType
  <2> QED BY <1>0, <2>1, <2>2 DEF ExtractInv
<1>3. CASE Extractor!ReadSome
  <2> DEFINE out == IF child.wrote <= MaxText THEN child.wrote ELSE MaxText
  <2>1. out \in Nat /\ extract.at = "reading"
      BY <1>3, ProcessesAssumption DEF Extractor!ReadSome, ExtractInv, ExtractType
  <2>2. CASE out = MaxText
    <3>1. /\ capped' = [capped EXCEPT !.out = out, !.end = "capped", !.stray = ~child.grouped]
          /\ extract' = [extract EXCEPT !.at = "waiting"] /\ Extractor!KillGroup
        BY <1>3, <2>2 DEF Extractor!ReadSome
    <3> HIDE DEF out
    <3>2. /\ capped'.out = out /\ capped'.end = "capped" /\ capped'.stray = ~child.grouped
          /\ ExtractType'
        BY <1>0, <2>1, <3>1, GroupKilled DEF ExtractInv, ExtractType
    <3> QED BY <1>0, <2>1, <2>2, <3>1, <3>2, GroupKilled DEF ExtractInv
  <2>3. CASE out # MaxText
    <3>1. capped' = [capped EXCEPT !.out = out] /\ UNCHANGED <<extract, child, orphan>>
        BY <1>3, <2>3 DEF Extractor!ReadSome
    <3> HIDE DEF out
    <3>2. capped'.out = out /\ UNCHANGED <<capped.end, capped.cut, capped.stray>> /\ ExtractType'
        BY <2>1, <3>1 DEF ExtractInv, ExtractType
    <3> QED BY <2>1, <3>1, <3>2 DEF ExtractInv, Extractor!ExtractedWhole, Extractor!ChildWrites
  <2> QED BY <2>2, <2>3
<1>4. CASE Extractor!EndOfFile
  <2>1. /\ extract.at = "reading" /\ extract' = [extract EXCEPT !.at = "waiting"]
        /\ child.wrote - capped.out = 0 /\ ~Extractor!ChildWrites /\ UNCHANGED <<capped, child, orphan>>
      BY <1>4 DEF Extractor!EndOfFile, Extractor!Unread
  <2>2. capped.out = child.wrote
    <3>1. capped.out \in Nat /\ child.wrote \in Nat
        BY DEF ExtractInv, ExtractType
    <3> QED BY <2>1, <3>1
  <2>3. ExtractType'
      BY <1>0, <2>1 DEF ExtractInv, ExtractType
  <2> QED BY <1>0, <2>1, <2>2, <2>3 DEF ExtractInv, Extractor!ChildWrites
<1>5. CASE Extractor!Interrupted
  <2>1. /\ extract.at = "reading" /\ extract' = [extract EXCEPT !.at = "waiting"]
        /\ capped' = [capped EXCEPT !.cut = TRUE] /\ UNCHANGED <<child, orphan>>
      BY <1>5 DEF Extractor!Interrupted
  <2>2. capped'.cut /\ capped'.end = capped.end /\ ExtractType'
      BY <1>0, <2>1 DEF ExtractInv, ExtractType
  <2> QED BY <1>0, <2>1, <2>2 DEF ExtractInv
<1>6. CASE Extractor!TimesOut
  <2>1. /\ extract.at = "reading" /\ extract' = [extract EXCEPT !.at = "waiting"]
        /\ capped' = [capped EXCEPT !.end = "timeout", !.stray = ~child.grouped] /\ Extractor!KillGroup
      BY <1>6 DEF Extractor!TimesOut
  <2>2. capped'.end = "timeout" /\ capped'.stray = ~child.grouped /\ ExtractType'
      BY <1>0, <2>1, GroupKilled DEF ExtractInv, ExtractType
  <2> QED BY <1>0, <2>1, <2>2, GroupKilled DEF ExtractInv
<1>7. CASE Extractor!Reaped
  <2>1. /\ extract.at = "waiting" /\ child.is \in Extractor!Ended
        /\ extract' = [extract EXCEPT !.at = "ran"]
        /\ capped' = [capped EXCEPT !.end = IF capped.end = "none" THEN child.is ELSE capped.end]
        /\ child' = [child EXCEPT !.is = "reaped"] /\ UNCHANGED orphan
      BY <1>7 DEF Extractor!Reaped
  <2>2. /\ capped'.end = (IF capped.end = "none" THEN child.is ELSE capped.end)
        /\ UNCHANGED <<capped.out, capped.cut, capped.stray>>
        /\ child'.is = "reaped" /\ child'.wrote = child.wrote
        /\ ExtractType'
      BY <1>0, <2>1 DEF ExtractInv, ExtractType
  <2> QED BY <1>0, <2>1, <2>2 DEF ExtractInv, Extractor!Ended
<1> QED BY <1>1, <1>2, <1>3, <1>4, <1>5, <1>6, <1>7

LEMMA ChildStep ==
    ASSUME ExtractInv, UNCHANGED <<extract, capped>>,
           \/ Extractor!ChildGoesOn \/ Extractor!ChildSays \/ Extractor!ChildForks \/ Extractor!OrphanEnds
           \/ Extractor!ChildCloses \/ Extractor!ChildHangs
    PROVE  ExtractInv'
<1> USE DEF Extractor!Kid, Extractor!Ended
<1>1. CASE Extractor!ChildForks \/ Extractor!OrphanEnds
  <2>1. /\ UNCHANGED child /\ orphan' \in {"grouped", "over"} /\ (orphan' = "grouped" => child.is = "runs")
      BY <1>1 DEF Extractor!ChildForks, Extractor!OrphanEnds
  <2>2. ExtractType'
    <3>1. ExtractType
        BY DEF ExtractInv
    <3>2. orphan' \in {"none", "grouped", "killed", "over"}
        BY <2>1
    <3>3. UNCHANGED <<extract, capped, child>>
        BY <2>1
    <3> QED BY <3>1, <3>2, <3>3, Zenon DEF ExtractType
  <2>4. Extractor!ExtractedWhole'
      BY <2>1 DEF ExtractInv, Extractor!ExtractedWhole
  <2>3. Extractor!ChildWrites' <=> Extractor!ChildWrites
      BY <2>1 DEF Extractor!ChildWrites
  <2> QED BY <2>1, <2>2, <2>3, <2>4 DEF ExtractInv
<1>2. CASE ~(Extractor!ChildForks \/ Extractor!OrphanEnds)
  <2>1. /\ UNCHANGED orphan /\ child.is \in {"forked", "runs", "closed"}
        /\ child'.is \notin {"none", "reaped"}
        /\ child'.is \in {"forked", "runs", "hangs"} => child.is \in {"forked", "runs"}
        /\ child'.wrote # child.wrote => child.is = "runs"
        /\ child' \in [is : {"none", "forked", "runs", "hangs", "closed", "stuck", "reaped"} \cup Extractor!Ended,
                       grouped : BOOLEAN, wrote : Nat]
    <3>1. CASE Extractor!ChildStarts \/ Extractor!ChildEnds
        BY <3>1 DEF Extractor!ChildStarts, Extractor!ChildEnds, ExtractInv, ExtractType
    <3>2. CASE Extractor!ChildSays \/ Extractor!ChildCloses \/ Extractor!ChildHangs
      <4>1. CASE Extractor!ChildSays
        <5>1. child' = [child EXCEPT !.wrote = @ + 1] /\ child.is = "runs" /\ UNCHANGED orphan
            BY <4>1 DEF Extractor!ChildSays
        <5>2. child.wrote + 1 \in Nat
          <6>1. child.wrote \in Nat
              BY DEF ExtractInv, ExtractType
          <6> QED BY <6>1
        <5> QED BY <5>1, <5>2 DEF ExtractInv, ExtractType
      <4>2. CASE Extractor!ChildCloses \/ Extractor!ChildHangs
          BY <4>2 DEF Extractor!ChildCloses, Extractor!ChildHangs, ExtractInv, ExtractType
      <4> QED BY <3>2, <4>1, <4>2
    <3> QED BY <1>2, <3>1, <3>2 DEF Extractor!ChildGoesOn
  <2>2. extract.at \in {"reading", "waiting"}
      BY <2>1 DEF ExtractInv, ExtractType
  <2>3. Extractor!ExtractedWhole'
      BY <2>2 DEF Extractor!ExtractedWhole
  <2> QED BY <2>1, <2>2, <2>3, ZenonT(30) DEF ExtractInv, ExtractType, Extractor!ChildWrites
<1> QED BY <1>1, <1>2

LEMMA ExtractStep == ExtractInv /\ (Extractor!Next \/ UNCHANGED extracting) => ExtractInv'
<1>1. ExtractInv /\ UNCHANGED extracting => ExtractInv'
    BY ZenonT(30) DEF extracting, ExtractInv, ExtractType, Extractor!ExtractedWhole, Extractor!ChildWrites
<1>2. ASSUME \/ Extractor!ChildGoesOn \/ Extractor!ChildSays \/ Extractor!ChildForks \/ Extractor!OrphanEnds
             \/ Extractor!ChildCloses \/ Extractor!ChildHangs
      PROVE  UNCHANGED <<extract, capped>>
    BY <1>2 DEF Extractor!ChildGoesOn, Extractor!ChildStarts, Extractor!ChildEnds, Extractor!ChildSays,
                Extractor!ChildForks, Extractor!OrphanEnds, Extractor!ChildCloses, Extractor!ChildHangs, Extractor!Kid
<1> QED BY <1>1, <1>2, ChoiceStep, CappedStep, ChildStep DEF Extractor!Next, Extractor!Extracts

LEMMA Sums ==
    ASSUME NEW a \in Nat, NEW b \in Nat, NEW c \in Nat, a + b = c
    PROVE  a <= c /\ (b = 0 => a = c)
OBVIOUS

LEMMA OutputAlways == Spec => [](RunInv /\ ExtractInv)
BY RunInit, RunStep, ExtractInit, ExtractStep, PartSteps, PTL DEF Spec

\* Subprocess::run and run_capped return all that the child wrote, or say that they do not, for
\* any input, output, capacity of the pipes and cap on the text; and of a parser that was killed
\* nothing is left.
THEOREM OutputKept == Spec => []OutputWhole
<1>1. RunInv => Run!RunWhole
  <2> SUFFICES ASSUME RunInv, run.at = "done", run.code # "not run" PROVE Run!RunWhole
      BY DEF Run!RunWhole
  <2>1. kid.is = "reaped" /\ run.open = {}
      BY DEF RunInv
  <2>2. ASSUME NEW s \in Run!Outputs
        PROVE  run.got[s] <= kid.wrote[s] /\ (~run.error => run.got[s] = kid.wrote[s])
    <3>1. run.got[s] \in Nat /\ pipes[s] \in Nat /\ kid.wrote[s] \in Nat
        BY DEF RunInv, RunType, Run!Outputs, Run!Streams
    <3>2. run.got[s] + pipes[s] = kid.wrote[s]
        BY DEF RunInv
    <3>3. ~run.error => pipes[s] = 0
        BY <2>1 DEF RunInv
    <3>4. run.got[s] <= kid.wrote[s] /\ (pipes[s] = 0 => run.got[s] = kid.wrote[s])
        BY <3>1, <3>2, Sums, Zenon
    <3> QED BY <3>3, <3>4
  <2>3. /\ run.got = [s \in Run!Outputs |-> run.got[s]]
        /\ kid.wrote = [s \in Run!Outputs |-> kid.wrote[s]]
      BY DEF RunInv, RunType
  <2>4. ~run.error => run.got = kid.wrote
      BY <2>2, <2>3
  <2>5. ~run.error => run.todo = 0
      BY <2>1 DEF RunInv
  <2> QED BY <2>1, <2>2, <2>4, <2>5 DEF Run!RunWhole
<1>2. ExtractInv => Extractor!ExtractedWhole /\ Extractor!NothingLeft
    BY DEF ExtractInv, Extractor!NothingLeft
<1>3. RunInv /\ ExtractInv => OutputWhole
    BY <1>1, <1>2 DEF OutputWhole
<1> QED BY <1>3, OutputAlways, PTL

-----------------------------------------------------------------------------
(* The compositor's events *)

Parts == [of : Nat, is : {"head", "middle", "tail"}]

\* What was sent and is not read yet, and its parts one after another: of one line, or the last
\* of a line and the first of a later one.
flow == sock \o unsent
Follows(a, b) ==
    IF a.is = "tail" THEN b.is = "head" /\ a.of < b.of ELSE b.is # "head" /\ a.of = b.of
Chained(s) == \A i \in 1..(Len(s) - 1) : Follows(s[i], s[i + 1])

StreamType ==
    /\ compositor.sent \in Nat /\ link \in {"up", "left", "down"}
    /\ sock \in Seq(Parts) /\ unsent \in Seq(Parts) /\ buffer \in Seq(Parts)
    /\ delivered \in Seq(SUBSET Nat)
    /\ seen \in [off : SUBSET Nat, received : SUBSET Nat, joined : SUBSET Nat]
    /\ IsFiniteSet(seen.off) /\ IsFiniteSet(seen.joined)

\* A connection that stands has a whole number of lines under way; one that has ended, whatever
\* was written of them.
FlowInv ==
    /\ Chained(flow)
    /\ link = "up" /\ flow # <<>> => flow[Len(flow)].is = "tail"
    /\ link = "down" => flow = <<>>
    /\ link # "up" => unsent = <<>>
    /\ \A i \in 1..Len(flow) :
          flow[i].of <= compositor.sent /\ (flow[i].is = "middle" => flow[i].of \in Long)

\* The buffer holds the beginnings of lines in the order of their events, all but the last of
\* them broken off; what precedes the first head is left of a line that was too long.
Fused(b, off, joined) ==
    /\ \A i \in 1..Len(b) : b[i].is # "tail" /\ (b[i].of \in off \/ b[i].of = b[Len(b)].of)
    /\ \A i, j \in 1..Len(b) : i < j =>
          b[i].of <= b[j].of /\ (b[j].is = "head" => b[i].of < b[j].of /\ b[j].of \in joined)
    /\ (\E i \in 1..Len(b) : b[i].is = "head") =>
          \E i \in 1..Len(b) : b[i].is = "head" /\ b[i].of = b[Len(b)].of

LastOf == buffer[Len(buffer)].of
Broken == buffer # <<>> /\ LastOf \in seen.off

\* The line the buffer ends in goes on with what is read next, or has broken off, or is about to.
BufferInv ==
    /\ Fused(buffer, seen.off, seen.joined)
    /\ buffer # <<>> =>
          /\ LastOf <= compositor.sent
          /\ flow = <<>> => Broken \/ link = "left"
          /\ flow # <<>> /\ flow[1].is = "head" => Broken
          /\ flow # <<>> /\ flow[1].is # "head" => flow[1].of = LastOf
    /\ flow # <<>> /\ flow[1].is # "head" /\ flow[1].of \notin Long \cup seen.joined =>
          buffer = <<[of |-> flow[1].of, is |-> "head"]>>

\* What broke off came before whatever is read; and as many have broken off as have spoilt a line,
\* and one more while the next is still to come.
OffInv ==
    /\ \A o \in seen.off : o <= compositor.sent /\ (flow # <<>> => o < flow[1].of)
    /\ Cardinality(seen.joined) + (IF Broken THEN 1 ELSE 0) <= Cardinality(seen.off)

\* What is delivered came before all that is in the buffer or under way.
DeliveredInv ==
    \A i \in 1..Len(delivered) : \A d \in delivered[i] :
        /\ d <= compositor.sent
        /\ flow # <<>> => d < flow[1].of
        /\ \A j \in 1..Len(buffer) : d < buffer[j].of

\* EventsInOrder but for the count.
InOrder ==
    /\ \A i \in 1..Len(delivered) :
          \E e \in delivered[i] \cap seen.received :
             /\ \A d \in delivered[i] \ {e} : d < e /\ d \in seen.off
             /\ delivered[i] = {e} \/ e \in seen.joined
    /\ \A i, j \in 1..Len(delivered) : j < i => \A d \in delivered[j], e \in delivered[i] : d < e
    /\ \A e \in seen.received \ (Long \cup seen.joined) : \E i \in 1..Len(delivered) : delivered[i] = {e}

StreamInv == StreamType /\ FlowInv /\ BufferInv /\ OffInv /\ DeliveredInv /\ InOrder

LEMMA StreamInit == Init => StreamInv
<1> SUFFICES ASSUME Init PROVE StreamInv
    OBVIOUS
<1>1. /\ compositor.sent = 0 /\ unsent = <<>> /\ sock = <<>> /\ link = "down" /\ buffer = <<>>
      /\ delivered = <<>> /\ seen = [off |-> {}, received |-> {}, joined |-> {}]
    BY DEF Init, Events!Init
<1>2. flow = <<>> /\ Len(buffer) = 0 /\ Len(delivered) = 0 /\ Len(flow) = 0
    BY <1>1 DEF flow
<1>3. IsFiniteSet({}) /\ Cardinality({}) = 0
    BY FS_EmptySet
<1>4. StreamType
    BY <1>1, <1>3 DEF StreamType
<1>5. FlowInv
    BY <1>1, <1>2 DEF FlowInv, Chained
<1>6. BufferInv /\ OffInv
    BY <1>1, <1>2, <1>3 DEF BufferInv, Fused, OffInv, Broken
<1>7. DeliveredInv /\ InOrder
    BY <1>1, <1>2 DEF DeliveredInv, InOrder
<1> QED BY <1>4, <1>5, <1>6, <1>7 DEF StreamInv

\* Sequences under way: a part is written, and a part is read.
LEMMA PartWritten ==
    ASSUME NEW S, NEW s \in Seq(S), NEW u \in Seq(S), u # <<>>
    PROVE  /\ Append(s, Head(u)) \in Seq(S) /\ Tail(u) \in Seq(S)
           /\ Append(s, Head(u)) \o Tail(u) = s \o u
OBVIOUS

LEMMA PartRead ==
    ASSUME NEW S, NEW s \in Seq(S), NEW u \in Seq(S), s # <<>>
    PROVE  /\ Head(s) \in S /\ Tail(s) \in Seq(S)
           /\ s \o u # <<>> /\ (s \o u)[1] = Head(s) /\ Tail(s) \o u = Tail(s \o u)
OBVIOUS

\* The rest of a chain is one, and its first part follows the one that was read.
LEMMA RestChained ==
    ASSUME NEW s \in Seq(Parts), s # <<>>, Chained(s)
    PROVE  /\ Chained(Tail(s)) /\ Len(Tail(s)) = Len(s) - 1
           /\ \A i \in 1..(Len(s) - 1) : Tail(s)[i] = s[i + 1]
           /\ Tail(s) # <<>> => Follows(s[1], Tail(s)[1])
<1>1. Len(Tail(s)) = Len(s) - 1 /\ \A i \in 1..(Len(s) - 1) : Tail(s)[i] = s[i + 1]
    OBVIOUS
<1>2. ASSUME NEW i \in 1..(Len(Tail(s)) - 1) PROVE Follows(Tail(s)[i], Tail(s)[i + 1])
  <2>1. i + 1 \in 1..(Len(s) - 1) /\ i \in 1..(Len(s) - 1)
      BY <1>1
  <2>2. Tail(s)[i] = s[i + 1] /\ Tail(s)[i + 1] = s[(i + 1) + 1]
      BY <1>1, <2>1
  <2> QED BY <2>1, <2>2 DEF Chained
<1>3. ASSUME Tail(s) # <<>> PROVE Follows(s[1], Tail(s)[1])
  <2>1. Len(Tail(s)) # 0 /\ Len(Tail(s)) \in Nat
    <3>1. Tail(s) \in Seq(Parts)
        OBVIOUS
    <3> QED BY <1>3, <3>1
  <2>2. 1 \in 1..(Len(s) - 1)
      BY <1>1, <2>1
  <2> QED BY <1>1, <2>2 DEF Chained
<1> QED BY <1>1, <1>2, <1>3 DEF Chained

\* The beginning of a chain is one.
LEMMA CutChained ==
    ASSUME NEW s \in Seq(Parts), NEW u \in Seq(Parts), Chained(s \o u)
    PROVE  Chained(s) /\ Len(s) <= Len(s \o u) /\ \A i \in 1..Len(s) : (s \o u)[i] = s[i]
<1>1. Len(s) <= Len(s \o u) /\ \A i \in 1..Len(s) : (s \o u)[i] = s[i]
    OBVIOUS
<1> QED BY <1>1 DEF Chained

LEMMA Enclosed ==
    ASSUME NEW S, NEW h \in Seq(S), NEW m \in Seq(S), NEW t \in Seq(S), Len(h) = 1, Len(t) = 1
    PROVE  /\ h \o m \o t \in Seq(S) /\ Len(h \o m \o t) = Len(m) + 2 /\ Len(m) \in Nat
           /\ (h \o m \o t)[1] = h[1] /\ (h \o m \o t)[Len(m) + 2] = t[1]
           /\ \A i \in 1..Len(m) : (h \o m \o t)[i + 1] = m[i]
<1>1. /\ h \o m \in Seq(S) /\ Len(h \o m) = Len(m) + 1 /\ Len(m) \in Nat
      /\ (h \o m)[1] = h[1] /\ \A i \in 1..Len(m) : (h \o m)[i + 1] = m[i]
  <2>1. /\ h \o m \in Seq(S) /\ Len(h \o m) = Len(h) + Len(m) /\ Len(m) \in Nat
        /\ \A i \in 1..(Len(h) + Len(m)) : (h \o m)[i] = IF i <= Len(h) THEN h[i] ELSE m[i - Len(h)]
      BY ConcatProperties
  <2>2. \A i \in 1..Len(m) : i + 1 \in 1..(Len(h) + Len(m)) /\ ~(i + 1 <= Len(h)) /\ (i + 1) - Len(h) = i
      BY <2>1
  <2> QED BY <2>1, <2>2
<1>2. ASSUME NEW q \in Seq(S)
      PROVE  /\ q \o t \in Seq(S) /\ Len(q \o t) = Len(q) + 1 /\ (q \o t)[Len(q) + 1] = t[1]
             /\ \A i \in 1..Len(q) : (q \o t)[i] = q[i]
  <2>0. Len(q) \in Nat
      OBVIOUS
  <2>1. /\ q \o t \in Seq(S) /\ Len(q \o t) = Len(q) + Len(t) /\ Len(q) \in Nat
        /\ \A i \in 1..(Len(q) + Len(t)) : (q \o t)[i] = IF i <= Len(q) THEN q[i] ELSE t[i - Len(q)]
      BY <2>0, ConcatProperties, Zenon
  <2>2. Len(q) + 1 \in 1..(Len(q) + Len(t)) /\ ~(Len(q) + 1 <= Len(q)) /\ (Len(q) + 1) - Len(q) = 1
      BY <2>1
  <2>3. (q \o t)[Len(q) + 1] = t[1]
      BY <2>1, <2>2
  <2>4. \A i \in 1..Len(q) : i \in 1..(Len(q) + Len(t)) /\ i <= Len(q)
      BY <2>1
  <2> QED BY <2>1, <2>3, <2>4
<1>3. \A i \in 1..Len(m) : i + 1 \in 1..Len(h \o m)
    BY <1>1
<1>4. 1 \in 1..Len(h \o m) /\ Len(h \o m) + 1 = Len(m) + 2
    BY <1>1
<1> QED BY <1>1, <1>2, <1>3, <1>4

\* A line of the compositor's.
LEMMA LineChained ==
    ASSUME NEW e \in Nat
    PROVE  /\ Events!Line(e) \in Seq(Parts) /\ Len(Events!Line(e)) >= 2
           /\ Chained(Events!Line(e))
           /\ Events!Line(e)[1].is = "head" /\ Events!Line(e)[Len(Events!Line(e))].is = "tail"
           /\ \A i \in 1..Len(Events!Line(e)) :
                 Events!Line(e)[i].of = e /\ (Events!Line(e)[i].is = "middle" => e \in Long)
<1> DEFINE h == <<[of |-> e, is |-> "head"]>>
           m == IF e \in Long THEN [i \in 1..MaxBuffered |-> [of |-> e, is |-> "middle"]] ELSE <<>>
           t == <<[of |-> e, is |-> "tail"]>>
           s == h \o m \o t
<1>1. h \in Seq(Parts) /\ m \in Seq(Parts) /\ t \in Seq(Parts) /\ Len(h) = 1 /\ Len(t) = 1
  <2>1. \A k \in {"head", "middle", "tail"} : [of |-> e, is |-> k] \in Parts
      BY DEF Parts
  <2>2. m \in Seq(Parts)
      BY <2>1, ProcessesAssumption
  <2>3. h \in Seq(Parts) /\ t \in Seq(Parts)
      BY <2>1
  <2> QED BY <2>2, <2>3
<1>2. h[1] = [of |-> e, is |-> "head"] /\ t[1] = [of |-> e, is |-> "tail"]
    OBVIOUS
<1>3. \A i \in 1..Len(m) : m[i] = [of |-> e, is |-> "middle"] /\ e \in Long
    BY ProcessesAssumption
<1>4. Events!Line(e) = s
    BY DEF Events!Line
<1> HIDE DEF h, m, t
<1>5. /\ s \in Seq(Parts) /\ Len(s) = Len(m) + 2 /\ Len(m) \in Nat
      /\ s[1] = h[1] /\ s[Len(m) + 2] = t[1] /\ \A i \in 1..Len(m) : s[i + 1] = m[i]
    BY <1>1, Enclosed, SMTT(30)
<1> HIDE DEF s
<1>6. \A i \in 1..Len(s) : /\ s[i].of = e
                           /\ i = 1 => s[i].is = "head"
                           /\ i = Len(s) => s[i].is = "tail"
                           /\ i # 1 /\ i # Len(s) => s[i].is = "middle" /\ e \in Long
  <2> SUFFICES ASSUME NEW i \in 1..Len(s)
               PROVE  /\ s[i].of = e
                      /\ i = 1 => s[i].is = "head"
                      /\ i = Len(s) => s[i].is = "tail"
                      /\ i # 1 /\ i # Len(s) => s[i].is = "middle" /\ e \in Long
      OBVIOUS
  <2>1. CASE i = 1 \/ i = Len(s)
      BY <2>1, <1>2, <1>5
  <2>2. CASE i # 1 /\ i # Len(s)
    <3>1. i - 1 \in 1..Len(m) /\ (i - 1) + 1 = i
        BY <2>2, <1>5
    <3>2. s[i] = m[i - 1]
        BY <1>5, <3>1
    <3> QED BY <1>3, <2>2, <3>1, <3>2
  <2> QED BY <2>1, <2>2
<1>7. Chained(s)
    BY <1>5, <1>6 DEF Chained, Follows
<1> QED BY <1>4, <1>5, <1>6, <1>7

\* A chain of whole lines goes on with a later one.
LEMMA LineAdded ==
    ASSUME NEW s \in Seq(Parts), NEW u \in Seq(Parts), Chained(s), Chained(u), u # <<>>, u[1].is = "head",
           s # <<>> => s[Len(s)].is = "tail" /\ s[Len(s)].of < u[1].of
    PROVE  /\ Chained(s \o u) /\ s \o u # <<>> /\ (s \o u)[Len(s \o u)] = u[Len(u)]
           /\ (s \o u)[1] = IF s = <<>> THEN u[1] ELSE s[1]
           /\ \A i \in 1..Len(s \o u) : \/ i \in 1..Len(s) /\ (s \o u)[i] = s[i]
                                        \/ i - Len(s) \in 1..Len(u) /\ (s \o u)[i] = u[i - Len(s)]
<1> DEFINE f == s \o u
<1>1. /\ f \in Seq(Parts) /\ Len(f) = Len(s) + Len(u) /\ Len(u) \in Nat /\ Len(u) # 0 /\ Len(s) \in Nat
      /\ \A i \in 1..Len(s) : f[i] = s[i]
      /\ \A i \in (Len(s) + 1)..(Len(s) + Len(u)) : f[i] = u[i - Len(s)]
    OBVIOUS
<1>2. s = <<>> <=> Len(s) = 0
    OBVIOUS
<1> HIDE DEF f
<1>3. ASSUME NEW i \in 1..(Len(f) - 1) PROVE Follows(f[i], f[i + 1])
  <2>1. CASE i < Len(s)
    <3>1. i \in 1..(Len(s) - 1) /\ i + 1 \in 1..Len(s) /\ i \in 1..Len(s)
        BY <1>1, <2>1
    <3> QED BY <1>1, <3>1 DEF Chained
  <2>2. CASE i = Len(s)
    <3>1. i + 1 \in (Len(s) + 1)..(Len(s) + Len(u)) /\ (i + 1) - Len(s) = 1 /\ i \in 1..Len(s)
        BY <1>1, <2>2
    <3>2. f[i] = s[Len(s)]
        BY <1>1, <2>2, <3>1
    <3>3. f[i + 1] = u[1]
        BY <1>1, <3>1
    <3>4. s # <<>>
        BY <1>1, <1>2, <3>1
    <3> QED BY <3>2, <3>3, <3>4 DEF Follows
  <2>3. CASE i > Len(s)
    <3> DEFINE j == i - Len(s)
    <3>1. /\ i \in (Len(s) + 1)..(Len(s) + Len(u)) /\ i + 1 \in (Len(s) + 1)..(Len(s) + Len(u))
          /\ j \in 1..(Len(u) - 1) /\ (i + 1) - Len(s) = j + 1
        BY <1>1, <2>3
    <3>2. f[i] = u[j] /\ f[i + 1] = u[j + 1]
        BY <1>1, <3>1
    <3> QED BY <3>1, <3>2 DEF Chained
  <2> QED BY <1>1, <2>1, <2>2, <2>3
<1>4. f[Len(f)] = u[Len(u)] /\ f # <<>>
    BY <1>1
<1>5. f[1] = IF s = <<>> THEN u[1] ELSE s[1]
    BY <1>1, <1>2
<1>6. \A i \in 1..Len(f) : \/ i \in 1..Len(s) /\ f[i] = s[i]
                           \/ i - Len(s) \in 1..Len(u) /\ f[i] = u[i - Len(s)]
  <2> SUFFICES ASSUME NEW i \in 1..Len(f), ~(i \in 1..Len(s))
               PROVE  i - Len(s) \in 1..Len(u) /\ f[i] = u[i - Len(s)]
      BY <1>1
  <2>1. i \in (Len(s) + 1)..(Len(s) + Len(u)) /\ i - Len(s) \in 1..Len(u)
      BY <1>1
  <2> QED BY <1>1, <2>1
<1> QED BY <1>3, <1>4, <1>5, <1>6 DEF f, Chained

LEMMA FusedAlone ==
    ASSUME NEW p \in Parts, p.is # "tail", NEW off, NEW joined
    PROVE  Fused(<<p>>, off, joined) /\ Fused(<<>>, off, joined)
BY DEF Fused

\* The next part of the line, or the head of one that comes after the buffer's has broken off.
LEMMA FusedAppend ==
    ASSUME NEW b \in Seq(Parts), NEW p \in Parts, NEW off, NEW joined, NEW more, joined \subseteq more,
           Fused(b, off, joined), b # <<>>, p.is # "tail",
           IF p.is = "head" THEN b[Len(b)].of \in off /\ b[Len(b)].of < p.of /\ p.of \in more
           ELSE p.of = b[Len(b)].of
    PROVE  Fused(Append(b, p), off, more)
<1> DEFINE c == Append(b, p)
           n == Len(b)
<1>1. /\ c \in Seq(Parts) /\ Len(c) = n + 1 /\ n \in Nat /\ n > 0 /\ c[n + 1] = p
      /\ \A i \in 1..n : c[i] = b[i] /\ b[i] \in Parts
    OBVIOUS
<1> HIDE DEF c, n
<1>2. \A i \in 1..n : b[i].of <= b[n].of
  <2> SUFFICES ASSUME NEW i \in 1..n PROVE b[i].of <= b[n].of
      OBVIOUS
  <2>1. n \in 1..n /\ b[n].of \in Nat
      BY <1>1 DEF Parts
  <2>2. CASE i = n
      BY <2>1, <2>2
  <2>3. CASE i < n
      BY <2>1, <2>3 DEF Fused, n
  <2> QED BY <1>1, <2>2, <2>3
<1>3. ASSUME NEW i \in 1..(n + 1) PROVE c[i].is # "tail" /\ (c[i].of \in off \/ c[i].of = p.of)
  <2>1. CASE i = n + 1
      BY <1>1, <2>1
  <2>2. CASE i \in 1..n
    <3>1. b[i].is # "tail" /\ (b[i].of \in off \/ b[i].of = b[n].of)
        BY <2>2 DEF Fused, n
    <3> QED BY <1>1, <2>2, <3>1 DEF n
  <2> QED BY <1>1, <2>1, <2>2
<1>4. ASSUME NEW i \in 1..(n + 1), NEW j \in 1..(n + 1), i < j
      PROVE  c[i].of <= c[j].of /\ (c[j].is = "head" => c[i].of < c[j].of /\ c[j].of \in more)
  <2>1. i \in 1..n
      BY <1>1, <1>4
  <2>2. CASE j = n + 1
    <3>1. c[i] = b[i] /\ c[j] = p /\ b[i].of <= b[n].of
        BY <1>1, <1>2, <2>1, <2>2
    <3>2. b[i].of \in Nat /\ b[n].of \in Nat /\ p.of \in Nat
      <4>1. n \in 1..n
          BY <1>1
      <4> QED BY <1>1, <2>1, <4>1 DEF Parts
    <3>3. IF p.is = "head" THEN b[n].of < p.of /\ p.of \in more ELSE p.of = b[n].of
        BY DEF n
    <3> QED BY <3>1, <3>2, <3>3
  <2>3. CASE j \in 1..n
    <3>1. b[i].of <= b[j].of /\ (b[j].is = "head" => b[i].of < b[j].of /\ b[j].of \in joined)
        BY <1>4, <2>1, <2>3 DEF Fused, n
    <3> QED BY <1>1, <2>1, <2>3, <3>1
  <2> QED BY <1>1, <2>2, <2>3
<1>5. ASSUME NEW i \in 1..(n + 1), c[i].is = "head"
      PROVE  \E j \in 1..(n + 1) : c[j].is = "head" /\ c[j].of = p.of
  <2>0. n + 1 \in 1..(n + 1) /\ \A j \in 1..n : j \in 1..(n + 1)
      BY <1>1
  <2>1. CASE p.is = "head"
      BY <1>1, <2>0, <2>1
  <2>2. CASE p.is # "head"
    <3>1. i \in 1..n
        BY <1>1, <1>5, <2>2
    <3>2. PICK j \in 1..n : b[j].is = "head" /\ b[j].of = b[n].of
        BY <1>1, <1>5, <3>1 DEF Fused, n
    <3> QED BY <1>1, <2>0, <2>2, <3>2 DEF n
  <2> QED BY <2>1, <2>2
<1> QED BY <1>1, <1>3, <1>4, <1>5 DEF Fused, c, n

\* What a complete line is taken for: the event it ends with, and what was broken off before it.
LEMMA FusedEvent ==
    ASSUME NEW b \in Seq(Parts), NEW t \in Parts, NEW off, NEW joined, Fused(b, off, joined),
           t.is = "tail", b # <<>> => t.of = b[Len(b)].of,
           Events!Event(Append(b, t)) # {}
    PROVE  LET event == Events!Event(Append(b, t))
           IN  /\ t.of \in event /\ event \subseteq {b[i].of : i \in 1..Len(b)}
               /\ \A d \in event \ {t.of} : d < t.of /\ d \in off
               /\ event = {t.of} \/ t.of \in joined
<1> DEFINE event == Events!Event(Append(b, t))
           n == Len(b)
<1>1. n \in Nat /\ DOMAIN Append(b, t) = 1..(n + 1) /\ Append(b, t)[n + 1] = t
      /\ \A i \in 1..n : Append(b, t)[i] = b[i] /\ b[i] \in Parts
    OBVIOUS
<1>2. event = {b[i].of : i \in {j \in 1..n : b[j].is = "head"}}
  <2>1. {j \in 1..(n + 1) : Append(b, t)[j].is = "head"} = {j \in 1..n : b[j].is = "head"}
      BY <1>1
  <2> HIDE DEF n
  <2> QED BY <1>1, <2>1 DEF Events!Event
<1> HIDE DEF event
<1>3. PICK k \in 1..n : b[k].is = "head"
    BY <1>2 DEF event
<1>4. b # <<>> /\ n > 0 /\ n \in 1..n
    BY <1>1, <1>3
<1>5. PICK l \in 1..n : b[l].is = "head" /\ b[l].of = t.of
    BY <1>3, <1>4 DEF Fused
<1>6. t.of \in event
    BY <1>2, <1>5
<1>7. ASSUME NEW i \in 1..n, b[i].is = "head", b[i].of # t.of
      PROVE  b[i].of < t.of /\ b[i].of \in off /\ t.of \in joined
  <2>1. b[i].of \in off
      BY <1>4, <1>7 DEF Fused
  <2>2. i # n /\ i < n
      BY <1>1, <1>4, <1>7
  <2>3. b[i].of <= t.of /\ b[i].of \in Nat /\ t.of \in Nat
      BY <1>1, <1>4, <2>2 DEF Fused, Parts
  <2>4. i # l
      BY <1>5, <1>7
  <2>5. CASE i < l
      BY <1>5, <1>7, <2>1, <2>3, <2>5 DEF Fused
  <2>6. CASE l < i
    <3>1. b[l].of < b[i].of
        BY <1>7, <2>6 DEF Fused
    <3> QED BY <1>5, <2>3, <3>1
  <2> QED BY <1>1, <2>4, <2>5, <2>6
<1>8. \A d \in event \ {t.of} : d < t.of /\ d \in off /\ t.of \in joined
    BY <1>2, <1>7
<1>9. event \subseteq {b[i].of : i \in 1..n}
    BY <1>2
<1> QED BY <1>6, <1>8, <1>9 DEF event

\* A step that leaves the daemon's end alone, and of what is under way the next part, if there was
\* one.
LEMMA UnreadKeeps ==
    ASSUME StreamInv, UNCHANGED <<buffer, delivered, seen>>,
           StreamType', FlowInv', compositor.sent <= compositor'.sent,
           flow # <<>> /\ flow' # <<>> => flow'[1] = flow[1],
           flow = <<>> /\ flow' # <<>> =>
               /\ flow'[1].is = "head" /\ compositor.sent < flow'[1].of
               /\ link # "left",
           flow' = <<>> /\ buffer # <<>> => Broken \/ link' = "left"
    PROVE  StreamInv'
<1>1. compositor.sent \in Nat /\ compositor'.sent \in Nat
    BY DEF StreamInv, StreamType
<1>2. flow' # <<>> => flow'[1].of \in Nat
  <2>1. flow' \in Seq(Parts)
      BY DEF StreamType, flow
  <2>2. flow' # <<>> => flow'[1] \in Parts
      BY <2>1
  <2> QED BY <2>2 DEF Parts
<1>3. LastOf' = LastOf /\ Broken' = Broken
    BY DEF LastOf, Broken
<1>4. buffer # <<>> => LastOf \in Nat
  <2>1. buffer # <<>> => buffer[Len(buffer)] \in Parts
      BY DEF StreamInv, StreamType
  <2> QED BY <2>1 DEF LastOf, Parts
<1>5. BufferInv'
  <2>1. Fused(buffer, seen.off, seen.joined)'
      BY DEF StreamInv, BufferInv
  <2>2. ASSUME buffer # <<>>
        PROVE  /\ LastOf <= compositor'.sent
               /\ flow' = <<>> => Broken \/ link' = "left"
               /\ flow' # <<>> /\ flow'[1].is = "head" => Broken
               /\ flow' # <<>> /\ flow'[1].is # "head" => flow'[1].of = LastOf
    <3>1. LastOf <= compositor.sent
        BY <2>2 DEF StreamInv, BufferInv
    <3> QED BY <1>1, <1>4, <2>2, <3>1 DEF StreamInv, BufferInv
  <2>3. ASSUME flow' # <<>>, flow'[1].is # "head", flow'[1].of \notin Long \cup seen.joined
        PROVE  buffer = <<[of |-> flow'[1].of, is |-> "head"]>>
      BY <2>3 DEF StreamInv, BufferInv
  <2> QED BY <1>3, <2>1, <2>2, <2>3 DEF BufferInv
<1>6. OffInv'
  <2>1. ASSUME NEW o \in seen.off PROVE o <= compositor'.sent /\ (flow' # <<>> => o < flow'[1].of)
    <3>1. o \in Nat /\ o <= compositor.sent /\ (flow # <<>> => o < flow[1].of)
        BY <2>1 DEF StreamInv, OffInv, StreamType
    <3>2. o <= compositor'.sent
        BY <1>1, <3>1
    <3>3. CASE flow # <<>>
        BY <3>1, <3>2, <3>3
    <3>4. CASE flow = <<>> /\ flow' # <<>>
        BY <1>1, <1>2, <3>1, <3>2, <3>4
    <3> QED BY <3>2, <3>3, <3>4
  <2> QED BY <1>3, <2>1 DEF StreamInv, OffInv
<1>7. DeliveredInv'
  <2> SUFFICES ASSUME NEW i \in 1..Len(delivered), NEW d \in delivered[i]
               PROVE  /\ d <= compositor'.sent /\ (flow' # <<>> => d < flow'[1].of)
                      /\ \A j \in 1..Len(buffer) : d < buffer[j].of
      BY DEF DeliveredInv
  <2>1. d \in Nat
    <3>1. delivered[i] \in SUBSET Nat
        BY DEF StreamInv, StreamType
    <3> QED BY <3>1
  <2>2. /\ d <= compositor.sent /\ (flow # <<>> => d < flow[1].of)
        /\ \A j \in 1..Len(buffer) : d < buffer[j].of
      BY DEF StreamInv, DeliveredInv
  <2>3. d <= compositor'.sent
      BY <1>1, <2>1, <2>2
  <2>4. CASE flow # <<>>
      BY <2>2, <2>3, <2>4
  <2>5. CASE flow = <<>>
      BY <1>1, <1>2, <2>1, <2>2, <2>3, <2>5
  <2> QED BY <2>4, <2>5
<1>8. InOrder'
    BY DEF StreamInv, InOrder
<1> QED BY <1>5, <1>6, <1>7, <1>8 DEF StreamInv

LEMMA FlowType == StreamType => flow \in Seq(Parts)
BY DEF StreamType, flow

LEMMA SendStep == StreamInv /\ Events!SendEvent => StreamInv'
<1> SUFFICES ASSUME StreamInv, Events!SendEvent PROVE StreamInv'
    OBVIOUS
<1> DEFINE e == compositor.sent + 1
           line == Events!Line(e)
<1>1. /\ compositor'.sent = e /\ unsent = <<>> /\ UNCHANGED <<sock, link, buffer, delivered, seen>>
      /\ unsent' = IF link = "up" THEN line ELSE <<>>
  <2>1. compositor' = [compositor EXCEPT !.sent = e]
      BY DEF Events!SendEvent
  <2> QED BY <2>1 DEF Events!SendEvent
<1>2. e \in Nat /\ compositor.sent \in Nat /\ sock \in Seq(Parts) /\ compositor.sent < e
    BY DEF StreamInv, StreamType
<1>3. /\ line \in Seq(Parts) /\ Len(line) >= 2 /\ Chained(line) /\ line[1].is = "head" /\ line[Len(line)].is = "tail"
      /\ \A i \in 1..Len(line) : line[i].of = e /\ (line[i].is = "middle" => e \in Long)
    BY <1>2, LineChained
<1> HIDE DEF line
<1>4. flow = sock
    BY <1>1, <1>2 DEF flow
<1>5. StreamType'
    BY <1>1, <1>2, <1>3 DEF StreamInv, StreamType
<1>6. CASE link # "up"
  <2>1. flow' = flow
      BY <1>1, <1>2, <1>4, <1>6 DEF flow
  <2>2. \A i \in 1..Len(flow) : flow[i].of \in Nat
    <3>1. \A i \in 1..Len(flow) : flow[i] \in Parts
        BY <1>2, <1>4
    <3> QED BY <3>1 DEF Parts
  <2>3. FlowInv'
    <3>1. \A i \in 1..Len(flow) : flow[i].of <= e
        BY <1>2, <2>2 DEF StreamInv, FlowInv
    <3> QED BY <1>1, <1>6, <2>1, <3>1 DEF StreamInv, FlowInv
  <2>4. flow = <<>> /\ buffer # <<>> => Broken \/ link' = "left"
      BY <1>1 DEF StreamInv, BufferInv
  <2> QED BY <1>1, <1>2, <1>5, <2>1, <2>3, <2>4, UnreadKeeps
<1>7. CASE link = "up"
  <2>1. flow' = sock \o line
      BY <1>1, <1>7 DEF flow
  <2>2. Chained(sock) /\ \A i \in 1..Len(sock) : sock[i].of < e /\ sock[i].of \in Nat
    <3>1. \A i \in 1..Len(sock) : sock[i] \in Parts
        BY <1>2
    <3>2. \A i \in 1..Len(sock) : sock[i].of \in Nat
        BY <3>1 DEF Parts
    <3> QED BY <1>2, <1>4, <3>2 DEF StreamInv, FlowInv
  <2>3. line # <<>> /\ 1 \in 1..Len(line) /\ line[1].of = e
      BY <1>3
  <2>4. sock # <<>> => sock[Len(sock)].is = "tail" /\ sock[Len(sock)].of < line[1].of
    <3>1. sock # <<>> => Len(sock) \in 1..Len(sock)
        BY <1>2
    <3> QED BY <1>4, <1>7, <2>2, <2>3, <3>1 DEF StreamInv, FlowInv
  <2>5. /\ Chained(flow') /\ flow' # <<>> /\ flow'[Len(flow')] = line[Len(line)]
        /\ flow'[1] = IF sock = <<>> THEN line[1] ELSE sock[1]
        /\ \A i \in 1..Len(flow') : \/ i \in 1..Len(sock) /\ flow'[i] = sock[i]
                                    \/ i - Len(sock) \in 1..Len(line) /\ flow'[i] = line[i - Len(sock)]
      BY <1>2, <1>3, <2>1, <2>2, <2>3, <2>4, LineAdded
  <2>6. \A i \in 1..Len(flow') : flow'[i].of <= e /\ (flow'[i].is = "middle" => flow'[i].of \in Long)
    <3> SUFFICES ASSUME NEW i \in 1..Len(flow')
                 PROVE  flow'[i].of <= e /\ (flow'[i].is = "middle" => flow'[i].of \in Long)
        OBVIOUS
    <3>1. CASE i \in 1..Len(sock) /\ flow'[i] = sock[i]
        BY <1>2, <1>4, <2>2, <3>1 DEF StreamInv, FlowInv
    <3>2. CASE i - Len(sock) \in 1..Len(line) /\ flow'[i] = line[i - Len(sock)]
        BY <1>2, <1>3, <3>2
    <3> QED BY <2>5, <3>1, <3>2
  <2>7. FlowInv'
      BY <1>1, <1>3, <1>7, <2>5, <2>6 DEF FlowInv, Chained
  <2> QED BY <1>1, <1>2, <1>3, <1>4, <1>5, <1>7, <2>3, <2>5, <2>7, UnreadKeeps
<1> QED BY <1>6, <1>7

\* The other steps that read nothing.
LEMMA IdleStep ==
    ASSUME StreamInv,
           Events!WritePart \/ Events!Goes \/ Events!Comes \/ Events!PauseEnds \/ Events!EnsureConnected
    PROVE  StreamInv'
<1>1. CASE Events!WritePart
  <2>1. /\ sock' = Append(sock, Head(unsent)) /\ unsent' = Tail(unsent) /\ unsent # <<>>
        /\ UNCHANGED <<compositor, link, buffer, delivered, seen>>
      BY <1>1 DEF Events!WritePart
  <2>2. sock' \in Seq(Parts) /\ unsent' \in Seq(Parts) /\ flow' = flow
    <3>1. sock \in Seq(Parts) /\ unsent \in Seq(Parts)
        BY DEF StreamInv, StreamType
    <3> QED BY <2>1, <3>1, PartWritten DEF flow
  <2>3. StreamType'
      BY <2>1, <2>2 DEF StreamInv, StreamType
  <2>4. FlowInv'
      BY <2>1, <2>2 DEF StreamInv, FlowInv
  <2>5. flow = <<>> /\ buffer # <<>> => Broken \/ link' = "left"
      BY <2>1 DEF StreamInv, BufferInv
  <2>6. compositor.sent <= compositor'.sent
      BY <2>1 DEF StreamInv, StreamType
  <2> QED BY <2>1, <2>2, <2>3, <2>4, <2>5, <2>6, UnreadKeeps
<1>2. CASE Events!Goes
  <2>1. /\ compositor'.sent = compositor.sent /\ unsent' = <<>> /\ UNCHANGED <<sock, buffer, delivered, seen>>
        /\ link' = IF link = "up" THEN "left" ELSE link
    <3>1. compositor' = [compositor EXCEPT !.up = FALSE]
        BY <1>2 DEF Events!Goes
    <3> QED BY <1>2, <3>1 DEF Events!Goes
  <2>2. sock \in Seq(Parts) /\ unsent \in Seq(Parts) /\ flow' = sock
      BY <2>1 DEF StreamInv, StreamType, flow
  <2>3. Chained(sock) /\ Len(sock) <= Len(flow) /\ \A i \in 1..Len(sock) : flow[i] = sock[i]
      BY <2>2, CutChained DEF StreamInv, FlowInv, flow
  <2>4. StreamType'
      BY <2>1, <2>2 DEF StreamInv, StreamType
  <2>5. FlowInv'
    <3>1. \A i \in 1..Len(sock) : i \in 1..Len(flow)
        BY <2>2, <2>3, FlowType DEF StreamInv
    <3>2. link = "down" => flow = <<>> /\ sock = <<>>
        BY <2>2 DEF StreamInv, FlowInv, flow
    <3> QED BY <2>1, <2>2, <2>3, <3>1, <3>2 DEF StreamInv, FlowInv, Chained
  <2>6. sock # <<>> => flow # <<>> /\ flow[1] = sock[1]
    <3>1. sock # <<>> => 1 \in 1..Len(sock) /\ Len(flow) # 0
        BY <2>2, <2>3, FlowType DEF StreamInv
    <3> QED BY <2>3, <3>1
  <2>7. compositor.sent <= compositor'.sent
      BY <2>1 DEF StreamInv, StreamType
  <2>8. flow' = <<>> /\ buffer # <<>> => Broken \/ link' = "left"
    <3>1. link = "down" => flow = <<>>
        BY DEF StreamInv, FlowInv
    <3>2. link \in {"up", "left", "down"}
        BY DEF StreamInv, StreamType
    <3> QED BY <2>1, <3>1, <3>2 DEF StreamInv, BufferInv
  <2> QED BY <2>1, <2>2, <2>4, <2>5, <2>6, <2>7, <2>8, UnreadKeeps
<1>3. CASE Events!Comes \/ Events!PauseEnds \/ Events!EnsureConnected
  <2>1. /\ compositor'.sent = compositor.sent /\ UNCHANGED <<unsent, sock, buffer, delivered, seen>>
        /\ link' = link \/ (link = "down" /\ link' = "up")
    <3>1. CASE Events!Comes
      <4>1. compositor' = [compositor EXCEPT !.up = TRUE]
          BY <3>1 DEF Events!Comes
      <4> QED BY <3>1, <4>1 DEF Events!Comes
    <3>2. CASE Events!PauseEnds \/ Events!EnsureConnected
        BY <3>2 DEF Events!PauseEnds, Events!EnsureConnected, Events!peer
    <3> QED BY <1>3, <3>1, <3>2
  <2>2. flow' = flow
      BY <2>1 DEF flow
  <2>3. StreamType'
      BY <2>1 DEF StreamInv, StreamType
  <2>4. FlowInv'
      BY <2>1, <2>2 DEF StreamInv, FlowInv
  <2>5. flow = <<>> /\ buffer # <<>> => Broken \/ link' = "left"
      BY <2>1 DEF StreamInv, BufferInv
  <2>6. compositor.sent <= compositor'.sent
      BY <2>1 DEF StreamInv, StreamType
  <2> QED BY <2>1, <2>2, <2>3, <2>4, <2>5, <2>6, UnreadKeeps
<1> QED BY <1>1, <1>2, <1>3

\* What is read is the first part under way.
LEMMA ReadsFirst ==
    ASSUME StreamInv, Events!ReadAvailable
    PROVE  /\ UNCHANGED <<compositor, unsent, link>>
           /\ flow \in Seq(Parts) /\ flow' \in Seq(Parts) /\ flow # <<>> /\ flow[1] \in Parts
           /\ flow[1].of <= compositor.sent /\ (flow[1].is = "middle" => flow[1].of \in Long)
           /\ sock' \in Seq(Parts) /\ FlowInv' /\ Events!Push(flow[1])
           /\ flow' # <<>> => flow'[1] \in Parts /\ Follows(flow[1], flow'[1])
           /\ flow' = <<>> /\ flow[1].is # "tail" => link = "left"
           /\ seen' = IF flow[1].is = "tail" THEN [seen EXCEPT !.received = @ \cup {flow[1].of}]
                      ELSE IF flow[1].is = "head" /\ buffer # <<>>
                           THEN [seen EXCEPT !.joined = @ \cup {flow[1].of}] ELSE seen
<1>1. /\ UNCHANGED <<compositor, unsent, link>> /\ sock # <<>> /\ sock' = Tail(sock) /\ link # "down"
      /\ Events!Push(Head(sock))
    BY DEF Events!ReadAvailable, Events!peer
<1>2. sock \in Seq(Parts) /\ unsent \in Seq(Parts) /\ flow \in Seq(Parts)
    BY FlowType DEF StreamInv, StreamType
<1>3. /\ Head(sock) \in Parts /\ sock' \in Seq(Parts)
      /\ flow # <<>> /\ flow[1] = Head(sock) /\ flow' = Tail(flow)
    BY <1>1, <1>2, PartRead DEF flow
<1>4. /\ Chained(flow') /\ Len(flow') = Len(flow) - 1 /\ Len(flow) \in Nat /\ Len(flow) > 0
      /\ \A i \in 1..(Len(flow) - 1) : flow'[i] = flow[i + 1]
      /\ flow' # <<>> => Follows(flow[1], flow'[1])
  <2>1. Chained(flow)
      BY DEF StreamInv, FlowInv
  <2>2. Len(flow) \in Nat /\ Len(flow) > 0
      BY <1>2, <1>3
  <2> QED BY <1>2, <1>3, <2>1, <2>2, RestChained
<1>5. flow' \in Seq(Parts) /\ (flow' # <<>> => flow'[1] \in Parts /\ Len(flow') > 0)
  <2>1. flow' \in Seq(Parts)
      BY <1>2, <1>3
  <2> QED BY <2>1
<1>6. FlowInv'
  <2>1. link = "up" /\ flow' # <<>> => flow'[Len(flow')].is = "tail"
    <3> SUFFICES ASSUME link = "up", flow' # <<>> PROVE flow'[Len(flow')].is = "tail"
        OBVIOUS
    <3>1. Len(flow') \in 1..(Len(flow) - 1) /\ Len(flow') + 1 = Len(flow)
        BY <1>4, <1>5
    <3>2. flow'[Len(flow')] = flow[Len(flow)]
        BY <1>4, <3>1
    <3> QED BY <1>3, <3>2 DEF StreamInv, FlowInv
  <2>2. \A i \in 1..Len(flow') :
            flow'[i].of <= compositor.sent /\ (flow'[i].is = "middle" => flow'[i].of \in Long)
    <3>1. \A i \in 1..Len(flow') : i \in 1..(Len(flow) - 1) /\ i + 1 \in 1..Len(flow)
        BY <1>4
    <3> QED BY <1>4, <3>1 DEF StreamInv, FlowInv
  <2>3. link # "up" => unsent' = <<>>
      BY <1>1 DEF StreamInv, FlowInv
  <2> QED BY <1>1, <1>4, <2>1, <2>2, <2>3 DEF FlowInv
<1>7. flow' = <<>> /\ flow[1].is # "tail" => link = "left"
  <2>1. flow' = <<>> => Len(flow) = 1
      BY <1>4
  <2>2. link \in {"up", "left", "down"}
      BY DEF StreamInv, StreamType
  <2> QED BY <1>1, <1>3, <2>1, <2>2 DEF StreamInv, FlowInv
<1>8. 1 \in 1..Len(flow)
    BY <1>4
<1>9. flow[1].of <= compositor.sent /\ (flow[1].is = "middle" => flow[1].of \in Long)
    BY <1>8 DEF StreamInv, FlowInv
<1>10. seen' = IF flow[1].is = "tail" THEN [seen EXCEPT !.received = @ \cup {flow[1].of}]
               ELSE IF flow[1].is = "head" /\ buffer # <<>>
                    THEN [seen EXCEPT !.joined = @ \cup {flow[1].of}] ELSE seen
    BY <1>3 DEF Events!ReadAvailable
<1> QED BY <1>1, <1>2, <1>3, <1>4, <1>5, <1>6, <1>7, <1>9, <1>10

\* What has broken off, or was delivered, came before what is read after the part p.
LEMMA LaterStill ==
    ASSUME StreamInv, Events!ReadAvailable
    PROVE  /\ \A o \in seen.off : o \in Nat /\ o < flow[1].of /\ (flow' # <<>> => o < flow'[1].of)
           /\ \A i \in 1..Len(delivered) : \A d \in delivered[i] :
                 d \in Nat /\ d < flow[1].of /\ (flow' # <<>> => d < flow'[1].of)
<1>1. flow # <<>> /\ flow[1] \in Parts /\ (flow' # <<>> => flow'[1] \in Parts /\ Follows(flow[1], flow'[1]))
    BY ReadsFirst
<1>2. flow[1].of \in Nat /\ (flow' # <<>> => flow'[1].of \in Nat /\ flow[1].of <= flow'[1].of)
    BY <1>1 DEF Parts, Follows
<1>3. \A o \in seen.off : o \in Nat /\ o < flow[1].of
    BY <1>1 DEF StreamInv, StreamType, OffInv
<1>4. ASSUME NEW i \in 1..Len(delivered), NEW d \in delivered[i] PROVE d \in Nat /\ d < flow[1].of
  <2>1. delivered[i] \in SUBSET Nat
      BY DEF StreamInv, StreamType
  <2> QED BY <1>1, <2>1 DEF StreamInv, DeliveredInv
<1>5. \A d \in Nat : d < flow[1].of /\ flow' # <<>> => d < flow'[1].of
    BY <1>2
<1> QED BY <1>3, <1>4, <1>5

\* A part that does not end its line goes into the buffer, or the buffer is cleared.
LEMMA ReadOn ==
    ASSUME StreamInv, Events!ReadAvailable, flow[1].is # "tail"
    PROVE  StreamInv'
<1> DEFINE p == flow[1]
<1>1. /\ UNCHANGED <<compositor, unsent, link>> /\ flow # <<>> /\ p \in Parts /\ p.of <= compositor.sent
      /\ p.is = "middle" => p.of \in Long
      /\ flow' # <<>> => flow'[1] \in Parts /\ Follows(p, flow'[1])
      /\ flow' = <<>> => link = "left"
      /\ sock' \in Seq(Parts) /\ FlowInv'
      /\ seen' = IF p.is = "head" /\ buffer # <<>> THEN [seen EXCEPT !.joined = @ \cup {p.of}] ELSE seen
    BY ReadsFirst
<1>2. /\ UNCHANGED delivered
      /\ buffer' = IF Len(Append(buffer, p)) > MaxBuffered THEN <<>> ELSE Append(buffer, p)
    BY ReadsFirst DEF Events!Push
<1> HIDE DEF p
<1>3. /\ buffer \in Seq(Parts) /\ Append(buffer, p) \in Seq(Parts) /\ p.of \in Nat /\ compositor.sent \in Nat
      /\ p.is \in {"head", "middle"}
    BY <1>1 DEF StreamInv, StreamType, Parts, p
<1>4. /\ seen'.off = seen.off /\ seen'.received = seen.received /\ seen.joined \subseteq seen'.joined
      /\ seen'.joined = IF p.is = "head" /\ buffer # <<>> THEN seen.joined \cup {p.of} ELSE seen.joined
      /\ seen' \in [off : SUBSET Nat, received : SUBSET Nat, joined : SUBSET Nat]
    BY <1>1, <1>3 DEF StreamInv, StreamType
<1>5. IsFiniteSet(seen.joined) /\ IsFiniteSet(seen.off)
    BY DEF StreamInv, StreamType
<1>6. IsFiniteSet(seen'.joined) /\ Cardinality(seen'.joined) \in Nat
      /\ Cardinality(seen.joined) \in Nat /\ Cardinality(seen.off) \in Nat
      /\ Cardinality(seen'.joined) <= Cardinality(seen.joined) + 1
  <2>1. /\ IsFiniteSet(seen.joined \cup {p.of})
        /\ Cardinality(seen.joined \cup {p.of}) = Cardinality(seen.joined)
           \/ Cardinality(seen.joined \cup {p.of}) = Cardinality(seen.joined) + 1
      BY <1>5, FS_AddElement
  <2>2. Cardinality(seen.joined) \in Nat /\ Cardinality(seen.off) \in Nat
      BY <1>5, FS_CardinalityType
  <2> QED BY <1>4, <1>5, <2>1, <2>2
<1>7. StreamType'
  <2>1. buffer' \in Seq(Parts)
      BY <1>2, <1>3
  <2> QED BY <1>1, <1>2, <1>4, <1>5, <1>6, <2>1 DEF StreamInv, StreamType
<1>8. \A o \in seen.off : o < p.of /\ o \in Nat
    BY LaterStill DEF p
<1>9. \/ buffer' = <<>> /\ (buffer # <<>> \/ p.of \in seen'.joined \cup Long)
      \/ buffer' = Append(buffer, p) /\ buffer' # <<>> /\ LastOf' = p.of
  <2>1. Append(buffer, p) # <<>> /\ Append(buffer, p)[Len(Append(buffer, p))] = p
      BY <1>3
  <2>2. buffer = <<>> => ~(Len(Append(buffer, p)) > MaxBuffered)
      BY ProcessesAssumption
  <2> QED BY <1>2, <2>1, <2>2 DEF LastOf
<1>10. ~Broken'
    BY <1>4, <1>8, <1>9, <1>3 DEF Broken
<1>11. OffInv'
  <2>1. Cardinality(seen'.joined) <= Cardinality(seen.off)
    <3>1. Cardinality(seen.joined) + (IF Broken THEN 1 ELSE 0) <= Cardinality(seen.off)
        BY DEF StreamInv, OffInv
    <3>2. CASE p.is = "head" /\ buffer # <<>>
      <4>1. Broken
          BY <1>1, <3>2 DEF StreamInv, BufferInv, p
      <4> QED BY <1>6, <3>1, <4>1
    <3>3. CASE ~(p.is = "head" /\ buffer # <<>>)
        BY <1>4, <1>6, <3>1, <3>3
    <3> QED BY <3>2, <3>3
  <2>2. \A o \in seen.off : o <= compositor.sent /\ (flow' # <<>> => o < flow'[1].of)
      BY LaterStill DEF StreamInv, OffInv
  <2> QED BY <1>1, <1>4, <1>6, <1>10, <2>1, <2>2 DEF OffInv
<1>12. flow' # <<>> => flow'[1].is # "head" /\ flow'[1].of = p.of
    BY <1>1 DEF Follows, p
<1>13. BufferInv'
  <2>1. CASE buffer' = <<>>
    <3>1. Fused(buffer, seen.off, seen.joined)'
        BY <2>1 DEF Fused
    <3>2. p.of \in Long \cup seen'.joined
        BY <1>1, <1>3, <1>4, <1>9, <2>1
    <3> QED BY <1>12, <2>1, <3>1, <3>2 DEF BufferInv
  <2>2. CASE buffer' = Append(buffer, p) /\ buffer' # <<>> /\ LastOf' = p.of
    <3>1. CASE buffer = <<>>
      <4>1. buffer' = <<p>>
          BY <2>2, <3>1
      <4>2. Fused(buffer, seen.off, seen.joined)'
          BY <1>3, <4>1, FusedAlone, <1>1
      <4>3. p.of \notin Long => p = [of |-> p.of, is |-> "head"]
          BY <1>1, <1>3 DEF Parts
      <4> QED BY <1>1, <1>12, <2>2, <4>1, <4>2, <4>3 DEF BufferInv
    <3>2. CASE buffer # <<>>
      <4>1. IF p.is = "head" THEN Broken ELSE p.of = LastOf
          BY <1>1, <3>2 DEF StreamInv, BufferInv, p
      <4>2. IF p.is = "head" THEN LastOf \in seen.off /\ LastOf < p.of /\ p.of \in seen'.joined
            ELSE p.of = LastOf
          BY <1>4, <1>8, <3>2, <4>1 DEF Broken
      <4>3. Fused(buffer, seen.off, seen.joined) /\ p.is # "tail"
          BY <1>3 DEF StreamInv, BufferInv
      <4>4. Fused(Append(buffer, p), seen.off, seen'.joined)
          BY <1>1, <1>3, <1>4, <3>2, <4>2, <4>3, FusedAppend DEF LastOf
      <4>5. Fused(buffer, seen.off, seen.joined)'
          BY <1>4, <2>2, <4>4
      <4>6. p.is = "head" => p.of \in seen'.joined
          BY <4>2
      <4>7. p.of \in Long \cup seen'.joined
        <5>1. CASE p.is = "head"
            BY <4>6, <5>1
        <5>2. CASE p.is = "middle"
            BY <1>1, <5>2
        <5> QED BY <1>3, <5>1, <5>2
      <4> QED BY <1>1, <1>12, <2>2, <4>5, <4>7 DEF BufferInv
    <3> QED BY <3>1, <3>2
  <2> QED BY <1>9, <2>1, <2>2
<1>14. DeliveredInv'
  <2> SUFFICES ASSUME NEW i \in 1..Len(delivered), NEW d \in delivered[i]
               PROVE  /\ d <= compositor.sent /\ (flow' # <<>> => d < flow'[1].of)
                      /\ \A j \in 1..Len(buffer') : d < buffer'[j].of
      BY <1>1, <1>2 DEF DeliveredInv
  <2>1. d <= compositor.sent /\ \A j \in 1..Len(buffer) : d < buffer[j].of
      BY DEF StreamInv, DeliveredInv
  <2>2. d < p.of /\ (flow' # <<>> => d < flow'[1].of)
      BY LaterStill DEF p
  <2>3. \A j \in 1..Len(Append(buffer, p)) :
            Append(buffer, p)[j] = p \/ (j \in 1..Len(buffer) /\ Append(buffer, p)[j] = buffer[j])
      BY <1>3
  <2>4. ASSUME NEW j \in 1..Len(buffer') PROVE d < buffer'[j].of
    <3>1. buffer' # <<>>
        BY <2>4
    <3>2. buffer' = Append(buffer, p)
        BY <1>2, <3>1
    <3> QED BY <2>1, <2>2, <2>3, <2>4, <3>2
  <2> QED BY <2>1, <2>2, <2>4
<1>15. InOrder'
    BY <1>2, <1>4 DEF StreamInv, InOrder
<1> QED BY <1>1, <1>7, <1>11, <1>13, <1>14, <1>15 DEF StreamInv

\* A line's end: what the buffer holds is delivered.
LEMMA ReadTail ==
    ASSUME StreamInv, Events!ReadAvailable, flow[1].is = "tail"
    PROVE  StreamInv'
<1> DEFINE t == flow[1]
           event == Events!Event(Append(buffer, t))
<1>1. /\ UNCHANGED <<compositor, unsent, link>> /\ flow # <<>> /\ t \in Parts /\ t.of <= compositor.sent
      /\ flow' # <<>> => flow'[1] \in Parts /\ Follows(t, flow'[1])
      /\ sock' \in Seq(Parts) /\ FlowInv'
      /\ seen' = [seen EXCEPT !.received = @ \cup {t.of}]
    BY ReadsFirst
<1>2. buffer' = <<>> /\ delivered' = IF event = {} THEN delivered ELSE Append(delivered, event)
    BY ReadsFirst DEF Events!Push, Events!Deliver
<1>3. buffer \in Seq(Parts) /\ t.of \in Nat /\ compositor.sent \in Nat /\ delivered \in Seq(SUBSET Nat)
    BY <1>1 DEF StreamInv, StreamType, Parts
<1>4. /\ seen'.off = seen.off /\ seen'.joined = seen.joined /\ seen'.received = seen.received \cup {t.of}
      /\ seen' \in [off : SUBSET Nat, received : SUBSET Nat, joined : SUBSET Nat]
    BY <1>1, <1>3 DEF StreamInv, StreamType
<1>5. /\ Fused(buffer, seen.off, seen.joined) /\ (buffer # <<>> => t.of = buffer[Len(buffer)].of)
      /\ t.of \notin Long \cup seen.joined => buffer = <<[of |-> t.of, is |-> "head"]>>
    BY <1>1 DEF StreamInv, BufferInv, LastOf
<1>6. event # {} =>
          /\ t.of \in event /\ event \subseteq {buffer[i].of : i \in 1..Len(buffer)}
          /\ \A d \in event \ {t.of} : d < t.of /\ d \in seen.off
          /\ event = {t.of} \/ t.of \in seen.joined
    BY <1>1, <1>3, <1>5, FusedEvent
<1>7. t.of \notin Long \cup seen.joined => event = {t.of}
  <2> SUFFICES ASSUME t.of \notin Long \cup seen.joined PROVE event = {t.of}
      OBVIOUS
  <2>1. buffer = <<[of |-> t.of, is |-> "head"]>>
      BY <1>5
  <2>2. Len(Append(buffer, t)) = 2 /\ Append(buffer, t)[1] = [of |-> t.of, is |-> "head"]
        /\ Append(buffer, t)[2] = t /\ DOMAIN Append(buffer, t) = 1..2
      BY <1>3, <2>1
  <2>3. {j \in 1..2 : Append(buffer, t)[j].is = "head"} = {1}
      BY <2>2
  <2> HIDE DEF t
  <2> QED BY <2>2, <2>3 DEF Events!Event
<1> HIDE DEF t, event
<1>8. event \in SUBSET Nat
  <2>1. \A i \in 1..Len(buffer) : buffer[i] \in Parts
      BY <1>3
  <2>2. \A i \in 1..Len(buffer) : buffer[i].of \in Nat
      BY <2>1 DEF Parts
  <2> QED BY <1>6, <2>2
<1>9. StreamType'
  <2>1. delivered' \in Seq(SUBSET Nat) /\ buffer' \in Seq(Parts)
    <3>1. Append(delivered, event) \in Seq(SUBSET Nat)
        BY <1>3, <1>8
    <3>2. delivered' \in Seq(SUBSET Nat)
        BY <1>2, <1>3, <3>1
    <3> QED BY <1>2, <3>2
  <2> QED BY <1>1, <1>4, <2>1 DEF StreamInv, StreamType
<1>10. BufferInv'
  <2>1. Fused(buffer, seen.off, seen.joined)'
      BY <1>2 DEF Fused
  <2>2. flow' # <<>> => flow'[1].is = "head"
      BY <1>1 DEF Follows, t
  <2> QED BY <1>2, <2>1, <2>2 DEF BufferInv
<1>11. OffInv'
  <2>1. ~Broken'
      BY <1>2 DEF Broken
  <2>2. \A o \in seen.off : o <= compositor.sent /\ (flow' # <<>> => o < flow'[1].of)
      BY LaterStill DEF StreamInv, OffInv
  <2>3. Cardinality(seen.joined) <= Cardinality(seen.off)
    <3>1. Cardinality(seen.joined) \in Nat /\ Cardinality(seen.off) \in Nat
        BY FS_CardinalityType DEF StreamInv, StreamType
    <3> QED BY <3>1 DEF StreamInv, OffInv
  <2>4. Cardinality(seen.joined) \in Nat
      BY FS_CardinalityType DEF StreamInv, StreamType
  <2> QED BY <1>1, <1>4, <2>1, <2>2, <2>3, <2>4 DEF OffInv
\* What is delivered is what was before, and the event at the end.
<1>12. /\ Len(delivered) \in Nat /\ Len(delivered) <= Len(delivered')
       /\ \A i \in 1..Len(delivered) : i \in 1..Len(delivered') /\ delivered'[i] = delivered[i]
       /\ \A i \in 1..Len(delivered') : i \notin 1..Len(delivered) =>
              i = Len(delivered) + 1 /\ delivered'[i] = event /\ event # {}
       /\ event # {} => Len(delivered) + 1 \in 1..Len(delivered') /\ delivered'[Len(delivered) + 1] = event
    BY <1>2, <1>3
<1>13. ASSUME event # {}, NEW d \in event
       PROVE  /\ d <= t.of /\ d \in Nat /\ (flow' # <<>> => d < flow'[1].of)
              /\ \A i \in 1..Len(delivered) : \A c \in delivered[i] : c < d
  <2>1. d <= t.of /\ d \in Nat
      BY <1>3, <1>6, <1>8, <1>13
  <2>2. flow' # <<>> => t.of < flow'[1].of /\ flow'[1].of \in Nat
      BY <1>1 DEF Follows, Parts, t
  <2>3. PICK j \in 1..Len(buffer) : d = buffer[j].of
      BY <1>6, <1>13
  <2>4. \A i \in 1..Len(delivered) : \A c \in delivered[i] : c < d
      BY <2>3 DEF StreamInv, DeliveredInv
  <2> QED BY <1>3, <2>1, <2>2, <2>4
<1>14. DeliveredInv'
  <2> SUFFICES ASSUME NEW i \in 1..Len(delivered'), NEW d \in delivered'[i]
               PROVE  d <= compositor.sent /\ (flow' # <<>> => d < flow'[1].of)
      BY <1>1, <1>2 DEF DeliveredInv
  <2>1. CASE i \in 1..Len(delivered)
    <3>1. d \in delivered[i]
        BY <1>12, <2>1
    <3> QED BY <2>1, <3>1, LaterStill DEF StreamInv, DeliveredInv
  <2>2. CASE i \notin 1..Len(delivered)
    <3>1. event # {} /\ d \in event
        BY <1>12, <2>2
    <3>2. d <= t.of /\ d \in Nat /\ (flow' # <<>> => d < flow'[1].of)
        BY <1>13, <3>1
    <3> QED BY <1>1, <1>3, <3>2 DEF t
  <2> QED BY <2>1, <2>2
<1>15. ASSUME NEW i \in 1..Len(delivered')
       PROVE  \E e \in delivered'[i] \cap seen'.received :
                 /\ \A d \in delivered'[i] \ {e} : d < e /\ d \in seen'.off
                 /\ delivered'[i] = {e} \/ e \in seen'.joined
  <2>1. CASE i \in 1..Len(delivered)
    <3>1. PICK e \in delivered[i] \cap seen.received :
             /\ \A d \in delivered[i] \ {e} : d < e /\ d \in seen.off
             /\ delivered[i] = {e} \/ e \in seen.joined
        BY <2>1 DEF StreamInv, InOrder
    <3>2. delivered'[i] = delivered[i] /\ e \in seen'.received
        BY <1>4, <1>12, <2>1, <3>1
    <3> QED BY <1>4, <3>1, <3>2
  <2>2. CASE i \notin 1..Len(delivered)
    <3>1. delivered'[i] = event /\ event # {}
        BY <1>12, <2>2
    <3> QED BY <1>4, <1>6, <3>1
  <2> QED BY <2>1, <2>2
<1>16. ASSUME NEW i \in 1..Len(delivered'), NEW j \in 1..Len(delivered'), j < i,
              NEW d \in delivered'[j], NEW e \in delivered'[i]
       PROVE  d < e
  <2>1. j \in 1..Len(delivered) /\ d \in delivered[j]
      BY <1>12, <1>16
  <2>2. CASE i \in 1..Len(delivered)
    <3>1. e \in delivered[i]
        BY <1>12, <2>2
    <3> QED BY <1>16, <2>1, <2>2, <3>1 DEF StreamInv, InOrder
  <2>3. CASE i \notin 1..Len(delivered)
    <3>1. event # {} /\ e \in event
        BY <1>12, <2>3
    <3> QED BY <1>13, <2>1, <3>1
  <2> QED BY <2>2, <2>3
<1>17. ASSUME NEW e \in seen'.received \ (Long \cup seen'.joined)
       PROVE  \E i \in 1..Len(delivered') : delivered'[i] = {e}
  <2>1. CASE e \in seen.received
    <3>1. PICK i \in 1..Len(delivered) : delivered[i] = {e}
        BY <1>4, <1>17, <2>1 DEF StreamInv, InOrder
    <3> QED BY <1>12, <3>1
  <2>2. CASE e = t.of
    <3>1. event = {e} /\ event # {}
        BY <1>4, <1>7, <1>17, <2>2
    <3> QED BY <1>12, <3>1
  <2> QED BY <1>4, <1>17, <2>1, <2>2
<1>18. InOrder'
    BY <1>15, <1>16, <1>17 DEF InOrder
<1> QED BY <1>1, <1>9, <1>10, <1>11, <1>14, <1>18 DEF StreamInv

\* The end of a connection.
LEMMA EndStep == StreamInv /\ Events!ReadEnd => StreamInv'
<1> SUFFICES ASSUME StreamInv, Events!ReadEnd PROVE StreamInv'
    OBVIOUS
<1>1. /\ link = "left" /\ sock = <<>> /\ link' = "down" /\ UNCHANGED <<compositor, unsent, sock, buffer, delivered>>
      /\ seen' = IF buffer = <<>> THEN seen ELSE [seen EXCEPT !.off = @ \cup {Events!Last(buffer).of}]
    BY DEF Events!ReadEnd, Events!peer
<1>2. buffer \in Seq(Parts) /\ compositor.sent \in Nat
    BY DEF StreamInv, StreamType
<1>3. buffer # <<>> => LastOf \in Nat /\ Events!Last(buffer).of = LastOf
  <2>1. buffer # <<>> => buffer[Len(buffer)] \in Parts
      BY <1>2
  <2> QED BY <2>1 DEF LastOf, Parts, Events!Last
<1>4. /\ seen'.joined = seen.joined /\ seen'.received = seen.received
      /\ seen'.off = IF buffer = <<>> THEN seen.off ELSE seen.off \cup {LastOf}
      /\ seen' \in [off : SUBSET Nat, received : SUBSET Nat, joined : SUBSET Nat]
    BY <1>1, <1>3 DEF StreamInv, StreamType
<1>5. flow = <<>> /\ flow' = <<>>
    BY <1>1 DEF StreamInv, FlowInv, flow
<1>6. /\ IsFiniteSet(seen.off) /\ IsFiniteSet(seen'.off)
      /\ Cardinality(seen.off) \in Nat /\ Cardinality(seen'.off) \in Nat /\ Cardinality(seen.joined) \in Nat
      /\ LastOf \notin seen.off /\ buffer # <<>> => Cardinality(seen'.off) = Cardinality(seen.off) + 1
  <2>1. IsFiniteSet(seen.off) /\ IsFiniteSet(seen.joined)
      BY DEF StreamInv, StreamType
  <2>2. /\ IsFiniteSet(seen.off \cup {LastOf})
        /\ LastOf \notin seen.off => Cardinality(seen.off \cup {LastOf}) = Cardinality(seen.off) + 1
      BY <2>1, FS_AddElement
  <2>3. IsFiniteSet(seen'.off)
      BY <1>4, <2>1, <2>2
  <2>4. /\ Cardinality(seen.off) \in Nat /\ Cardinality(seen'.off) \in Nat /\ Cardinality(seen.joined) \in Nat
      BY <2>1, <2>3, FS_CardinalityType
  <2> QED BY <1>4, <2>1, <2>2, <2>3, <2>4
<1>7. StreamType'
    BY <1>1, <1>4, <1>6 DEF StreamInv, StreamType
<1>8. FlowInv'
    BY <1>1, <1>5 DEF StreamInv, FlowInv
<1>9. Broken' <=> buffer # <<>>
    BY <1>1, <1>4 DEF Broken, LastOf
<1>10. LastOf' = LastOf
    BY <1>1 DEF LastOf
<1>11. BufferInv'
  <2>1. Fused(buffer, seen.off, seen.joined)'
      BY <1>1, <1>4 DEF StreamInv, BufferInv, Fused
  <2> QED BY <1>1, <1>5, <1>9, <1>10, <2>1 DEF StreamInv, BufferInv
<1>12. OffInv'
  <2>1. \A o \in seen'.off : o <= compositor.sent
      BY <1>4 DEF StreamInv, OffInv, BufferInv
  <2>2. Cardinality(seen.joined) + (IF buffer # <<>> THEN 1 ELSE 0) <= Cardinality(seen'.off)
    <3>1. Cardinality(seen.joined) + (IF Broken THEN 1 ELSE 0) <= Cardinality(seen.off)
        BY DEF StreamInv, OffInv
    <3>2. CASE buffer = <<>> \/ Broken
      <4>1. seen'.off = seen.off
          BY <1>4, <3>2 DEF Broken
      <4> QED BY <1>6, <3>1, <3>2, <4>1 DEF Broken
    <3>3. CASE buffer # <<>> /\ ~Broken
      <4>1. Cardinality(seen'.off) = Cardinality(seen.off) + 1
          BY <1>6, <3>3 DEF Broken
      <4> QED BY <1>6, <3>1, <3>3, <4>1
    <3> QED BY <3>2, <3>3
  <2> QED BY <1>1, <1>4, <1>5, <1>9, <2>1, <2>2 DEF OffInv
<1>13. DeliveredInv'
    BY <1>1, <1>5 DEF StreamInv, DeliveredInv
<1>14. InOrder'
    BY <1>1, <1>4 DEF StreamInv, InOrder
<1> QED BY <1>7, <1>8, <1>11, <1>12, <1>13, <1>14 DEF StreamInv

LEMMA StreamStep == StreamInv /\ (Events!Next \/ UNCHANGED stream) => StreamInv'
<1>1. StreamInv /\ UNCHANGED stream => StreamInv'
  <2> SUFFICES ASSUME StreamInv, UNCHANGED stream PROVE StreamInv'
      OBVIOUS
  <2>1. UNCHANGED <<compositor, unsent, sock, link, buffer, delivered, seen>>
      BY DEF stream
  <2>2. flow' = flow /\ LastOf' = LastOf /\ Broken' = Broken
      BY <2>1 DEF flow, LastOf, Broken
  <2>3. StreamType' /\ FlowInv'
      BY <2>1, <2>2 DEF StreamInv, StreamType, FlowInv
  <2>4. BufferInv' /\ OffInv'
      BY <2>1, <2>2 DEF StreamInv, BufferInv, OffInv
  <2>5. DeliveredInv' /\ InOrder'
      BY <2>1, <2>2 DEF StreamInv, DeliveredInv, InOrder
  <2> QED BY <2>3, <2>4, <2>5 DEF StreamInv
<1> QED BY <1>1, SendStep, IdleStep, ReadOn, ReadTail, EndStep DEF Events!Next

LEMMA StreamAlways == Spec => []StreamInv
BY StreamInit, StreamStep, PartSteps, PTL DEF Spec

\* The events are delivered in order, each once and whole but for those fused with what a connection
\* broke off, and none that came to its end is lost but those too long to hold, for any number of
\* events, of connections and of parts that the buffer holds.
THEOREM EventsOrdered == Spec => []EventsInOrder
<1>1. StreamInv => EventsInOrder
  <2> SUFFICES ASSUME StreamInv PROVE EventsInOrder
      OBVIOUS
  <2>1. Events!Cardinality(seen.joined) <= Events!Cardinality(seen.off)
    <3>1. Cardinality(seen.joined) \in Nat /\ Cardinality(seen.off) \in Nat
        BY FS_CardinalityType DEF StreamInv, StreamType
    <3>2. Cardinality(seen.joined) <= Cardinality(seen.off)
        BY <3>1 DEF StreamInv, OffInv
    <3>3. \A S : Events!Cardinality(S) = Cardinality(S)
        BY DEF Events!Cardinality, Cardinality
    <3> QED BY <3>2, <3>3
  <2>2. Len(delivered) \in Nat /\ DOMAIN delivered = 1..Len(delivered)
      BY DEF StreamInv, StreamType
  <2>3. \A e \in seen.received \ (Long \cup seen.joined) : Events!Contains(delivered, {e})
      BY DEF StreamInv, InOrder, Events!Contains
  <2>4. ASSUME NEW i \in 1..Len(delivered), NEW j \in 1..(i - 1), NEW d \in delivered[j], NEW e \in delivered[i]
        PROVE  d < e
    <3>1. j \in 1..Len(delivered) /\ j < i
        BY <2>2
    <3> QED BY <3>1 DEF StreamInv, InOrder
  <2> QED BY <2>1, <2>2, <2>3, <2>4 DEF EventsInOrder, Events!EventsInOrder, StreamInv, InOrder
<1> QED BY <1>1, StreamAlways, PTL
-----------------------------------------------------------------------------
(* The threads of the indexer: no item of the watcher's is slept on, and a pause lets through *)
(* one batch at most.                                                                         *)

LEMMA ThreadConstants ==
    /\ Files \in Nat /\ MaxWork \in Nat /\ MaxCommands \in Nat /\ Batch \in Nat \ {0}
    /\ Environments \subseteq [interval : BOOLEAN, pause : BOOLEAN]
BY ProcessesAssumption

\* TypeOK in two parts: what is Boolean, and what is counted or a place in the code.
Flags == reconcile \in BOOLEAN /\ reindex \in BOOLEAN /\ paused \in BOOLEAN /\ stop \in BOOLEAN
Counts ==
    /\ env \in Environments
    /\ main \in {"serving", "stop_control", "stop_watcher", "stop", "notify", "join", "done"}
    /\ commander \in {"ready", "notify", "over"} /\ watcher \in {"ready", "notify", "over"}
    /\ worker \in {"off", "top", "eval", "park", "asleep", "serve", "late", "crawl", "file",
                   "gate", "gate_eval", "gate_park", "gate_asleep", "batch", "apply", "exit"}
    /\ after \in {"file", "batch"}
    /\ queue \in 0..MaxWork /\ todo \in 0..Files /\ batch \in 0..Batch
    /\ work \in 0..MaxWork /\ commands \in 0..MaxCommands
    /\ queue + work <= MaxWork
    /\ sincePause \in 0..(Batch + 1)

\* The type, split between flags and counters.
LEMMA ThreadsTypeParts == Threads!TypeOK <=> Flags /\ Counts
BY Zenon DEF Threads!TypeOK, Flags, Counts

\* A crawl goes through the gate only with an entry still to index.
EntryAhead ==
    /\ worker = "file" => todo > 0
    /\ worker \in {"gate", "gate_eval", "gate_park", "gate_asleep"} /\ after = "file" => todo > 0

\* The wait lets go of mtx_ with the queue as its predicate saw it: empty.
QueueInv == Threads!NoLostEnqueue /\ (worker = "park" => queue = 0)

\* What was let through, with what is under way, is one batch at most.
PauseInv == paused /\ ~stop =>
    /\ sincePause <= Batch
    /\ worker = "file" => sincePause = 0
    /\ worker \in {"batch", "apply"} => sincePause + batch <= Batch

\* Every step keeps the flags' type.
LEMMA ThreadFlagsStep == Flags /\ ThreadsStep => Flags'
<1> SUFFICES ASSUME Flags, ThreadsStep PROVE Flags'
    OBVIOUS
<1> USE DEF Flags, Threads!flags
<1>1. CASE UNCHANGED <<reconcile, reindex, paused, stop>>
    BY <1>1
<1>2. CASE Threads!RequestReconcile \/ Threads!RequestReindex
    BY <1>2 DEF Threads!RequestReconcile, Threads!RequestReindex, Threads!Command
<1>3. CASE \E b \in BOOLEAN : Threads!SetPaused(b)
    BY <1>3 DEF Threads!SetPaused, Threads!Command
<1>4. CASE Threads!Stop
    BY <1>4 DEF Threads!Stop
<1>5. CASE Threads!Start
    BY <1>5 DEF Threads!Start
<1>6. CASE Threads!ServeReindex
    BY <1>6 DEF Threads!ServeReindex
<1>7. CASE Threads!ServeReconcile
    BY <1>7 DEF Threads!ServeReconcile
<1>8. CASE UNCHANGED indexing \/ Threads!Enqueue \/ Threads!WatcherNotifies
        \/ Threads!ControlNotifies
    BY <1>1, <1>8 DEF indexing, Threads!Enqueue, Threads!WatcherNotifies,
                      Threads!ControlNotifies
<1>9. CASE Threads!ShutDown \/ Threads!JoinControl \/ Threads!JoinWatcher
        \/ Threads!MainNotifies \/ Threads!JoinWorker
    BY <1>1, <1>9 DEF Threads!ShutDown, Threads!JoinControl, Threads!JoinWatcher,
                      Threads!MainNotifies, Threads!JoinWorker
<1>10. CASE Threads!Top \/ Threads!Eval \/ Threads!Park \/ Threads!Deadline \/ Threads!ServeStop
        \/ Threads!ServeQueue \/ Threads!Crawl
    BY <1>1, <1>10 DEF Threads!Top, Threads!Eval, Threads!Park, Threads!Deadline,
                       Threads!ServeStop, Threads!ServeQueue, Threads!Crawl
<1>11. CASE Threads!Gate \/ Threads!GateEval \/ Threads!IndexEntry \/ Threads!BatchBegin
        \/ Threads!ApplyItem
    BY <1>1, <1>11 DEF Threads!Gate, Threads!GateEval, Threads!IndexEntry, Threads!BatchBegin,
                       Threads!ApplyItem
<1>. QED
    BY <1>2, <1>3, <1>4, <1>5, <1>6, <1>7, <1>8, <1>9, <1>10, <1>11
    DEF ThreadsStep, Threads!Next, Threads!Producers, Threads!Main, Threads!Worker

CountInv == Counts /\ EntryAhead

\* Every step keeps the counters' bounds.
LEMMA ThreadCountStep == CountInv /\ ThreadsStep => CountInv'
<1> SUFFICES ASSUME CountInv, ThreadsStep PROVE CountInv'
    OBVIOUS
<1> USE ThreadConstants DEF CountInv, Counts, EntryAhead, Threads!others, Threads!own
<1>1. CASE UNCHANGED indexing
    BY <1>1 DEF indexing
<1>2. CASE Threads!Enqueue
    BY <1>2 DEF Threads!Enqueue
<1>3. CASE Threads!WatcherNotifies \/ Threads!ControlNotifies
    BY <1>3 DEF Threads!WatcherNotifies, Threads!ControlNotifies, Threads!Notify
<1>4. CASE Threads!RequestReconcile \/ Threads!RequestReindex
    BY <1>4 DEF Threads!RequestReconcile, Threads!RequestReindex, Threads!Command
<1>5. CASE \E b \in BOOLEAN : Threads!SetPaused(b)
    BY <1>5 DEF Threads!SetPaused, Threads!Command
<1>6. CASE Threads!Main
    BY <1>6 DEF Threads!Main, Threads!ShutDown, Threads!JoinControl, Threads!JoinWatcher,
                Threads!Stop, Threads!MainNotifies, Threads!JoinWorker, Threads!Notify
<1>7. CASE Threads!Start \/ Threads!Top \/ Threads!Eval \/ Threads!Park \/ Threads!Deadline
    BY <1>7 DEF Threads!Start, Threads!BeginPass, Threads!Top, Threads!Eval, Threads!Park,
                Threads!Deadline
<1>8. CASE Threads!ServeStop \/ Threads!ServeReindex \/ Threads!ServeReconcile
  <2>1. CASE Threads!ServeStop
      BY <2>1 DEF Threads!ServeStop
  <2>2. CASE Threads!ServeReindex \/ Threads!ServeReconcile
    <3>1. Threads!BeginPass /\ UNCHANGED <<env, Threads!others, queue, after, batch, sincePause>>
        BY <2>2, Zenon DEF Threads!ServeReindex, Threads!ServeReconcile
    <3>. QED
        BY <3>1 DEF Threads!BeginPass
  <2>. QED
      BY <1>8, <2>1, <2>2
<1>9. CASE Threads!ServeQueue
    BY <1>9 DEF Threads!ServeQueue, Threads!Taken, Threads!AfterTake
<1>10. CASE Threads!Crawl \/ Threads!Gate \/ Threads!GateEval
    BY <1>10 DEF Threads!Crawl, Threads!Gate, Threads!GateEval
<1>11. CASE Threads!IndexEntry
    BY <1>11 DEF Threads!IndexEntry, Threads!Counted
<1>12. CASE Threads!BatchBegin \/ Threads!ApplyItem
    BY <1>12 DEF Threads!BatchBegin, Threads!ApplyItem, Threads!Counted
<1>. QED
    BY <1>1, <1>2, <1>3, <1>4, <1>5, <1>6, <1>7, <1>8, <1>9, <1>10, <1>11, <1>12
    DEF ThreadsStep, Threads!Next, Threads!Producers, Threads!Worker

\* The threads' positions, the queue and the worker's counters keep their type: in
\* particular no crawl goes past its last entry and no batch exceeds kBatch.
THEOREM ThreadsTyped == Spec => []Threads!TypeOK
<1>1. Threads!Init => Flags
    BY Zenon DEF Threads!Init, Flags
<1>2. Threads!Init => CountInv
    BY ThreadConstants DEF Threads!Init, CountInv, Counts, EntryAhead
<1>3. Init => Threads!Init
    BY DEF Init
<1>4. Spec => [](Flags /\ CountInv)
    BY <1>1, <1>2, <1>3, ThreadFlagsStep, ThreadCountStep, PartSteps, PTL DEF Spec
<1>5. Flags /\ CountInv => Threads!TypeOK
    BY ThreadsTypeParts DEF CountInv
<1>. QED
    BY <1>4, <1>5, PTL

\* Every step keeps the queue's invariant.
LEMMA QueueStep ==
    Threads!TypeOK /\ QueueInv /\ ThreadsStep => QueueInv'
<1> SUFFICES ASSUME Threads!TypeOK, QueueInv, ThreadsStep
             PROVE  QueueInv'
    OBVIOUS
<1> USE ThreadConstants DEF Threads!TypeOK, QueueInv, Threads!NoLostEnqueue, Threads!others,
            Threads!flags, Threads!own
<1>1. CASE UNCHANGED indexing
    BY <1>1 DEF indexing
<1>2. CASE Threads!Enqueue
    BY <1>2 DEF Threads!Enqueue, Threads!Locked
<1>3. CASE Threads!WatcherNotifies
    BY <1>3 DEF Threads!WatcherNotifies, Threads!Notify
<1>4. CASE Threads!RequestReconcile \/ Threads!RequestReindex
        \/ \E b \in BOOLEAN : Threads!SetPaused(b)
    BY <1>4 DEF Threads!RequestReconcile, Threads!RequestReindex, Threads!SetPaused, Threads!Command
<1>5. CASE Threads!ControlNotifies
    BY <1>5 DEF Threads!ControlNotifies, Threads!Notify
<1>6. CASE Threads!Main
    BY <1>6 DEF Threads!Main, Threads!ShutDown, Threads!JoinControl, Threads!JoinWatcher,
                Threads!Stop, Threads!MainNotifies, Threads!JoinWorker, Threads!Notify
<1>7. CASE Threads!Eval
    BY <1>7 DEF Threads!Eval, Threads!Work
<1>8. CASE Threads!Park
    BY <1>8 DEF Threads!Park
<1>9. CASE Threads!Worker /\ ~Threads!Eval /\ ~Threads!Park
  <2>1. worker' \notin {"park", "asleep"}
      BY <1>9 DEF Threads!Worker, Threads!Start, Threads!BeginPass, Threads!Top, Threads!Deadline,
                  Threads!ServeStop, Threads!ServeReindex,
                  Threads!ServeReconcile, Threads!ServeQueue, Threads!AfterTake, Threads!Crawl,
                  Threads!Gate, Threads!GateEval,
                  Threads!IndexEntry, Threads!BatchBegin, Threads!ApplyItem
  <2>. QED
      BY <2>1
<1>. QED
    BY <1>1, <1>2, <1>3, <1>4, <1>5, <1>6, <1>7, <1>8, <1>9 DEF ThreadsStep, Threads!Next, Threads!Producers

\* Indexer::enqueue_index and enqueue_remove push under mtx_, so that the worker cannot miss
\* the item between its look at the queue and its wait.
THEOREM EnqueueNeverLost == Spec => []NoLostEnqueue
<1>1. Init => QueueInv
    BY DEF Init, Threads!Init, QueueInv, Threads!NoLostEnqueue
<1>2. Spec => []QueueInv
    BY <1>1, QueueStep, ThreadsTyped, PartSteps, PTL DEF Spec
<1>3. QueueInv => NoLostEnqueue
    BY DEF QueueInv, NoLostEnqueue
<1>. QED
    BY <1>2, <1>3, PTL

\* Every step keeps the bound on what follows a pause.
LEMMA PauseStep ==
    Threads!TypeOK /\ PauseInv /\ ThreadsStep => PauseInv'
<1> SUFFICES ASSUME Threads!TypeOK, PauseInv, ThreadsStep,
                    paused', ~stop'
             PROVE  PauseInv'
    BY DEF PauseInv
<1> USE ThreadConstants DEF Threads!TypeOK, PauseInv, Threads!others, Threads!flags, Threads!own
<1>1. CASE UNCHANGED indexing
    BY <1>1 DEF indexing
<1>2. CASE Threads!Enqueue
    BY <1>2 DEF Threads!Enqueue
<1>3. CASE Threads!WatcherNotifies \/ Threads!ControlNotifies
    BY <1>3 DEF Threads!WatcherNotifies, Threads!ControlNotifies, Threads!Notify
<1>4. CASE Threads!RequestReconcile \/ Threads!RequestReindex
    BY <1>4 DEF Threads!RequestReconcile, Threads!RequestReindex, Threads!Command
<1>5. CASE \E b \in BOOLEAN : Threads!SetPaused(b)
  <2>1. PICK b \in BOOLEAN : Threads!SetPaused(b)
      BY <1>5
  <2>2. worker' = worker /\ batch' = batch /\ stop' = stop
      BY <2>1 DEF Threads!SetPaused, Threads!Command
  <2>3. CASE paused
    <3>1. sincePause' = sincePause
        BY <2>1, <2>3 DEF Threads!SetPaused
    <3>. QED
        BY <2>2, <2>3, <3>1
  <2>4. CASE ~paused
    <3>1. sincePause' = 0
        BY <2>1, <2>4 DEF Threads!SetPaused
    <3>. QED
        BY <2>2, <3>1
  <2>. QED
      BY <2>3, <2>4
<1>6. CASE Threads!Main
    BY <1>6 DEF Threads!Main, Threads!ShutDown, Threads!JoinControl, Threads!JoinWatcher,
                Threads!Stop, Threads!MainNotifies, Threads!JoinWorker, Threads!Notify
<1>7. CASE Threads!Start \/ Threads!Top \/ Threads!Eval \/ Threads!Park \/ Threads!Deadline
        \/ Threads!ServeStop \/ Threads!ServeReindex \/ Threads!ServeReconcile
    BY <1>7 DEF Threads!Start, Threads!BeginPass, Threads!Top, Threads!Eval, Threads!Park,
                Threads!Deadline, Threads!ServeStop, Threads!ServeReindex, Threads!ServeReconcile
<1>8. CASE Threads!ServeQueue
    BY <1>8 DEF Threads!ServeQueue, Threads!AfterTake
<1>9. CASE Threads!Crawl \/ Threads!Gate \/ Threads!GateEval
  <2>1. paused /\ ~stop /\ sincePause' = sincePause
      BY <1>9, Zenon DEF Threads!Crawl, Threads!Gate, Threads!GateEval
  <2>2. worker' \notin {"file", "batch", "apply"}
      BY <1>9, <2>1 DEF Threads!Crawl, Threads!Gate, Threads!GateEval
  <2>. QED
      BY <2>1, <2>2
<1>10. CASE Threads!IndexEntry
    BY <1>10 DEF Threads!IndexEntry, Threads!Counted
<1>11. CASE Threads!BatchBegin \/ Threads!ApplyItem
  <2>1. paused /\ ~stop
      BY <1>11, Zenon DEF Threads!BatchBegin, Threads!ApplyItem
  <2>2. CASE Threads!BatchBegin
      BY <2>1, <2>2 DEF Threads!BatchBegin
  <2>3. CASE Threads!ApplyItem /\ batch = 0
      BY <2>1, <2>3 DEF Threads!ApplyItem
  <2>4. CASE Threads!ApplyItem /\ batch # 0
    <3>1. /\ sincePause <= Batch /\ sincePause + batch <= Batch
          /\ batch' = batch - 1 /\ worker' = "apply" /\ sincePause' = sincePause + 1
        BY <2>1, <2>4 DEF Threads!ApplyItem, Threads!Counted
    <3>. QED
        BY <3>1, <2>4
  <2>. QED
      BY <1>11, <2>2, <2>3, <2>4
<1>. QED
    BY <1>1, <1>2, <1>3, <1>4, <1>5, <1>6, <1>7, <1>8, <1>9, <1>10, <1>11
    DEF ThreadsStep, Threads!Next, Threads!Producers, Threads!Worker

\* After a pause at most one batch is still indexed, whatever the worker was doing when it
\* was asked for.
THEOREM PauseBounded == Spec => []PauseHolds
<1>1. Init => PauseInv
    BY ThreadConstants DEF Init, Threads!Init, PauseInv
<1>2. Spec => []PauseInv
    BY <1>1, PauseStep, ThreadsTyped, PartSteps, PTL DEF Spec
<1>3. PauseInv => PauseHolds
    BY DEF PauseInv, PauseHolds, Threads!PauseHolds
<1>. QED
    BY <1>2, <1>3, PTL
=============================================================================
