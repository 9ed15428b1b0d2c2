------------------------------ MODULE Instances ------------------------------
(***************************************************************************)
(* The processes one key binding starts: main's lock, the press one that   *)
(* finds it taken hands on as a signal, and the files they leave: the      *)
(* launcher's history, and the sizes the dropdowns' daemons remember.      *)
(* Between them stands the lock, of which there is one per dropdown slot.  *)
(***************************************************************************)
EXTENDS Naturals, FiniteSets

CONSTANTS
    Processes,   \* what is started, in any order
    Keys,        \* the rows of the file: what was launched, or slots
    None,
    Modes,       \* a subset of "launcher", "switcher", "dropdown"
    Slots,       \* of which slots the processes of a dropdown may be, a subset of [Processes -> Keys]
    MaxUse,      \* bound on what a row counts to
    MaxFaults    \* bound on the calls of the lock, the pid and the rows that fail on their own

VARIABLES
    mode,      \* what the binding starts
    slot,      \* the slot each process is for, and its lock; one but for dropdowns
    pc,        \* where each process is
    lock,      \* per slot: the owner, and a child of its that has not yet called exec
    pid,       \* per slot: what the lock's file says
    target,    \* whom a process that found the lock taken will signal
    mem,       \* what a process is about to save
    fd,        \* the file it writes to
    disk,      \* the names `path' and `tmp', and the `data' of the two files they may name
    kept,      \* history: per row, the last save reported done
    past       \* history: an `overlap' of two saves, rows `forgotten', who was `killed' by a
               \* press, who went on `unlocked', whom the lock's file leaves `unnamed', `faults'

vars == <<mode, slot, pc, lock, pid, target, mem, fd, disk, kept, past>>
locks == <<lock, pid, target>>
files == <<mem, fd, disk, kept>>
chosen == <<mode, slot>>

\* What a file may hold: nothing yet, rows, or some part of them.
NoRows == [k \in Keys |-> 0]
Empty == [is |-> "empty", rows |-> NoRows]
Whole(rows) == [is |-> "whole", rows |-> rows]
Torn == [is |-> "torn", rows |-> NoRows]

Started(p) == pc[p] \notin {"new", "gone"}
Saving == {"open", "write", "rename", "again"}

Init ==
    /\ mode \in Modes
    /\ slot \in (IF mode = "dropdown" THEN Slots
                 ELSE {[p \in Processes |-> CHOOSE k \in Keys : TRUE]})
    /\ pc = [p \in Processes |-> "new"]
    /\ lock = [s \in Keys |-> [owner |-> None, child |-> FALSE]]
    /\ pid = [s \in Keys |-> None]
    /\ target = [p \in Processes |-> None]
    /\ mem = [p \in Processes |-> NoRows]
    /\ fd = [p \in Processes |-> None]
    /\ disk = [path |-> None, tmp |-> None, data |-> [f \in 1..2 |-> Empty]]
    /\ kept = NoRows
    /\ past = [overlap |-> FALSE, forgotten |-> FALSE, killed |-> {}, unlocked |-> {}, unnamed |-> {},
                faults |-> 0]

-----------------------------------------------------------------------------
(* main: the lock *)

Goes(p, from, to) == pc[p] = from /\ pc' = [pc EXCEPT ![p] = to] /\ UNCHANGED chosen

\* A bug: the presses of a start are not ignored.
FatalToAll(q) == pc[q] = "starting"

\* Of the signals a press may be, the launcher's SIGTERM alone is not ignored by a start.
Fatal(q) == pc[q] = "starting" /\ mode = "launcher"

\* How many calls have failed, one more or not.
Faulty(n) == past.faults + n <= MaxFaults

Start(p) == Goes(p, "new", "guarded") /\ UNCHANGED <<locks, files, past>>

\* acquire_single_instance
Acquire(p) ==
    /\ lock[slot[p]] = [owner |-> None, child |-> FALSE]
    /\ Goes(p, "guarded", "locked")
    /\ lock' = [lock EXCEPT ![slot[p]].owner = p]
    /\ UNCHANGED <<pid, target, files, past>>

\* The lock's file cannot be opened (-2): the process goes on without.
AcquireFails(p) ==
    /\ Goes(p, "guarded", "starting")
    /\ Faulty(1)
    /\ past' = [past EXCEPT !.unlocked = @ \cup {p}, !.unnamed = @ \cup {p}, !.faults = @ + 1]
    /\ UNCHANGED <<locks, files>>

Truncate(p) ==
    /\ Goes(p, "locked", "emptied")
    /\ pid' = [pid EXCEPT ![slot[p]] = None]
    /\ UNCHANGED <<lock, target, files, past>>

WritePid(p) ==
    /\ Goes(p, "emptied", "starting")
    /\ pid' = [pid EXCEPT ![slot[p]] = p]
    /\ UNCHANGED <<lock, target, files, past>>

\* ftruncate fails, and what the file said stays; or the write does, and it stays empty.
PidFails(p) ==
    /\ Goes(p, "locked", "starting") \/ Goes(p, "emptied", "starting")
    /\ Faulty(1)
    /\ past' = [past EXCEPT !.unnamed = @ \cup {p}, !.faults = @ + 1]
    /\ UNCHANGED <<locks, files>>

\* The file may be empty, or name a process that has ended.
FindTaken(p) ==
    /\ lock[slot[p]] # [owner |-> None, child |-> FALSE]
    /\ Goes(p, "guarded", "signal")
    /\ target' = [target EXCEPT ![p] = pid[slot[p]]]
    /\ UNCHANGED <<lock, pid, files, past>>

\* What a process no longer needs.
Forgets(p) == mem' = [mem EXCEPT ![p] = NoRows] /\ fd' = [fd EXCEPT ![p] = None]

\* The kernel closes what a process had open; a child keeps the lock.
Release(p) == lock' = [lock EXCEPT ![slot[p]].owner = IF @ = p THEN None ELSE @]

\* kill, and main returns.  What is told to a process that handles it takes effect in its loop.
SignalAndEnd(p) ==
    LET q    == target[p]
        dies == q # None /\ Fatal(q)
    IN  /\ pc[p] = "signal" /\ UNCHANGED <<chosen, pid, target, files>>
        /\ pc' = [r \in Processes |->
                    CASE r = p -> "gone"
                      [] r = q /\ dies -> "gone"
                      [] r = q /\ pc[q] = "up" /\ mode = "launcher" -> "leaving"
                      [] OTHER -> pc[r]]
        /\ past' = [past EXCEPT !.killed = IF dies THEN @ \cup {q} ELSE @]
        /\ IF dies THEN Release(q) ELSE UNCHANGED lock

WhatIsSaved == IF disk.path = None THEN NoRows ELSE disk.data[disk.path].rows

\* A file that cannot be opened passes for one without rows.
Reads == {WhatIsSaved} \cup IF Faulty(1) THEN {NoRows} ELSE {}
Misses(rows) == rows # WhatIsSaved
Having(missed) == [past EXCEPT !.forgotten = @ \/ missed, !.faults = IF missed THEN @ + 1 ELSE @]

\* LauncherUI::init reads the history, and then handles the signals, as dropdown_main does;
\* it may fail, or find its mode turned off.
Up(p) ==
    /\ Goes(p, "starting", "up")
    /\ IF mode = "launcher"
       THEN \E rows \in Reads : mem' = [mem EXCEPT ![p] = rows] /\ past' = Having(Misses(rows))
       ELSE UNCHANGED <<mem, past>>
    /\ UNCHANGED <<locks, fd, disk, kept>>

\* The file was removed for a rename that has not come.
Removed(p) == pc[p] = "again" /\ disk.path = None /\ kept # NoRows

\* From anywhere: the process is killed, or the machine stops for it.
End(p) ==
    /\ Started(p) /\ pc[p] # "signal"
    /\ pc' = [pc EXCEPT ![p] = "gone"]
    /\ Release(p) /\ Forgets(p)
    /\ past' = [past EXCEPT !.forgotten = @ \/ Removed(p)]
    /\ UNCHANGED <<chosen, pid, target, disk, kept>>

-----------------------------------------------------------------------------
(* HistoryStore::record and DropdownStateStore::save_slot *)

Bumped(rows, k) == [rows EXCEPT ![k] = @ + 1]

\* A bound: nothing is said of the rows any more.
Told == ~past.overlap /\ ~past.forgotten

\* The launcher changes what it read when it started, a dropdown what is there now.
Save(p, k) ==
    \E rows \in (IF mode = "launcher" THEN {mem[p]} ELSE Reads) :
        /\ mode \in {"launcher", "dropdown"} /\ (mode = "dropdown" => k = slot[p])
        /\ rows[k] < MaxUse /\ Told
        /\ Goes(p, "up", "open")
        /\ mem' = [mem EXCEPT ![p] = Bumped(rows, k)]
        /\ past' = [Having(mode = "dropdown" /\ Misses(rows)) EXCEPT
                        !.overlap = @ \/ \E q \in Processes : pc[q] \in Saving]
        /\ UNCHANGED <<locks, fd, disk, kept>>

\* A launcher has saved once and for all.
Saved == IF mode = "launcher" THEN "saved" ELSE "up"

Unnamed == CHOOSE f \in 1..2 : f # disk.path

\* A bug: the file itself is rewritten.
OpenInPlace(p) ==
    LET f == IF disk.path = None THEN 1 ELSE disk.path
    IN  /\ Goes(p, "open", "write")
        /\ fd' = [fd EXCEPT ![p] = f]
        /\ disk' = [disk EXCEPT !.path = f, !.data[f] = Empty]
        /\ UNCHANGED <<locks, mem, kept, past>>

\* The temporary file has one name, whoever writes it.
OpenTmp(p) ==
    LET f == IF disk.tmp = None THEN Unnamed ELSE disk.tmp
    IN  /\ Goes(p, "open", "write")
        /\ fd' = [fd EXCEPT ![p] = f]
        /\ disk' = [disk EXCEPT !.tmp = f, !.data[f] = Empty]
        /\ UNCHANGED <<locks, mem, kept, past>>

\* Written over what another has put there, the rows of both are mixed.
Write(p) ==
    /\ Goes(p, "write", "rename")
    /\ disk' = [disk EXCEPT !.data[fd[p]] = IF @ = Empty THEN Whole(mem[p]) ELSE Torn]
    /\ UNCHANGED <<locks, mem, fd, kept, past>>

\* Half of it is written: the disk is full, and the save reports that it failed; or the
\* process is killed.
WriteFails(p) ==
    /\ pc[p] = "write" /\ \E to \in {Saved, "gone"} :
        /\ pc' = [pc EXCEPT ![p] = to]
        /\ IF to = "gone" THEN Release(p) ELSE UNCHANGED lock
    /\ disk' = [disk EXCEPT !.data[fd[p]] = Torn] /\ Forgets(p)
    /\ UNCHANGED <<chosen, pid, target, kept, past>>

Larger(m, n) == IF m > n THEN m ELSE n
Reported(p) ==
    kept' = IF past.overlap THEN kept ELSE [k \in Keys |-> Larger(kept[k], mem[p][k])]

Rename(p) ==
    /\ disk.tmp # None
    /\ Goes(p, "rename", Saved) \/ Goes(p, "again", Saved)
    /\ disk' = [disk EXCEPT !.path = disk.tmp, !.tmp = None]
    /\ Reported(p) /\ Forgets(p)
    /\ UNCHANGED <<locks, past>>

\* Whatever the error (another has renamed it, the disk, the directory): the file is
\* removed, which may fail as well, and the rename tried again.
RenameFails(p) ==
    /\ Goes(p, "rename", "again")
    /\ disk.tmp # None => Faulty(1)
    /\ disk' \in {disk, [disk EXCEPT !.path = None]}
    /\ past' = [past EXCEPT !.faults = IF disk.tmp # None THEN @ + 1 ELSE @]
    /\ UNCHANGED <<locks, mem, fd, kept>>

RenameFailsAgain(p) ==
    /\ Goes(p, "again", Saved) /\ Forgets(p)
    /\ past' = [past EXCEPT !.forgotten = @ \/ Removed(p)]
    /\ UNCHANGED <<locks, disk, kept>>

\* Subprocess::spawn_detached, after which the launcher quits: what it forks has the lock
\* until it calls exec.
Detach(p) ==
    /\ mode = "launcher" /\ (Goes(p, "up", "leaving") \/ Goes(p, "saved", "leaving"))
    /\ lock' = [lock EXCEPT ![slot[p]].child = TRUE]
    /\ UNCHANGED <<pid, target, files, past>>

Exec(s) ==
    /\ lock[s].child /\ lock' = [lock EXCEPT ![s].child = FALSE]
    /\ UNCHANGED <<chosen, pc, pid, target, files, past>>

Main(p) ==
    \/ Start(p) \/ Acquire(p) \/ AcquireFails(p) \/ Truncate(p) \/ WritePid(p) \/ PidFails(p)
    \/ FindTaken(p) \/ SignalAndEnd(p) \/ Up(p)
Store(p) ==
    \/ \E k \in Keys : Save(p, k)
    \/ OpenTmp(p) \/ Write(p) \/ WriteFails(p) \/ Rename(p) \/ RenameFails(p) \/ RenameFailsAgain(p)

Next ==
    \/ \E p \in Processes : Main(p) \/ Store(p) \/ Detach(p) \/ End(p)
    \/ \E s \in Keys : Exec(s)

Spec == Init /\ [][Next]_vars

-----------------------------------------------------------------------------
(* What must hold *)

\* What was reported saved is in the file, whole, whatever is killed and whichever write fails;
\* the launchers' saves never overlap, since the lock lets one of them in at a time and the
\* history is read after it.  Excepted are launchers that could not open the lock; two dropdowns
\* whose saves overlap; a file that could not be read when it was to be changed, which counts
\* as empty; and a rename that failed, for which the code removes the file: between the
\* removal and the second rename there is none, and a kill or another failure then leaves none.
Alone == mode = "launcher" => past.unlocked = {}
SavesKept ==
    /\ mode = "launcher" /\ Alone => ~past.overlap
    /\ Alone /\ Told =>
        \/ disk.path = None /\ (kept = NoRows \/ \E p \in Processes : pc[p] = "again")
        \/ /\ disk.path # None /\ disk.data[disk.path].is = "whole"
           /\ \A k \in Keys : disk.data[disk.path].rows[k] >= kept[k]

\* main.cpp:120: a press during a start must not `kill the nascent resident instance'; and once
\* an instance is up, the file that says whom to signal names it, unless the instance could not
\* open it or write its pid there.  Nobody else's pid comes in its place.
PressesReach ==
    /\ mode \in {"switcher", "dropdown"} => past.killed = {}
    /\ \A p \in Processes : pc[p] \in {"up"} \cup Saving /\ p \notin past.unnamed => pid[slot[p]] = p
=============================================================================
