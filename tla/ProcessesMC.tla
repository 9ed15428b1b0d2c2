------------------------------ MODULE ProcessesMC ------------------------------
(***************************************************************************)
(* Five parts that deal with other processes, and the threads of the       *)
(* indexer.  They share no state with one another and are checked in one   *)
(* run: which of them moves is chosen at the start, and the others stay as *)
(* they are.                                                               *)
(***************************************************************************)
EXTENDS Naturals

CONSTANTS
    Processes, Keys, None, Modes, Slots,      \* Instances
    MaxUse, MaxFaults,
    Daemons, Clients,                           \* ControlChannel
    MaxInput, MaxOutput, Capacity,              \* SubprocessRun
    MaxText,                                    \* Extraction
    MaxEvents, Long, MaxBuffered, MaxBackoff,   \* EventStream
    Files, Batch, MaxWork, MaxCommands, Environments   \* IndexerThreads

ASSUME ProcessesAssumption ==
    /\ None \notin Processes /\ None \notin {1, 2} /\ Keys # {}
    /\ Slots \subseteq [Processes -> Keys]
    /\ Modes \subseteq {"launcher", "switcher", "dropdown"} /\ MaxFaults \in Nat
    /\ None \notin Daemons /\ None \notin Clients
    /\ Capacity \in Nat /\ MaxOutput \in Nat /\ MaxInput \in Nat
    /\ MaxText \in Nat /\ MaxBuffered \in Nat \ {0}
    /\ Files \in Nat /\ MaxWork \in Nat /\ MaxCommands \in Nat /\ Batch \in Nat \ {0}
    /\ Environments \subseteq [interval : BOOLEAN, pause : BOOLEAN]

VARIABLES
    part,
    mode, slot, pc, lock, pid, target, mem, fd, disk, kept, past,
    daemon, locked, path, thread, backlog, client, talks, reply, handled,
    run, pipes, kid, heir,
    doc, enabled, installed, extract, capped, child, orphan,
    compositor, unsent, sock, link, buffer, retry, delivered, seen,
    env, main, commander, watcher, worker, after, queue, reconcile, reindex, paused, stop, todo,
    batch, work, commands, sincePause

locks == <<mode, slot, pc, lock, pid, target, mem, fd, disk, kept, past>>
control == <<daemon, locked, path, thread, backlog, client, talks, reply, handled>>
running == <<run, pipes, kid, heir>>
extracting == <<doc, enabled, installed, extract, capped, child, orphan>>
stream == <<compositor, unsent, sock, link, buffer, retry, delivered, seen>>
indexing == <<env, main, commander, watcher, worker, after, queue, reconcile, reindex, paused, stop,
              todo, batch, work, commands, sincePause>>

Locks == INSTANCE Instances
Control == INSTANCE ControlChannel
Run == INSTANCE SubprocessRun
Extractor == INSTANCE Extraction
Events == INSTANCE EventStream
Threads == INSTANCE IndexerThreads WITH control <- commander

vars == <<part, locks, control, running, extracting, stream, indexing>>

Init ==
    /\ part \in {"locks", "control", "run", "extractor", "events", "threads"}
    /\ Locks!Init /\ Control!Init /\ Run!Init /\ Extractor!Init /\ Events!Init /\ Threads!Init
    /\ part # "locks" => mode = "launcher"
    /\ part # "extractor" => /\ doc = [kind |-> "other", holds |-> "plain"]
                             /\ enabled = Extractor!Importers
    /\ part # "threads" => ~env.interval /\ ~env.pause /\ ~reindex

MoveLocks == part = "locks" /\ Locks!Next
             /\ UNCHANGED <<part, control, running, extracting, stream, indexing>>
MoveControl == part = "control" /\ Control!Next
               /\ UNCHANGED <<part, locks, running, extracting, stream, indexing>>
OthersOfRun == part = "run"
               /\ UNCHANGED <<part, locks, control, extracting, stream, indexing>>
OthersOfExtractor == part = "extractor"
                     /\ UNCHANGED <<part, locks, control, running, stream, indexing>>
MoveEvents == part = "events" /\ Events!Next
              /\ UNCHANGED <<part, locks, control, running, extracting, indexing>>
OthersOfThreads == part = "threads"
                   /\ UNCHANGED <<part, locks, control, running, extracting, stream>>

Next ==
    \/ MoveLocks \/ MoveControl \/ MoveEvents
    \/ OthersOfRun /\ Run!Next
    \/ OthersOfExtractor /\ Extractor!Next
    \/ OthersOfThreads /\ Threads!Next

\* What the specifications of the parts say of fairness.  What the threads must get done is
\* the matter of IndexerThreads!FairSpec.
Fairness ==
    /\ WF_vars(OthersOfRun /\ Run!Runs)
    /\ WF_vars(OthersOfRun /\ Run!KidGoesOn)
    /\ WF_vars(OthersOfExtractor /\ Extractor!Extracts)
    /\ WF_vars(OthersOfExtractor /\ Extractor!ChildGoesOn)

Spec == Init /\ [][Next]_vars /\ Fairness

-----------------------------------------------------------------------------
(* What must hold: the properties of the parts *)

\* What was reported saved, of the launcher's history or a dropdown's size, is in the file.
SavesKept == Locks!SavesKept

\* main.cpp:120: a press during a start does not kill what starts, and one after it finds whom
\* to tell.
PressesReach == Locks!PressesReach

\* What waylaunchctl says of a command is true, and the socket's name is that of the daemon
\* that serves, over the ends and deaths of the daemons.
ControlTrue == Control!AnswerTrue /\ Control!PathNamesDaemon

\* Subprocess::run and run_capped return all that the child wrote, or say that they do not;
\* and of a parser that was killed nothing is left.
OutputWhole == Run!RunWhole /\ Extractor!ExtractedWhole /\ Extractor!NothingLeft

\* A command and an extraction come to an end, but for the hangs they do not guard against.
ChildrenReturn == Run!RunReturns /\ Extractor!ExtractReturns

\* The dropdown daemon gets the compositor's events in order and whole, but around the end of
\* a connection.
EventsInOrder == Events!EventsInOrder

\* The worker never sleeps on work of the watcher's without somebody about to wake it.
NoLostEnqueue == Threads!NoLostEnqueue

\* A pause lets through one batch at most, or one file of a crawl.
PauseHolds == Threads!PauseHolds

\* For the run: each process is of the same slot, or one of them is of another.  Which it is,
\* and what the slots are called, makes no difference.
AllOrAllButOne ==
    LET p == CHOOSE p \in Processes : TRUE
        s == CHOOSE s \in Keys : TRUE
        t == CHOOSE t \in Keys : t # s
    IN  {[q \in Processes |-> s], [q \in Processes |-> IF q = p THEN t ELSE s]}

\* Every configuration of the daemon.
AllEnvironments == [interval : BOOLEAN, pause : BOOLEAN]
================================================================================
