----------------------------- MODULE SubprocessRun -----------------------------
(***************************************************************************)
(* Subprocess::run, with which the launcher and the power overlay run a    *)
(* command on the thread of their user interface: three pipes, a poll loop *)
(* that feeds one and drains two, and waitpid.  There is no deadline.  The *)
(* child is any program: it reads, writes, forks, stops or dies.           *)
(***************************************************************************)
EXTENDS Naturals, FiniteSets

CONSTANTS
    MaxInput,    \* bound on the pieces of stdin_data
    MaxOutput,   \* bound on the pieces the child writes, to both pipes together
    Capacity     \* of a pipe

VARIABLES
    run,     \* the call: where it is, what it has sent, collected, and what it returned
    pipes,   \* how many pieces are in each pipe
    kid,     \* the child: how it goes, whether it has its end of stdin, what it wrote
    heir     \* a process the child left behind, with its stdout and stderr

vars == <<run, pipes, kid, heir>>

Outputs == {"out", "err"}
Streams == Outputs \cup {"in"}
NoOutput == [s \in Outputs |-> 0]
NoKid == [is |-> "none", reads |-> FALSE, owes |-> 0, wrote |-> NoOutput]

\* `todo' is what is left of the input, `open' the descriptors that are polled.
Init ==
    /\ run = [at |-> "idle", todo |-> 0, open |-> {}, got |-> NoOutput,
              error |-> FALSE, code |-> "none"]
    /\ pipes = [s \in Streams |-> 0]
    /\ kid = NoKid
    /\ heir = "none"

Alive == {"runs", "hangs", "closed", "stuck"}

Total(counts) == counts["out"] + counts["err"]

-----------------------------------------------------------------------------
(* Subprocess::run *)

\* No argv, no pipe, no memory, or no such program: everything opened is closed again.
CannotSpawn ==
    /\ run.at = "idle"
    /\ run' = [run EXCEPT !.at = "done", !.code = "not run"]
    /\ UNCHANGED <<pipes, kid, heir>>

\* With nothing to say to it, the child's stdin ends at once.
Spawn(input) ==
    /\ run.at = "idle"
    /\ run' = [run EXCEPT !.at = "loop", !.todo = input,
                          !.open = Outputs \cup IF input = 0 THEN {} ELSE {"in"}]
    /\ kid' = [NoKid EXCEPT !.is = "runs", !.reads = TRUE]
    /\ UNCHANGED <<pipes, heir>>

Polling == run.at = "loop" /\ UNCHANGED <<kid, heir>>

\* A nonblocking write takes what fits; after the last piece the child is to see the end.
WriteInput ==
    LET n == IF run.todo <= Capacity - pipes["in"] THEN run.todo ELSE Capacity - pipes["in"]
    IN  /\ Polling /\ "in" \in run.open /\ kid.reads /\ n > 0
        /\ pipes' = [pipes EXCEPT !["in"] = @ + n]
        /\ run' = [run EXCEPT !.todo = @ - n, !.open = IF n = run.todo THEN @ \ {"in"} ELSE @]

\* Nobody has the other end: POLLERR, or EPIPE now that SIGPIPE is ignored.
InputBroken ==
    /\ Polling /\ "in" \in run.open /\ ~kid.reads
    /\ run' = [run EXCEPT !.open = @ \ {"in"}, !.error = TRUE]
    /\ UNCHANGED pipes

\* A bug: all of the input is written before any output is read.
ReadOutputLast(s) ==
    /\ Polling /\ "in" \notin run.open /\ s \in run.open /\ pipes[s] > 0
    /\ run' = [run EXCEPT !.got[s] = @ + pipes[s]]
    /\ pipes' = [pipes EXCEPT ![s] = 0]

ReadOutput(s) ==
    /\ Polling /\ s \in run.open /\ pipes[s] > 0
    /\ run' = [run EXCEPT !.got[s] = @ + pipes[s]]
    /\ pipes' = [pipes EXCEPT ![s] = 0]

\* Who may still write to the outputs.
Writers == (IF kid.is \in {"runs", "hangs"} THEN {"kid"} ELSE {})
           \cup (IF heir = "holds" THEN {"heir"} ELSE {})

EndOfOutput(s) ==
    /\ Polling /\ s \in run.open /\ pipes[s] = 0 /\ Writers = {}
    /\ run' = [run EXCEPT !.open = @ \ {s}]
    /\ UNCHANGED pipes

\* The child is told to end, which it does when it likes (KidDies), or not; what it still has
\* to say is not read.
PollFails ==
    /\ run.at = "loop" /\ run.open # {}
    /\ run' = [run EXCEPT !.at = "wait", !.open = {}, !.error = TRUE]
    /\ UNCHANGED <<pipes, kid, heir>>

\* The loop ends when every descriptor is closed.
LoopEnds ==
    /\ run.at = "loop" /\ run.open = {}
    /\ run' = [run EXCEPT !.at = "wait"]
    /\ UNCHANGED <<pipes, kid, heir>>

Reap ==
    /\ run.at = "wait" /\ kid.is \in {"exited", "killed"}
    /\ run' = [run EXCEPT !.at = "done", !.code = kid.is]
    /\ kid' = [kid EXCEPT !.is = "reaped"]
    /\ UNCHANGED <<pipes, heir>>

-----------------------------------------------------------------------------
(* The child *)

KidRuns == kid.is = "runs" /\ UNCHANGED run

KidReads ==
    /\ KidRuns /\ kid.reads /\ kid.owes = 0 /\ pipes["in"] > 0
    /\ pipes' = [pipes EXCEPT !["in"] = @ - 1]
    /\ \E owes \in {0, 1} :
          /\ Total(kid.wrote) + owes <= MaxOutput
          /\ kid' = [kid EXCEPT !.owes = owes]
    /\ UNCHANGED heir

KidSeesEnd ==
    /\ KidRuns /\ kid.reads /\ kid.owes = 0 /\ pipes["in"] = 0 /\ "in" \notin run.open
    /\ kid' = [kid EXCEPT !.reads = FALSE]
    /\ UNCHANGED <<pipes, heir>>

\* It has what it wants, perhaps before there is any.
KidClosesInput ==
    /\ KidRuns /\ kid.reads
    /\ kid' = [kid EXCEPT !.reads = FALSE]
    /\ UNCHANGED <<pipes, heir>>

\* It waits for a full pipe, but not for one that nobody reads any more: that piece is lost.
KidWrites(s) ==
    /\ KidRuns /\ kid.owes = 1 /\ (s \in run.open => pipes[s] < Capacity)
    /\ pipes' = [pipes EXCEPT ![s] = @ + 1]
    /\ kid' = [kid EXCEPT !.owes = 0, !.wrote[s] = @ + 1]
    /\ UNCHANGED heir

KidHasMore ==
    /\ KidRuns /\ kid.owes = 0 /\ Total(kid.wrote) < MaxOutput
    /\ kid' = [kid EXCEPT !.owes = 1]
    /\ UNCHANGED <<pipes, heir>>

\* wl-copy and its like: what stays behind has the pipes open.
KidForks ==
    /\ KidRuns /\ heir = "none"
    /\ heir' = "holds"
    /\ UNCHANGED <<pipes, kid>>

\* It closes its stdout and stderr and goes on.
KidClosesOutputs ==
    /\ KidRuns /\ kid.owes = 0 /\ ~kid.reads
    /\ kid' = [kid EXCEPT !.is = "closed"]
    /\ UNCHANGED <<pipes, heir>>

KidExits ==
    /\ kid.is \in {"runs", "closed"} /\ kid.owes = 0 /\ ~kid.reads
    /\ kid' = [kid EXCEPT !.is = "exited"]
    /\ UNCHANGED <<run, pipes, heir>>

KidDies ==
    /\ kid.is \in Alive
    /\ kid' = [kid EXCEPT !.is = "killed", !.reads = FALSE]
    /\ UNCHANGED <<run, pipes, heir>>

\* It does nothing any more, with or without its outputs.
KidHangs ==
    /\ kid.is \in {"runs", "closed"}
    /\ kid' = [kid EXCEPT !.is = IF @ = "runs" THEN "hangs" ELSE "stuck"]
    /\ UNCHANGED <<run, pipes, heir>>

Runs ==
    \/ LoopEnds \/ Reap \/ WriteInput \/ InputBroken
    \/ \E s \in Outputs : ReadOutput(s) \/ EndOfOutput(s)

KidGoesOn ==
    \/ KidReads \/ KidSeesEnd \/ KidExits
    \/ \E s \in Outputs : KidWrites(s)

Next ==
    \/ Runs \/ KidGoesOn
    \/ CannotSpawn \/ (\E n \in 0..MaxInput : Spawn(n)) \/ PollFails
    \/ KidClosesInput \/ KidHasMore \/ KidForks \/ KidClosesOutputs \/ KidDies \/ KidHangs

\* The call goes on whenever it can, and so does a child that does not hang.
Spec == Init /\ [][Next]_vars /\ WF_vars(Runs) /\ WF_vars(KidGoesOn)

-----------------------------------------------------------------------------
(* What must hold *)

\* Whatever the child and the pipes do, a call that returns the child's exit code returns all
\* of its output; and it reports no error only if all of the input was taken.
RunWhole ==
    run.at = "done" /\ run.code # "not run" =>
        /\ kid.is = "reaped" /\ run.open = {}
        /\ run.code = "exited" /\ ~run.error => run.got = kid.wrote /\ run.todo = 0
        /\ \A s \in Outputs : run.got[s] <= kid.wrote[s]

\* The call comes to an end with the child, unless a process the child left behind keeps its
\* pipes: neither ever waits on a pipe the other would have to empty.
RunReturns == (run.at = "loop") ~> (run.at = "done" \/ kid.is \in {"hangs", "stuck"} \/ heir = "holds")
================================================================================
