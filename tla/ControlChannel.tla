---------------------------- MODULE ControlChannel ----------------------------
(***************************************************************************)
(* waylaunchd's control socket over the lives of several daemons, one at a *)
(* time by their lock, each of which may be killed at any moment: the name *)
(* in the file system, the socket and its backlog, the thread that serves  *)
(* one client at a time, and waylaunchctl's exchange with it.  What the    *)
(* commands do to the worker is in IndexerThreads.                         *)
(***************************************************************************)
EXTENDS Naturals, Sequences, SequencesExt

CONSTANTS
    Daemons,     \* processes that are waylaunchd
    Clients,     \* runs of waylaunchctl, with a command each
    None

VARIABLES
    daemon,      \* where each daemon's main is
    locked,      \* who holds waylaunchd.lock
    path,        \* whose socket the path names
    thread,      \* per daemon, where accept_loop is, and the client it serves
    backlog,     \* per daemon, who is connected but not yet accepted
    client,      \* where each client is, and how it ended
    talks,       \* the daemon it is connected to
    reply,       \* what the server has written to it
    handled      \* history: how often its command was carried out

vars == <<daemon, locked, path, thread, backlog, client, talks, reply, handled>>
clients == <<client, talks, reply, handled>>

At(where, c) == [at |-> where, client |-> c]
Off == At("off", None)

Init ==
    /\ daemon = [d \in Daemons |-> "new"]
    /\ locked = None /\ path = None
    /\ thread = [d \in Daemons |-> Off]
    /\ backlog = [d \in Daemons |-> <<>>]
    /\ client = [c \in Clients |-> "new"]
    /\ talks = [c \in Clients |-> None]
    /\ reply = [c \in Clients |-> "none"]
    /\ handled = [c \in Clients |-> 0]

Goes(d, from, to) == daemon[d] = from /\ daemon' = [daemon EXCEPT ![d] = to]

-----------------------------------------------------------------------------
(* waylaunchd: main, and ControlServer's start and stop *)

TakeLock(d) ==
    /\ Goes(d, "new", "locked")
    /\ locked = None /\ locked' = d
    /\ UNCHANGED <<path, thread, backlog, clients>>

FindTaken(d) ==
    /\ Goes(d, "new", "over") /\ locked # None
    /\ UNCHANGED <<locked, path, thread, backlog, clients>>

\* What is at the path is taken for a socket that somebody left.
Bind(d) ==
    /\ Goes(d, "locked", "bound")
    /\ path' = d
    /\ UNCHANGED <<locked, thread, backlog, clients>>

\* The name is too long, or cannot be bound: waylaunchd goes on without.
BindFails(d) ==
    /\ Goes(d, "locked", "unlinked")
    /\ path' = None
    /\ UNCHANGED <<locked, thread, backlog, clients>>

StartThread(d) ==
    /\ Goes(d, "bound", "serving")
    /\ thread' = [thread EXCEPT ![d] = At("wait", None)]
    /\ UNCHANGED <<locked, path, backlog, clients>>

\* On a signal, or on `shutdown': stop_ and its eventfd.
Stop(d) ==
    /\ Goes(d, "serving", "stopping")
    /\ UNCHANGED <<locked, path, thread, backlog, clients>>

\* The thread is joined and the socket closed: who waits in its backlog is cut off.
Join(d) ==
    /\ Goes(d, "stopping", "joined") /\ thread[d] = Off
    /\ backlog' = [backlog EXCEPT ![d] = <<>>]
    /\ UNCHANGED <<locked, path, thread, clients>>

Unlink(d) ==
    /\ Goes(d, "joined", "unlinked")
    /\ path' = None
    /\ UNCHANGED <<locked, thread, backlog, clients>>

\* A bug: the lock is let go of first.
UnlockEarly(d) ==
    /\ daemon[d] \in {"joined", "unlinked"} /\ locked = d
    /\ locked' = None
    /\ UNCHANGED <<daemon, path, thread, backlog, clients>>

\* The watcher and the worker have been stopped.
Unlock(d) ==
    /\ Goes(d, "unlinked", "over")
    /\ locked' = None
    /\ UNCHANGED <<path, thread, backlog, clients>>

\* The name stays.
Killed(d) ==
    /\ daemon[d] \notin {"new", "over"} /\ daemon' = [daemon EXCEPT ![d] = "over"]
    /\ locked' = None
    /\ thread' = [thread EXCEPT ![d] = Off] /\ backlog' = [backlog EXCEPT ![d] = <<>>]
    /\ UNCHANGED <<path, clients>>

Main(d) ==
    \/ TakeLock(d) \/ FindTaken(d) \/ Bind(d) \/ BindFails(d) \/ StartThread(d)
    \/ Stop(d) \/ Join(d) \/ Unlink(d) \/ Unlock(d) \/ Killed(d)

-----------------------------------------------------------------------------
(* ControlServer::accept_loop *)

Thread(d, from, to) ==
    /\ thread[d] = from /\ thread' = [thread EXCEPT ![d] = to]
    /\ UNCHANGED <<daemon, locked, path, client, talks>>

Leave(d) ==
    /\ daemon[d] = "stopping"
    /\ Thread(d, At("wait", None), Off)
    /\ UNCHANGED <<backlog, reply, handled>>

\* Until it is told to stop, whoever still waits.
Accept(d) ==
    /\ daemon[d] = "serving" /\ backlog[d] # <<>>
    /\ Thread(d, At("wait", None), At("read", Head(backlog[d])))
    /\ backlog' = [backlog EXCEPT ![d] = Tail(@)]
    /\ UNCHANGED <<reply, handled>>

\* The request, to its end: the command is carried out.
CarryOut(c) == handled' = [handled EXCEPT ![c] = @ + 1]
Handle(d) ==
    LET c == thread[d].client
    IN  /\ c # None /\ client[c] # "connected"
        /\ Thread(d, At("read", c), At("done", c))
        /\ CarryOut(c)
        /\ UNCHANGED <<backlog, reply>>

\* Nothing was sent for a second, and nothing is no command.
Refuse(d) ==
    LET c == thread[d].client
    IN  /\ c # None /\ client[c] = "connected"
        /\ Thread(d, At("read", c), At("wait", None))
        /\ reply' = [reply EXCEPT ![c] = "error"]
        /\ UNCHANGED <<backlog, handled>>

Answer(d) ==
    LET c == thread[d].client
    IN  /\ Thread(d, At("done", c), At("wait", None))
        /\ reply' = [reply EXCEPT ![c] = "ok"]
        /\ UNCHANGED <<backlog, handled>>

AcceptLoop(d) == Leave(d) \/ Accept(d) \/ Handle(d) \/ Refuse(d) \/ Answer(d)

-----------------------------------------------------------------------------
(* waylaunchctl: control_send *)

Ctl(c, from, to) ==
    /\ client[c] = from /\ client' = [client EXCEPT ![c] = to]
    /\ UNCHANGED <<daemon, locked, path, thread, reply, handled>>

Reachable == path # None /\ daemon[path] \in {"bound", "serving", "stopping"}

Connect(c) ==
    /\ Reachable
    /\ Ctl(c, "new", "connected")
    /\ talks' = [talks EXCEPT ![c] = path]
    /\ backlog' = [backlog EXCEPT ![path] = Append(@, c)]

CannotReach(c) ==
    /\ ~Reachable
    /\ Ctl(c, "new", "unreachable")
    /\ UNCHANGED <<talks, backlog>>

\* Is there anybody who has the other end, accepted or not?
Held(c) == Contains(backlog[talks[c]], c) \/ thread[talks[c]].client = c

Send(c) ==
    /\ client[c] = "connected" /\ Held(c)
    /\ Ctl(c, "connected", "sent") /\ UNCHANGED <<talks, backlog>>

\* Nobody ignores SIGPIPE in waylaunchctl.
SendBroken(c) ==
    /\ client[c] = "connected" /\ ~Held(c)
    /\ Ctl(c, "connected", "cut") /\ UNCHANGED <<talks, backlog>>

Told(c) ==
    /\ reply[c] = "ok" /\ Ctl(c, "sent", "ok")
    /\ UNCHANGED <<talks, backlog>>

\* The connection ends without a word, or none comes in time: an empty reply, and no error.
Silent(c) ==
    /\ reply[c] = "none" /\ Ctl(c, "sent", "silent")
    /\ UNCHANGED <<talks, backlog>>

Control(c) ==
    Connect(c) \/ CannotReach(c) \/ Send(c) \/ SendBroken(c) \/ Told(c) \/ Silent(c)

Next ==
    \/ \E d \in Daemons : Main(d) \/ AcceptLoop(d)
    \/ \E c \in Clients : Control(c)

Spec == Init /\ [][Next]_vars

-----------------------------------------------------------------------------
(* What must hold *)

\* What waylaunchctl says of its command is true, across daemons that stop or are killed under
\* it: one that was answered was carried out, once; one that could not be sent never is.  Of
\* one that got no answer nothing is known, though it exits like one that did.
AnswerTrue ==
    \A c \in Clients :
        /\ handled[c] <= 1
        /\ client[c] = "ok" => handled[c] = 1
        /\ client[c] \in {"unreachable", "cut"} => handled[c] = 0

\* The path names the daemon that serves, whatever one that ended before it left or took away.
PathNamesDaemon == \A d \in Daemons : daemon[d] = "serving" => path = d
=============================================================================
