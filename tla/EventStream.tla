------------------------------ MODULE EventStream ------------------------------
(***************************************************************************)
(* HyprlandEventStream: the dropdown daemon's end of the compositor's      *)
(* event socket.  Lines come in chunks that end anywhere; the compositor   *)
(* may go away in the middle of one and come back; the connection is tried *)
(* again after longer and longer pauses.  What is made of the events is in *)
(* DropdownDaemon.                                                         *)
(***************************************************************************)
EXTENDS Naturals, FiniteSets, Sequences, SequencesExt

CONSTANTS
    MaxEvents,     \* bound on the events the compositors send
    Long,          \* the events whose line is longer than the parser will hold
    MaxBuffered,   \* the parts of a line the parser will hold
    MaxBackoff     \* how often the pause is doubled, at most

VARIABLES
    compositor,    \* whether there is one, and the events sent so far
    unsent,        \* the parts of a line that it has still to write
    sock,          \* the parts that wait to be read
    link,          \* the daemon's end: up, up with nobody at the other, or down
    buffer,        \* EventLineParser's
    retry,         \* the pause: whether it is over, and how often it was doubled
    delivered,     \* history: what read_available returned, in order; a set for each event
    seen           \* history: the lines that broke `off', what was `received' to its end,
                   \* and the events that began where another had broken off

vars == <<compositor, unsent, sock, link, buffer, retry, delivered, seen>>
peer == <<compositor, unsent>>

\* A line has its separator in the first part and its newline in the last.
Line(e) ==
    <<[of |-> e, is |-> "head"]>>
    \o (IF e \in Long THEN [i \in 1..MaxBuffered |-> [of |-> e, is |-> "middle"]] ELSE <<>>)
    \o <<[of |-> e, is |-> "tail"]>>

Init ==
    /\ compositor = [up |-> TRUE, sent |-> 0]
    /\ unsent = <<>> /\ sock = <<>>
    /\ link = "down" /\ buffer = <<>>
    /\ retry = [due |-> TRUE, backoff |-> 0]
    /\ delivered = <<>>
    /\ seen = [off |-> {}, received |-> {}, joined |-> {}]

-----------------------------------------------------------------------------
(* The compositor *)

\* To nobody, if the daemon is not connected.
SendEvent ==
    LET e == compositor.sent + 1
    IN  /\ compositor.up /\ unsent = <<>> /\ e <= MaxEvents
        /\ compositor' = [compositor EXCEPT !.sent = e]
        /\ unsent' = IF link = "up" THEN Line(e) ELSE <<>>
        /\ UNCHANGED <<sock, link, buffer, retry, delivered, seen>>

WritePart ==
    /\ compositor.up /\ unsent # <<>>
    /\ sock' = Append(sock, Head(unsent)) /\ unsent' = Tail(unsent)
    /\ UNCHANGED <<compositor, link, buffer, retry, delivered, seen>>

Goes ==
    /\ compositor.up /\ compositor' = [compositor EXCEPT !.up = FALSE] /\ unsent' = <<>>
    /\ link' = IF link = "up" THEN "left" ELSE link
    /\ UNCHANGED <<sock, buffer, retry, delivered, seen>>

Comes ==
    /\ ~compositor.up /\ compositor' = [compositor EXCEPT !.up = TRUE]
    /\ UNCHANGED <<unsent, sock, link, buffer, retry, delivered, seen>>

-----------------------------------------------------------------------------
(* HyprlandEventStream *)

Later == [due |-> FALSE,
          backoff |-> IF retry.backoff < MaxBackoff THEN retry.backoff + 1 ELSE MaxBackoff]

PauseEnds ==
    /\ link = "down" /\ ~retry.due /\ retry' = [retry EXCEPT !.due = TRUE]
    /\ UNCHANGED <<peer, sock, link, buffer, delivered, seen>>

\* ensure_connected
EnsureConnected ==
    /\ link = "down" /\ retry.due
    /\ IF compositor.up THEN link' = "up" /\ retry' = [retry EXCEPT !.backoff = 0]
       ELSE link' = link /\ retry' = Later
    /\ UNCHANGED <<peer, sock, buffer, delivered, seen>>

\* What a complete line is taken for: an event, if the separator is in it; where several lines
\* are fused, all of those whose separator is.
Event(line) == {line[i].of : i \in {j \in DOMAIN line : line[j].is = "head"}}

Deliver(line) ==
    delivered' = IF Event(line) = {} THEN delivered ELSE Append(delivered, Event(line))

\* A bug: the buffer does not outlive a read, which may end after any part.
PushForgetting(part) ==
    LET line == Append(buffer, part)
    IN  IF part.is = "tail" THEN buffer' = <<>> /\ Deliver(line)
        ELSE buffer' \in {line, <<>>} /\ UNCHANGED delivered

\* EventLineParser::push, for one part of whatever was read.
Push(part) ==
    LET line == Append(buffer, part)
    IN  IF part.is = "tail" THEN buffer' = <<>> /\ Deliver(line)
        ELSE /\ buffer' = IF Len(line) > MaxBuffered THEN <<>> ELSE line
             /\ UNCHANGED delivered

ReadAvailable ==
    LET part == Head(sock)
    IN  /\ link # "down" /\ sock # <<>>
        /\ Push(part) /\ sock' = Tail(sock)
        /\ seen' = CASE part.is = "tail" -> [seen EXCEPT !.received = @ \cup {part.of}]
                      [] part.is = "head" /\ buffer # <<>> ->
                            [seen EXCEPT !.joined = @ \cup {part.of}]
                      [] OTHER -> seen
        /\ UNCHANGED <<peer, link, retry>>

\* The descriptor is closed and the pause begins; the buffer stays.
ReadEnd ==
    /\ link = "left" /\ sock = <<>>
    /\ link' = "down" /\ retry' = Later
    /\ seen' = IF buffer = <<>> THEN seen
               ELSE [seen EXCEPT !.off = @ \cup {Last(buffer).of}]
    /\ UNCHANGED <<peer, sock, buffer, delivered>>

Next ==
    \/ SendEvent \/ WritePart \/ Goes \/ Comes
    \/ PauseEnds \/ EnsureConnected \/ ReadAvailable \/ ReadEnd

Spec == Init /\ [][Next]_vars

-----------------------------------------------------------------------------
(* What must hold *)

\* However the lines are cut up, and over as many compositors as there are, what is delivered
\* is in order, each event once and whole, unless it followed lines that broke off with their
\* connections, with which it is fused, or lost.  Of the others that came to their end none is
\* lost, but those too long to hold.
EventsInOrder ==
    /\ \A i \in DOMAIN delivered :
          /\ \E e \in delivered[i] \cap seen.received :
                /\ \A d \in delivered[i] \ {e} : d < e /\ d \in seen.off
                /\ delivered[i] = {e} \/ e \in seen.joined
          /\ \A j \in 1..(i - 1) : \A d \in delivered[j], e \in delivered[i] : d < e
    /\ \A e \in seen.received \ (Long \cup seen.joined) : Contains(delivered, {e})
    /\ Cardinality(seen.joined) <= Cardinality(seen.off)
================================================================================
