--------------------------- MODULE LauncherSearch ---------------------------
(***************************************************************************)
(* The launcher's search: the UI thread answers a query at once from apps, *)
(* commands and the calculator, and hands it to a worker thread that walks *)
(* the files and asks the content index.  Every change of the query is a   *)
(* generation; the worker posts its results under a mutex together with    *)
(* the generation they answer, then writes to an eventfd, and the UI       *)
(* thread takes them if they answer the query it has now.                  *)
(*                                                                         *)
(* A critical section on file_mtx_ is one step.  The write to the eventfd  *)
(* comes after the mutex is released, and is a step of its own.  What a    *)
(* provider finds, its scores, painting and the cursor are left out.       *)
(*                                                                         *)
(* The launcher has the Alt+Tab overlay of AppSwitcher in it: a Tab with   *)
(* Alt or Super held shows it over the rows (hud).  It takes the keys, but *)
(* not the clicks.                                                         *)
(***************************************************************************)
EXTENDS Naturals, Sequences

CONSTANTS
    Queries,         \* what may be typed
    Empty,           \* the empty query
    MaxHits,         \* bound on what one provider finds
    MaxKeys,         \* bound on the keys and clicks
    Environments     \* subset of EnvironmentType

\* files: enable_files, or a content index that could be opened; history: recent searches are
\* offered for the empty query; term: the launcher may get SIGTERM.
EnvironmentType == [files : BOOLEAN, history : BOOLEAN, term : BOOLEAN]

ASSUME SearchAssumption ==
    /\ Empty \notin Queries
    /\ MaxHits \in Nat /\ MaxKeys \in Nat
    /\ Environments \subseteq EnvironmentType

AllQueries == Queries \cup {Empty}
Generations == 0..(MaxKeys + 1)

\* A result; `query' is what it was looked up for, `rank' orders the scores.
Kinds == {"Application", "Calculator", "History", "File", "Content"}
Item == [kind : Kinds, query : AllQueries, n : 1..MaxHits, rank : 1..3]
Hits(kind, q, rank, n) == [i \in 1..n |-> [kind |-> kind, query |-> q, n |-> i, rank |-> rank]]

VARIABLES
    env,
    query,                                     \* query_
    gen, pending, pendingQuery, stop,          \* file_gen_, file_has_pending_, ..., file_stop_
    ready, readyGen,                           \* file_ready_ and content_ready_, file_ready_gen_
    eventfd,                                   \* results_fd_ is readable
    wpc, job, out,                             \* the worker: place; q and gen; what it found
    pc, taking, running, keys,                 \* run(): place, fds[1].revents; input left
    appItems, fileItems, contentItems, items,  \* the lists behind the rows, and the rows
    selected, redraw,                          \* selected_index_ (from 1), needs_redraw_
    hud,                                       \* the switcher is visible
    configured, painted,                       \* the surface; what the last frame showed
    answered                                   \* the last generation whose results were applied

shared == <<gen, pending, pendingQuery, stop, ready, readyGen>>
worker == <<wpc, job, out>>
lists == <<appItems, fileItems, contentItems, items, selected, redraw>>
ui == <<pc, taking, running, keys, query, lists, hud, configured, painted, answered>>
vars == <<env, shared, eventfd, worker, ui>>

NoHits == [files |-> <<>>, contents |-> <<>>]
Unpainted == [hud |-> FALSE, items |-> <<>>, selected |-> 0]
Frame == IF hud THEN [hud |-> TRUE, items |-> <<>>, selected |-> 0]
         ELSE [hud |-> FALSE, items |-> items, selected |-> selected]

TypeOK ==
    /\ env \in Environments
    /\ {query, pendingQuery, job.query} \subseteq AllQueries
    /\ {gen, readyGen, job.gen, answered} \subseteq Generations
    /\ \A b \in {pending, stop, eventfd, taking, running, redraw, hud, configured} : b \in BOOLEAN
    /\ wpc \in {"wait", "search", "post", "write", "ended"}
    /\ pc \in {"poll", "dispatch", "results", "render", "stopping", "joining", "done"}
    /\ keys \in 0..MaxKeys
    /\ \A l \in {ready, out} : l \in [files : Seq(Item), contents : Seq(Item)]
    /\ {appItems, fileItems, contentItems, items, painted.items} \subseteq Seq(Item)
    /\ selected \in Nat \ {0} /\ painted.selected \in Nat /\ painted.hud \in BOOLEAN

-----------------------------------------------------------------------------
(***************************************************************************)
(* Lists.                                                                  *)
(***************************************************************************)

\* The synchronous providers; with no query the recent searches take their place.
AppAnswers(q) ==
    IF q = Empty
    THEN {Hits("History", q, 2, n) : n \in IF env.history THEN 0..MaxHits ELSE {0}}
    ELSE {Hits(kind, q, 2, n) : kind \in {"Application", "Calculator"}, n \in 0..MaxHits}

\* The asynchronous ones; each has a shortest query, of at least one character.
AsyncAnswers(q) ==
    IF q = Empty
    THEN {NoHits}
    ELSE {[files |-> Hits("File", q, rank, n), contents |-> Hits("Content", q, 1, m)] :
              rank \in {1, 3}, n \in 0..MaxHits, m \in 0..MaxHits}

\* The first of the highest-scoring entries.
Best(s) == CHOOSE i \in DOMAIN s : \A j \in DOMAIN s :
               s[j].rank <= s[i].rank /\ (j < i => s[j].rank < s[i].rank)

\* The best of apps and files leads, content comes last.
Merged(apps, files, contents) ==
    LET af == apps \o files
        b == Best(af)
    IN IF af = <<>>
       THEN contents
       ELSE <<af[b]>> \o SubSeq(af, 1, b - 1) \o SubSeq(af, b + 1, Len(af)) \o contents

\* rebuild_items, where selected_index_ is s.
Clamp(s, n) == IF s <= n THEN s ELSE IF n = 0 THEN 1 ELSE n
RedrawForgotten == redraw      \* a bug: the rows change and no frame is asked for
Redraw == TRUE
Rebuild(apps, files, contents, s) ==
    /\ appItems' = apps /\ fileItems' = files /\ contentItems' = contents
    /\ items' = Merged(apps, files, contents)
    /\ selected' = Clamp(s, Len(Merged(apps, files, contents)))
    /\ redraw' = Redraw

\* kick_file_search: the async lists are dropped, results on their way become stale.
Kick(q) ==
    /\ gen' = gen + 1
    /\ pending' = (pending \/ env.files)
    /\ pendingQuery' = (IF env.files THEN q ELSE pendingQuery)
    /\ UNCHANGED <<stop, ready, readyGen>>

\* update_search, after query_ has become q.
Search(q) ==
    /\ query' = q
    /\ Kick(q)
    /\ \E apps \in AppAnswers(q) : Rebuild(apps, <<>>, <<>>, 1)

-----------------------------------------------------------------------------
(***************************************************************************)
(* The worker: file_worker_loop.                                           *)
(***************************************************************************)

\* file_cv_.wait: its predicate is looked at under the mutex all stores are made under.
WakesForWork == pending      \* a bug: the predicate leaves out file_stop_
Wakes == pending \/ stop
Take ==
    /\ wpc = "wait" /\ Wakes
    /\ IF stop
       THEN wpc' = "ended" /\ UNCHANGED <<job, pending>>
       ELSE /\ wpc' = "search"
            /\ job' = [query |-> pendingQuery, gen |-> gen]
            /\ pending' = FALSE
    /\ UNCHANGED <<env, gen, pendingQuery, stop, ready, readyGen, eventfd, out, ui>>

\* The providers, one after the other; none looks whether its query is still wanted.
Walk ==
    /\ wpc = "search"
    /\ wpc' = "post"
    /\ out' \in AsyncAnswers(job.query)
    /\ UNCHANGED <<env, shared, eventfd, job, ui>>

AlwaysCurrent == TRUE      \* a bug: the worker does not ask whether its query is the last
Current == job.gen = gen
PostEndsPending == FALSE      \* a bug: file_has_pending_ is reset when the search is over
PostPending == pending
Post ==
    /\ wpc = "post"
    /\ \/ stop /\ wpc' = "ended" /\ UNCHANGED <<ready, readyGen>>
       \/ ~stop /\ ~Current /\ wpc' = "wait" /\ UNCHANGED <<ready, readyGen>>
       \/ /\ ~stop /\ Current
          /\ wpc' = "write"
          /\ ready' = out /\ readyGen' = gen
    /\ pending' = PostPending
    /\ UNCHANGED <<env, gen, pendingQuery, stop, eventfd, job, out, ui>>

\* After the mutex is released: the results may have been taken before this.
Write ==
    /\ wpc = "write"
    /\ wpc' = "wait"
    /\ eventfd' = TRUE
    /\ UNCHANGED <<env, shared, job, out, ui>>

Worker == Take \/ Walk \/ Post \/ Write

-----------------------------------------------------------------------------
(***************************************************************************)
(* The UI thread: run().                                                   *)
(***************************************************************************)

At(place, next) == pc = place /\ pc' = next

\* poll wakes for input, for the eventfd, for SIGTERM, and twice a second for the theme.
Poll ==
    /\ At("poll", "dispatch")
    /\ taking' = eventfd
    /\ UNCHANGED <<env, shared, eventfd, worker, running, keys, query, lists, hud, configured, painted,
                   answered>>

\* A key or a click is an input while the surface is shown.
Input ==
    /\ pc = "dispatch" /\ painted # Unpainted /\ keys > 0
    /\ keys' = keys - 1
    /\ UNCHANGED <<env, eventfd, worker, pc, taking, configured, painted, answered>>

\* The layer surface is configured, and painted at once (on_redraw).
Configure ==
    /\ pc = "dispatch" /\ ~configured
    /\ configured' = TRUE
    /\ \/ painted' = Frame /\ redraw' = FALSE
       \/ redraw' = TRUE /\ UNCHANGED painted
    /\ UNCHANGED <<env, shared, eventfd, worker, pc, taking, running, keys, query, appItems, fileItems,
                   contentItems, items, selected, hud, answered>>

\* A Tab with Alt or Super held, whatever the launcher is doing.
Switch ==
    /\ Input /\ ~hud
    /\ hud' = TRUE /\ redraw' = TRUE
    /\ UNCHANGED <<shared, running, query, appItems, fileItems, contentItems, items, selected>>

\* The switcher's keys, and the release of the modifier: it moves, is hidden, or does nothing.
Switching ==
    /\ Input /\ hud
    /\ \/ hud' \in BOOLEAN /\ redraw' = TRUE
       \/ UNCHANGED <<hud, redraw>>
    /\ UNCHANGED <<shared, running, query, appItems, fileItems, contentItems, items, selected>>

\* Windows come and go, and the switcher asks for a frame.
Windows ==
    /\ pc = "dispatch"
    /\ redraw' = TRUE
    /\ UNCHANGED <<env, shared, eventfd, worker, pc, taking, running, keys, query, appItems, fileItems,
                   contentItems, items, selected, hud, configured, painted, answered>>

\* A character, Backspace, Delete or a paste.
Type ==
    /\ Input /\ ~hud
    /\ \E q \in AllQueries : Search(q)
    /\ UNCHANGED <<running, hud>>

\* autocomplete: items_[selected_index_] is read whatever selected_index_ is.
Tab ==
    /\ Input /\ ~hud
    /\ items # <<>> /\ items[selected].kind = "Application"
    /\ \E q \in Queries : Search(q)
    /\ UNCHANGED <<running, hud>>

\* select_item, by the arrows, the wheel, or a click on another row.
Select ==
    /\ Input
    /\ items # <<>>
    /\ selected' \in DOMAIN items /\ redraw' = TRUE
    /\ UNCHANGED <<shared, running, query, appItems, fileItems, contentItems, items, hud>>

\* launch_selected, by Return or a click, which does not ask for hud: a recent search becomes
\* the query, any other item is activated and the launcher quits.
Launch ==
    /\ Input
    /\ items # <<>> /\ selected <= Len(items)
    /\ IF items[selected].kind = "History"
       THEN (\E q \in Queries : Search(q)) /\ UNCHANGED running
       ELSE running' = FALSE /\ UNCHANGED <<shared, query, lists>>
    /\ UNCHANGED hud

\* Escape, a click beside the panel, or the compositor closing the surface.
Quit ==
    /\ Input
    /\ running' = FALSE
    /\ UNCHANGED <<shared, query, lists, hud>>

\* on_mouse, right button: open_file_location, which gives up when there is nothing to show.
Reveal ==
    /\ Input
    /\ items # <<>>
    /\ selected' \in DOMAIN items /\ redraw' = TRUE
    /\ running' \in {running, running /\ items[selected'].kind \in {"Calculator", "History"}}
    /\ UNCHANGED <<shared, query, appItems, fileItems, contentItems, items, hud>>

\* What was read has been dispatched; a dead display ends the loop.
Dispatched ==
    /\ pc = "dispatch" /\ pc' \in {"results", "stopping"}
    /\ UNCHANGED <<env, shared, eventfd, worker, taking, running, keys, query, lists, hud,
                   configured, painted, answered>>

\* The drain of results_fd_ and apply_file_results.
Fresh == readyGen = gen
Results ==
    /\ At("results", "render")
    /\ eventfd' = (eventfd /\ ~taking) /\ taking' = FALSE
    /\ IF taking /\ Fresh
       THEN /\ ready' = NoHits
            /\ Rebuild(appItems, ready.files, ready.contents, selected)
            /\ answered' = gen
       ELSE UNCHANGED <<ready, lists, answered>>
    /\ UNCHANGED <<env, gen, pending, pendingQuery, stop, readyGen, worker, running, keys, query,
                   hud, configured, painted>>

\* render_frame, which can fail to get a buffer, and the loop's condition.
Render ==
    /\ At("render", IF running THEN "poll" ELSE "stopping")
    /\ \/ redraw /\ configured /\ painted' = Frame /\ redraw' = FALSE
       \/ UNCHANGED <<painted, redraw>>
    /\ UNCHANGED <<env, shared, eventfd, worker, taking, running, keys, query, appItems, fileItems,
                   contentItems, items, selected, hud, configured, answered>>

\* SIGINT or SIGTERM, looked for before the frame, leaves the loop.
Terminate ==
    /\ At("render", "stopping")
    /\ env.term /\ running' = FALSE
    /\ UNCHANGED <<env, shared, eventfd, worker, taking, keys, query, lists, hud, configured,
                   painted, answered>>

\* ~LauncherUI: stop under the mutex, notify, join.
Stop ==
    /\ At("stopping", "joining")
    /\ stop' = TRUE
    /\ UNCHANGED <<env, gen, pending, pendingQuery, ready, readyGen, eventfd, worker, taking, running,
                   keys, query, lists, hud, configured, painted, answered>>

Join ==
    /\ At("joining", "done")
    /\ wpc = "ended"
    /\ UNCHANGED <<env, shared, eventfd, worker, taking, running, keys, query, lists, hud,
                   configured, painted, answered>>

Loop == Poll \/ Dispatched \/ Results \/ Render \/ Terminate \/ Stop \/ Join
Inputs == Configure \/ Switch \/ Switching \/ Windows \/ Type \/ Tab \/ Select \/ Launch \/ Quit \/ Reveal

\* init: the first search is asked for before the loop, with the query of the command line.
Init ==
    /\ env \in Environments
    /\ query \in AllQueries
    /\ gen = 1 /\ stop = FALSE
    /\ pending = env.files /\ pendingQuery = (IF env.files THEN query ELSE Empty)
    /\ ready = NoHits /\ readyGen = 0 /\ eventfd = FALSE
    /\ wpc = "wait" /\ job = [query |-> Empty, gen |-> 0] /\ out = NoHits
    /\ pc = "poll" /\ taking = FALSE /\ running = TRUE /\ keys = MaxKeys
    /\ appItems \in AppAnswers(query) /\ fileItems = <<>> /\ contentItems = <<>>
    /\ items = Merged(appItems, <<>>, <<>>) /\ selected = 1
    /\ redraw = TRUE /\ hud = FALSE /\ configured = FALSE /\ painted = Unpainted
    /\ answered = 0

Next == Worker \/ Loop \/ Inputs

Spec == Init /\ [][Next]_vars

\* Both threads run; a walk ends (it has a deadline); nobody has to press a key.
FairSpec == Spec /\ WF_vars(Worker) /\ WF_vars(Loop)

-----------------------------------------------------------------------------
(***************************************************************************)
(* Properties.                                                             *)
(***************************************************************************)

\* The rows of files and of contents answer the query that is in the field: results of an
\* earlier query never come up under a later one, however late they are.
FreshResults ==
    /\ \A i \in DOMAIN fileItems : fileItems[i].query = query
    /\ \A i \in DOMAIN contentItems : contentItems[i].query = query

\* Return, Tab and a click act on a row that there is: selected_index_ is one whenever there are
\* rows (autocomplete reads it unchecked, and rows come and go under it).  While no frame is
\* asked for, the last one shows the rows and the selection there are, but for the time the
\* switcher is over them (hud), in which it shows the switcher.
ActsOnShown ==
    /\ items # <<>> => selected \in DOMAIN items
    /\ configured /\ ~redraw => painted = Frame

\* The same without the exception: a click acts on what is on the screen.  It does not hold, see
\* the README.
ClicksOnShown == configured /\ ~redraw => painted.items = items

\* A query that stays is answered by the worker, unless the launcher ends: none is lost
\* between the field, the worker and the eventfd.
Ended == pc \in {"stopping", "joining", "done"}
LastQueryAnswered == env.files => []<>(answered = gen \/ Ended)

\* The launcher ends: the worker is never left waiting for work when it is joined.
JoinEnds == pc = "stopping" ~> pc = "done"

\* What launcher_ui.cpp:810-811 says, "one query returns everything relevant, grouped": files
\* that have come in for a query stay among the rows until the query changes.
\* It does not hold, see the README.
ResultsStay ==
    [][gen' = gen /\ fileItems # <<>> => fileItems' # <<>>]_vars
=============================================================================
