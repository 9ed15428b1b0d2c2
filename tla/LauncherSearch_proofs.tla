------------------------ MODULE LauncherSearch_proofs ------------------------
(***************************************************************************)
(* Proofs that the launcher never shows results of an earlier query, and   *)
(* that keys and clicks act on a row that is there and on the screen,      *)
(* but for the time the switcher is over it.                               *)
(***************************************************************************)
EXTENDS LauncherSearch, WellFoundedInduction, TLAPS

\* A list whose entries answer q.
Of(l, q) == \A i \in DOMAIN l : l[i].query = q
BothOf(r, q) == Of(r.files, q) /\ Of(r.contents, q)

\* A generation stands for one query: whatever carries the generation there is now, on its
\* way to the worker, in its hands or ready, answers the query there is now.
Numbers == gen \in Nat /\ readyGen \in Nat /\ job.gen \in Nat /\ readyGen <= gen /\ job.gen <= gen
Asked == pending => env.files /\ pendingQuery = query
Working == wpc \in {"search", "post"} /\ job.gen = gen => job.query = query
Found == wpc = "post" => BothOf(out, job.query)
Posted == readyGen = gen => BothOf(ready, query)

IInv == Numbers /\ Asked /\ Working /\ Found /\ Posted /\ FreshResults

\* What a provider answers is marked with the query it was asked.
LEMMA AnswersMarked ==
    ASSUME NEW q, NEW r \in AsyncAnswers(q)
    PROVE  BothOf(r, q)
<1>1. CASE r = NoHits
  BY <1>1 DEF NoHits, BothOf, Of
<1>2. CASE r # NoHits
  <2>1. PICK rank \in {1, 3}, n \in 0..MaxHits, m \in 0..MaxHits :
            r = [files |-> Hits("File", q, rank, n), contents |-> Hits("Content", q, 1, m)]
    BY <1>2 DEF AsyncAnswers
  <2>2. Of(Hits("File", q, rank, n), q) /\ Of(Hits("Content", q, 1, m), q)
    BY DEF Of, Hits
  <2>3. QED
    BY <2>1, <2>2 DEF BothOf
<1>3. QED
  BY <1>1, <1>2

\* An empty list holds nothing that was found for another query.
LEMMA NothingIsOfAll == ASSUME NEW q PROVE Of(<<>>, q) /\ BothOf(NoHits, q)
  BY DEF Of, BothOf, NoHits

\* The first query is the first generation's.
LEMMA InitIInv == Init => IInv
  BY NothingIsOfAll DEF Init, IInv, Numbers, Asked, Working, Found, Posted, FreshResults, Of

\* A new query: every generation that is on its way has become an old one.
LEMMA SearchKeeps ==
    ASSUME IInv, NEW q, Search(q), UNCHANGED <<env, wpc, job, out>>
    PROVE  IInv'
<1>1. /\ query' = q /\ gen' = gen + 1 /\ UNCHANGED <<ready, readyGen>>
      /\ pending' = (pending \/ env.files)
      /\ pendingQuery' = (IF env.files THEN q ELSE pendingQuery)
      /\ fileItems' = <<>> /\ contentItems' = <<>>
  BY DEF Search, Kick, Rebuild
<1>2. Numbers' /\ readyGen' # gen' /\ job.gen' # gen'
  BY <1>1 DEF IInv, Numbers
<1>3. Asked'
  BY <1>1 DEF IInv, Asked
<1>4. Working' /\ Found' /\ Posted'
  BY <1>2 DEF IInv, Working, Found, Posted
<1>5. FreshResults'
  BY <1>1, NothingIsOfAll DEF FreshResults, Of
<1>6. QED
  BY <1>2, <1>3, <1>4, <1>5 DEF IInv

\* Nothing the invariant speaks of changes.
tracked == <<env, query, gen, pending, pendingQuery, ready, readyGen, worker, fileItems,
             contentItems>>
LEMMA StutterKeeps == ASSUME IInv, UNCHANGED tracked PROVE IInv'
  BY DEF tracked, worker, IInv, Numbers, Asked, Working, Found, Posted, FreshResults, BothOf, Of

\* The worker keeps it: it posts only what it found for the last generation.
LEMMA WorkerKeeps == ASSUME IInv, Worker PROVE IInv'
<1> USE DEF IInv
<1>1. CASE Take
  <2>1. UNCHANGED <<env, query, gen, pendingQuery, ready, readyGen, out, fileItems, contentItems>>
    BY <1>1 DEF Take, ui, lists
  <2>2. CASE stop
    BY <1>1, <2>1, <2>2 DEF Take, Numbers, Asked, Working, Found, Posted, FreshResults
  <2>3. CASE ~stop
    <3>1. pending /\ wpc' = "search" /\ job' = [query |-> pendingQuery, gen |-> gen] /\ ~pending'
      BY <1>1, <2>3 DEF Take, Wakes
    <3>2. QED
      BY <2>1, <3>1 DEF Numbers, Asked, Working, Found, Posted, FreshResults
  <2>4. QED
    BY <2>2, <2>3
<1>2. CASE Walk
  <2>1. BothOf(out', job.query)
    BY <1>2, AnswersMarked DEF Walk
  <2>2. /\ UNCHANGED <<env, query, gen, pending, pendingQuery, ready, readyGen, job, fileItems,
                       contentItems>>
        /\ wpc = "search" /\ wpc' = "post"
    BY <1>2 DEF Walk, ui, lists, shared
  <2>3. QED
    BY <2>1, <2>2 DEF Numbers, Asked, Working, Found, Posted, FreshResults
<1>3. CASE Post
  <2>1. /\ UNCHANGED <<env, query, gen, pending, pendingQuery, job, out, fileItems, contentItems>>
        /\ wpc = "post" /\ wpc' # "post" /\ wpc' # "search"
    BY <1>3 DEF Post, PostPending, ui, lists
  <2>2. UNCHANGED <<ready, readyGen>> \/ (Current /\ ready' = out /\ readyGen' = gen)
    BY <1>3 DEF Post
  <2>3. CASE UNCHANGED <<ready, readyGen>>
    BY <2>1, <2>3 DEF Numbers, Asked, Working, Found, Posted, FreshResults
  <2>4. CASE Current /\ ready' = out /\ readyGen' = gen
    <3>1. BothOf(ready', query)
      BY <2>1, <2>4 DEF Current, Working, Found
    <3>2. QED
      BY <2>1, <2>4, <3>1 DEF Numbers, Asked, Working, Found, Posted, FreshResults
  <2>5. QED
    BY <2>2, <2>3, <2>4
<1>4. CASE Write
  BY <1>4 DEF Write, ui, lists, shared, Numbers, Asked, Working, Found, Posted, FreshResults
<1>5. QED
  BY <1>1, <1>2, <1>3, <1>4 DEF Worker

\* The loop keeps it: it takes only what answers the last generation.
LEMMA LoopKeeps == ASSUME IInv, Loop PROVE IInv'
<1>1. CASE Results /\ taking /\ Fresh
  <2>1. /\ fileItems' = ready.files /\ contentItems' = ready.contents /\ ready' = NoHits
        /\ UNCHANGED <<env, query, gen, pending, pendingQuery, readyGen, wpc, job, out>>
    BY <1>1 DEF Results, Rebuild, worker
  <2>2. BothOf(ready, query)
    BY <1>1 DEF IInv, Posted, Fresh
  <2>3. FreshResults'
    BY <2>1, <2>2 DEF FreshResults, BothOf, Of
  <2>4. Posted'
    BY <2>1, NothingIsOfAll DEF Posted
  <2>5. QED
    BY <2>1, <2>3, <2>4 DEF IInv, Numbers, Asked, Working, Found
<1>2. CASE Results /\ ~(taking /\ Fresh)
  BY <1>2, StutterKeeps DEF Results, tracked, lists
<1>3. CASE Poll \/ Dispatched \/ Render \/ Terminate \/ Stop \/ Join
  BY <1>3, StutterKeeps DEF Poll, Dispatched, Render, Terminate, Stop, Join, tracked, lists, shared
<1>4. QED
  BY <1>1, <1>2, <1>3 DEF Loop

\* Keys and clicks keep it.
LEMMA InputsKeep == ASSUME IInv, Inputs PROVE IInv'
<1>1. CASE \E q \in AllQueries : Search(q)
  <2>1. UNCHANGED <<env, wpc, job, out>>
    BY DEF Inputs, Configure, Switch, Switching, Windows, Type, Tab, Select, Launch, Quit, Reveal,
           Input, worker
  <2>2. QED
    BY <1>1, <2>1, SearchKeeps
<1>2. CASE ~\E q \in AllQueries : Search(q)
  <2>1. UNCHANGED tracked
    BY <1>2 DEF Inputs, Configure, Switch, Switching, Windows, Type, Tab, Select, Launch, Quit, Reveal,
                Input, worker, tracked, lists, shared, AllQueries
  <2>2. QED
    BY <2>1, StutterKeeps
<1>3. QED
  BY <1>1, <1>2

\* So every step keeps it.
LEMMA NextIInv == IInv /\ [Next]_vars => IInv'
<1>1. ASSUME IInv, UNCHANGED vars PROVE IInv'
  BY <1>1, StutterKeeps DEF vars, ui, lists, shared, tracked
<1>2. QED
  BY <1>1, WorkerKeeps, LoopKeeps, InputsKeep DEF Next

\* Rows of files and contents always answer the query in the field, for any number of keys,
\* any providers, and however late the worker is.
THEOREM ResultsFresh == Spec => []FreshResults
<1>1. IInv => FreshResults
  BY DEF IInv
<1>2. QED
  BY <1>1, InitIInv, NextIInv, PTL DEF Spec

-----------------------------------------------------------------------------
(***************************************************************************)
(* Types, and that what is selected is a row and is what is on the screen. *)
(***************************************************************************)

\* A set of numbers that is not empty has a least one.
LEMMA Least == ASSUME NEW T, T \subseteq Nat, T # {} PROVE \E x \in T : \A y \in T : x <= y
<1> DEFINE R == OpToRel(<, Nat)
<1>1. IsWellFoundedOn(R, Nat)
  BY NatLessThanWellFounded
<1>2. PICK x \in T : \A y \in T : ~(<<y, x>> \in R)
  <2> HIDE DEF R
  <2> QED
    BY <1>1, WFMin
<1>3. \A y \in T : ~(y < x)
  BY <1>2 DEF OpToRel
<1>4. QED
  BY <1>3

\* A list that is not empty has a first entry of the highest score.
LEMMA BestExists ==
    ASSUME NEW s \in Seq(Item), s # <<>>
    PROVE  Best(s) \in DOMAIN s
<1>1. DOMAIN s = 1..Len(s) /\ Len(s) \in Nat /\ 1 \in DOMAIN s
      /\ \A i \in DOMAIN s : s[i].rank \in 1..3
  <2>1. Len(s) \in Nat /\ DOMAIN s = 1..Len(s) /\ Len(s) # 0 /\ \A i \in DOMAIN s : s[i] \in Item
    OBVIOUS
  <2>2. QED
    BY <2>1 DEF Item
<1> DEFINE Low == {3 - s[i].rank : i \in DOMAIN s}
<1>2. Low \subseteq Nat /\ Low # {}
  BY <1>1
<1>3. PICK x \in Low : \A y \in Low : x <= y
  BY <1>2, Least
<1> DEFINE Top == {i \in DOMAIN s : 3 - s[i].rank = x}
<1>4. Top \subseteq Nat /\ Top # {}
  BY <1>1, <1>3
<1>5. PICK i \in Top : \A j \in Top : i <= j
  BY <1>4, Least
<1>6. ASSUME NEW j \in DOMAIN s
      PROVE  s[j].rank <= s[i].rank /\ (j < i => s[j].rank < s[i].rank)
  <2>1. 3 - s[j].rank \in Low /\ s[j].rank \in 1..3 /\ s[i].rank \in 1..3 /\ 3 - s[i].rank = x
    BY <1>1, <1>6
  <2>2. x <= 3 - s[j].rank
    BY <1>3, <2>1
  <2>3. j < i => j \notin Top
    BY <1>1, <1>5
  <2>4. j < i => 3 - s[j].rank # x
    BY <1>6, <2>3
  <2>5. QED
    BY <2>1, <2>2, <2>4
<1>7. \E k \in DOMAIN s : \A j \in DOMAIN s :
         s[j].rank <= s[k].rank /\ (j < k => s[j].rank < s[k].rank)
  BY <1>6
<1>8. QED
  BY <1>7 DEF Best

\* The merged rows are a list of items.
LEMMA MergedType ==
    ASSUME NEW a \in Seq(Item), NEW f \in Seq(Item), NEW c \in Seq(Item)
    PROVE  Merged(a, f, c) \in Seq(Item)
<1> DEFINE af == a \o f
           b == Best(af)
<1>1. af \in Seq(Item)
  OBVIOUS
<1>2. CASE af = <<>>
  BY <1>2 DEF Merged
<1>3. CASE af # <<>>
  <2>1. b \in DOMAIN af
    BY <1>1, <1>3, BestExists
  <2> HIDE DEF af, b
  <2>2. b \in 1..Len(af) /\ Len(af) \in Nat /\ af[b] \in Item
    BY <1>1, <2>1
  <2>3. <<af[b]>> \in Seq(Item) /\ SubSeq(af, 1, b - 1) \in Seq(Item)
        /\ SubSeq(af, b + 1, Len(af)) \in Seq(Item)
    BY <1>1, <2>2
  <2>4. <<af[b]>> \o SubSeq(af, 1, b - 1) \o SubSeq(af, b + 1, Len(af)) \o c \in Seq(Item)
    BY <2>3
  <2>5. QED
    BY <1>3, <2>4 DEF Merged, af, b
<1>4. QED
  BY <1>2, <1>3

\* What a provider answers is a list of items.
LEMMA HitsType ==
    ASSUME NEW kind \in Kinds, NEW q \in AllQueries, NEW rank \in 1..3, NEW n \in 0..MaxHits
    PROVE  Hits(kind, q, rank, n) \in Seq(Item)
<1>1. MaxHits \in Nat /\ n \in Nat
  BY SearchAssumption
<1>2. \A i \in 1..n : [kind |-> kind, query |-> q, n |-> i, rank |-> rank] \in Item
  BY <1>1 DEF Item
<1>3. QED
  BY <1>1, <1>2 DEF Hits

TwoLists == [files : Seq(Item), contents : Seq(Item)]

LEMMA AnswersType ==
    ASSUME NEW q \in AllQueries
    PROVE  AsyncAnswers(q) \subseteq TwoLists /\ NoHits \in TwoLists /\ AppAnswers(q) \subseteq Seq(Item)
<1>1. NoHits \in TwoLists
  BY DEF NoHits, TwoLists
<1>2. MaxHits \in Nat /\ 0 \in 0..MaxHits
  BY SearchAssumption
<1>3. ASSUME NEW r \in AsyncAnswers(q), r # NoHits PROVE r \in TwoLists
  <2>1. PICK rank \in {1, 3}, n \in 0..MaxHits, m \in 0..MaxHits :
            r = [files |-> Hits("File", q, rank, n), contents |-> Hits("Content", q, 1, m)]
    BY <1>3 DEF AsyncAnswers
  <2>2. Hits("File", q, rank, n) \in Seq(Item) /\ Hits("Content", q, 1, m) \in Seq(Item)
    <3>1. "File" \in Kinds /\ "Content" \in Kinds /\ rank \in 1..3 /\ 1 \in 1..3
      BY DEF Kinds
    <3>2. QED
      BY <3>1, HitsType
  <2>3. QED
    BY <2>1, <2>2 DEF TwoLists
<1>4. ASSUME NEW l \in AppAnswers(q) PROVE l \in Seq(Item)
  <2>1. \E kind \in Kinds, n \in 0..MaxHits : l = Hits(kind, q, 2, n)
    BY <1>2, <1>4 DEF AppAnswers, Kinds
  <2>2. QED
    BY <2>1, HitsType
<1>5. QED
  BY <1>1, <1>3, <1>4

\* Every key that changes the query is one less to come.
Bounded == gen + keys <= MaxKeys + 1

\* The rows, what of them is selected, and what the last frame showed.
Rows ==
    /\ items # <<>> => selected \in DOMAIN items
    /\ configured /\ ~redraw => painted = Frame

LEMMA ClampType ==
    ASSUME NEW s \in Nat \ {0}, NEW n \in Nat
    PROVE  Clamp(s, n) \in Nat \ {0} /\ (n # 0 => Clamp(s, n) \in 1..n)
  BY DEF Clamp

\* Rebuilt rows.
LEMMA RebuildKeeps ==
    ASSUME NEW a \in Seq(Item), NEW f \in Seq(Item), NEW c \in Seq(Item), NEW s \in Nat \ {0},
           Rebuild(a, f, c, s)
    PROVE  /\ {appItems, fileItems, contentItems, items}' \subseteq Seq(Item)
           /\ selected' \in Nat \ {0} /\ redraw' = TRUE
           /\ items' # <<>> => selected' \in DOMAIN items'
<1> DEFINE m == Merged(a, f, c)
<1>1. m \in Seq(Item)
  BY MergedType
<1>2. appItems' = a /\ fileItems' = f /\ contentItems' = c /\ items' = m /\ selected' = Clamp(s, Len(m))
      /\ redraw' = TRUE
  BY DEF Rebuild, Redraw
<1> HIDE DEF m
<1>3. Len(m) \in Nat /\ DOMAIN m = 1..Len(m) /\ (m # <<>> => Len(m) # 0)
  BY <1>1
<1>4. QED
  BY <1>1, <1>2, <1>3, ClampType

Typed == TypeOK /\ Bounded /\ Rows

\* The part of it that speaks of the lists.
Listed == /\ {appItems, fileItems, contentItems, items, painted.items} \subseteq Seq(Item)
          /\ selected \in Nat \ {0} /\ painted.selected \in Nat /\ painted.hud \in BOOLEAN
          /\ hud \in BOOLEAN /\ redraw \in BOOLEAN /\ configured \in BOOLEAN
\* And the rest.
Others == /\ env \in Environments
          /\ {query, pendingQuery, job.query} \subseteq AllQueries
          /\ {gen, readyGen, job.gen, answered} \subseteq Generations
          /\ \A b \in {pending, stop, eventfd, taking, running} : b \in BOOLEAN
          /\ wpc \in {"wait", "search", "post", "write", "ended"}
          /\ pc \in {"poll", "dispatch", "results", "render", "stopping", "joining", "done"}
          /\ keys \in 0..MaxKeys
          /\ ready \in TwoLists /\ out \in TwoLists
LEMMA InTwo == TypeOK <=> Listed /\ Others
  BY DEF TypeOK, Listed, Others, TwoLists

\* What a frame shows has the type of what was painted.
FrameOf(f) == f.items \in Seq(Item) /\ f.selected \in Nat /\ f.hud \in BOOLEAN
LEMMA FrameType == Listed => FrameOf(Frame)
<1>1. <<>> \in Seq(Item)
  OBVIOUS
<1>2. QED
  BY <1>1 DEF Listed, Frame, FrameOf

LEMMA SearchTyped ==
    ASSUME Typed, NEW q \in AllQueries, Search(q), keys > 0, keys' = keys - 1,
           UNCHANGED <<env, eventfd, worker, pc, taking, hud, configured, painted, answered>>,
           running' \in BOOLEAN
    PROVE  Typed'
<1>1. Listed /\ Others /\ Bounded /\ MaxKeys \in Nat
  BY InTwo, SearchAssumption DEF Typed
<1>2. /\ query' = q /\ gen' = gen + 1 /\ UNCHANGED <<stop, ready, readyGen>>
      /\ pending' = (pending \/ env.files)
      /\ pendingQuery' = (IF env.files THEN q ELSE pendingQuery)
  BY DEF Search, Kick
<1>3. PICK apps \in AppAnswers(q) : Rebuild(apps, <<>>, <<>>, 1)
  BY DEF Search
<1>4. apps \in Seq(Item) /\ <<>> \in Seq(Item) /\ 1 \in Nat \ {0}
  BY <1>3, AnswersType
<1>5. /\ {appItems, fileItems, contentItems, items}' \subseteq Seq(Item)
      /\ selected' \in Nat \ {0} /\ redraw' = TRUE
      /\ items' # <<>> => selected' \in DOMAIN items'
  BY <1>3, <1>4, RebuildKeeps
<1>6. Listed' /\ Rows'
  BY <1>1, <1>5 DEF Listed, Rows
<1>7. gen' \in Generations /\ keys' \in 0..MaxKeys /\ Bounded'
  BY <1>1, <1>2 DEF Others, Generations, Bounded
<1>8. pending' \in BOOLEAN
  BY <1>2
<1>9. Others'
  BY <1>1, <1>2, <1>7, <1>8 DEF Others, worker
<1>10. QED
  BY <1>6, <1>7, <1>9, InTwo DEF Typed, TypeOK, Listed, Others, TwoLists

LEMMA WorkerTyped == ASSUME Typed, Worker PROVE Typed'
<1>1. Listed /\ Others /\ Bounded /\ Rows
  BY InTwo DEF Typed
<1>2. UNCHANGED ui
  BY DEF Worker, Take, Walk, Post, Write
<1>3. Listed' /\ Rows'
  BY <1>1, <1>2 DEF ui, lists, Listed, Rows, Frame
<1>4. CASE Take
  <2>1. /\ UNCHANGED <<env, gen, pendingQuery, stop, ready, readyGen, eventfd, out>>
        /\ \/ wpc' = "ended" /\ UNCHANGED <<job, pending>>
           \/ wpc' = "search" /\ job' = [query |-> pendingQuery, gen |-> gen] /\ pending' = FALSE
    BY <1>4 DEF Take
  <2>2. job'.query \in AllQueries /\ job'.gen \in Generations
    <3>1. CASE wpc' = "ended" /\ UNCHANGED <<job, pending>>
      BY <1>1, <3>1 DEF Others
    <3>2. CASE job' = [query |-> pendingQuery, gen |-> gen]
      <4>1. job'.query = pendingQuery /\ job'.gen = gen
        BY <3>2
      <4>2. QED
        BY <1>1, <4>1 DEF Others
    <3>3. QED
      BY <2>1, <3>1, <3>2
  <2>2b. pending' \in BOOLEAN
    <3>1. pending \in BOOLEAN
      BY <1>1 DEF Others
    <3>2. pending' = pending \/ pending' = FALSE
      BY <2>1
    <3>3. QED
      BY <3>1, <3>2
  <2>3. Others' /\ Bounded'
    BY <1>1, <1>2, <2>1, <2>2, <2>2b DEF ui, Others, Bounded
  <2>4. QED
    BY <1>3, <2>3 DEF Typed, TypeOK, Listed, Others, TwoLists
<1>5. CASE Walk
  <2>1. out' \in TwoLists
    BY <1>1, <1>5, AnswersType DEF Walk, Others
  <2>2. Others' /\ Bounded'
    BY <1>1, <1>2, <1>5, <2>1 DEF Walk, ui, shared, Others, Bounded
  <2>3. QED
    BY <1>3, <2>2 DEF Typed, TypeOK, Listed, Others, TwoLists
<1>6. CASE Post
  <2>1. Others' /\ Bounded'
    BY <1>1, <1>2, <1>6 DEF Post, PostPending, ui, Others, Bounded
  <2>2. QED
    BY <1>3, <2>1 DEF Typed, TypeOK, Listed, Others, TwoLists
<1>7. CASE Write
  <2>1. Others' /\ Bounded'
    BY <1>1, <1>2, <1>7 DEF Write, ui, shared, Others, Bounded
  <2>2. QED
    BY <1>3, <2>1 DEF Typed, TypeOK, Listed, Others, TwoLists
<1>8. QED
  BY <1>4, <1>5, <1>6, <1>7 DEF Worker

LEMMA LoopTyped == ASSUME Typed, Loop PROVE Typed'
<1>1. Listed /\ Others /\ Bounded /\ Rows
  BY InTwo DEF Typed
<1>2. CASE Poll \/ Dispatched \/ Terminate \/ Stop \/ Join
  <2>1. Listed' /\ Rows'
    BY <1>1, <1>2 DEF Poll, Dispatched, Terminate, Stop, Join, lists, Listed, Rows, Frame
  <2>2. Others' /\ Bounded'
    BY <1>1, <1>2 DEF Poll, Dispatched, Terminate, Stop, Join, At, shared, worker, Others, Bounded
  <2>3. QED
    BY <2>1, <2>2 DEF Typed, TypeOK, Listed, Others, TwoLists
<1>3. CASE Render
  <2>1. UNCHANGED <<appItems, fileItems, contentItems, items, selected, hud, configured>>
        /\ (\/ redraw' = FALSE /\ painted' = Frame
            \/ UNCHANGED <<painted, redraw>>)
    BY <1>3 DEF Render
  <2>2. Listed' /\ Rows'
    <3>0. Frame' = Frame /\ FrameOf(Frame)
      BY <1>1, <2>1, FrameType DEF Frame
    <3>1. CASE redraw' = FALSE /\ painted' = Frame
      BY <1>1, <2>1, <3>0, <3>1 DEF Listed, Rows, FrameOf
    <3>2. CASE UNCHANGED <<painted, redraw>>
      BY <1>1, <2>1, <3>0, <3>2 DEF Listed, Rows
    <3>3. QED
      BY <2>1, <3>1, <3>2
  <2>3. Others' /\ Bounded'
    BY <1>1, <1>3 DEF Render, At, shared, worker, Others, Bounded
  <2>4. QED
    BY <2>2, <2>3 DEF Typed, TypeOK, Listed, Others, TwoLists
<1>4. CASE Results
  <2>1. UNCHANGED <<env, gen, pending, pendingQuery, stop, readyGen, worker, running, keys, query,
                    hud, configured, painted>>
        /\ At("results", "render") /\ taking' = FALSE /\ eventfd' = (eventfd /\ ~taking)
    BY <1>4 DEF Results
  <2>2. CASE taking /\ Fresh
    <3>1. ready' = NoHits /\ Rebuild(appItems, ready.files, ready.contents, selected) /\ answered' = gen
      BY <1>4, <2>2 DEF Results
    <3>2. appItems \in Seq(Item) /\ ready.files \in Seq(Item) /\ ready.contents \in Seq(Item)
          /\ selected \in Nat \ {0}
      BY <1>1 DEF Listed, Others, TwoLists
    <3>3. /\ {appItems, fileItems, contentItems, items}' \subseteq Seq(Item)
          /\ selected' \in Nat \ {0} /\ redraw' = TRUE
          /\ items' # <<>> => selected' \in DOMAIN items'
      BY <3>1, <3>2, RebuildKeeps
    <3>4. Listed' /\ Rows'
      BY <1>1, <2>1, <3>3 DEF Listed, Rows
    <3>5. NoHits \in TwoLists
      BY DEF NoHits, TwoLists
    <3>6. Others' /\ Bounded'
      BY <1>1, <2>1, <3>1, <3>5 DEF At, worker, Others, Bounded
    <3>7. QED
      BY <3>4, <3>6 DEF Typed, TypeOK, Listed, Others, TwoLists
  <2>3. CASE ~(taking /\ Fresh)
    <3>1. UNCHANGED <<ready, lists, answered>>
      BY <1>4, <2>3 DEF Results
    <3>2. Listed' /\ Rows'
      BY <1>1, <2>1, <3>1 DEF lists, Listed, Rows, Frame
    <3>3. Others' /\ Bounded'
      BY <1>1, <2>1, <3>1 DEF At, worker, Others, Bounded
    <3>4. QED
      BY <3>2, <3>3 DEF Typed, TypeOK, Listed, Others, TwoLists
  <2>4. QED
    BY <2>2, <2>3
<1>5. QED
  BY <1>2, <1>3, <1>4 DEF Loop

LEMMA InputsTyped == ASSUME Typed, Inputs PROVE Typed'
<1>1. Listed /\ Others /\ Bounded /\ Rows
  BY InTwo DEF Typed
<1>2. CASE Configure
  <2>1. /\ configured' = TRUE
        /\ UNCHANGED <<env, shared, eventfd, worker, pc, taking, running, keys, query, appItems,
                       fileItems, contentItems, items, selected, hud, answered>>
        /\ \/ painted' = Frame /\ redraw' = FALSE
           \/ redraw' = TRUE /\ UNCHANGED painted
    BY <1>2 DEF Configure
  <2>2. Listed' /\ Rows'
    <3>0. Frame' = Frame /\ FrameOf(Frame)
      BY <1>1, <2>1, FrameType DEF Frame
    <3>1. CASE redraw' = FALSE /\ painted' = Frame
      BY <1>1, <2>1, <3>0, <3>1 DEF Listed, Rows, FrameOf
    <3>2. CASE redraw' = TRUE /\ UNCHANGED painted
      BY <1>1, <2>1, <3>2 DEF Listed, Rows
    <3>3. QED
      BY <2>1, <3>1, <3>2
  <2>3. Others' /\ Bounded'
    BY <1>1, <2>1 DEF shared, worker, Others, Bounded
  <2>4. QED
    BY <2>2, <2>3 DEF Typed, TypeOK, Listed, Others, TwoLists
<1>3. ASSUME Input, UNCHANGED hud, running' \in BOOLEAN, NEW q \in AllQueries, Search(q) PROVE Typed'
  <2>1. keys > 0 /\ keys' = keys - 1
        /\ UNCHANGED <<env, eventfd, worker, pc, taking, configured, painted, answered>>
    BY <1>3 DEF Input
  <2>2. QED
    BY <1>3, <2>1, SearchTyped
<1>4. ASSUME Input, running' \in BOOLEAN, UNCHANGED <<shared, query, appItems, fileItems, contentItems, items>>,
             hud' \in BOOLEAN,
             \/ UNCHANGED <<lists, hud>>
             \/ (selected' \in DOMAIN items \/ selected' = selected) /\ redraw' = TRUE
      PROVE  Typed'
  <2>1. keys > 0 /\ keys' = keys - 1
        /\ UNCHANGED <<env, eventfd, worker, pc, taking, configured, painted, answered>>
    BY <1>4 DEF Input
  <2>2. Listed' /\ Rows'
    <3>1. CASE UNCHANGED <<lists, hud>>
      BY <1>1, <2>1, <3>1 DEF lists, Listed, Rows, Frame
    <3>2. CASE (selected' \in DOMAIN items \/ selected' = selected) /\ redraw' = TRUE
      <4>1. selected' \in Nat \ {0} /\ items' = items
        BY <1>1, <1>4, <3>2 DEF Listed
      <4>2. QED
        BY <1>1, <1>4, <2>1, <3>2, <4>1 DEF Listed, Rows
    <3>3. QED
      BY <1>4, <3>1, <3>2
  <2>3. keys' \in 0..MaxKeys /\ Bounded'
    <3>1. MaxKeys \in Nat /\ keys \in 0..MaxKeys /\ gen \in Nat /\ gen' = gen
      BY <1>1, <1>4, SearchAssumption DEF Others, Generations, shared
    <3>2. QED
      BY <1>1, <2>1, <3>1 DEF Bounded
  <2>4. Others'
    BY <1>1, <1>4, <2>1, <2>3 DEF shared, worker, Others
  <2>5. QED
    BY <2>2, <2>3, <2>4 DEF Typed, TypeOK, Listed, Others, TwoLists
<1>5. running \in BOOLEAN /\ hud \in BOOLEAN
  BY <1>1 DEF Others, Listed
<1>6. CASE Type
  BY <1>3, <1>5, <1>6 DEF Type
<1>7. CASE Tab
  BY <1>3, <1>5, <1>7 DEF Tab, AllQueries
<1>8. CASE Select
  BY <1>4, <1>5, <1>8 DEF Select
<1>9. CASE Launch
  <2>1. CASE (\E q \in Queries : Search(q)) /\ UNCHANGED running
    BY <1>3, <1>5, <1>9, <2>1 DEF Launch, AllQueries
  <2>2. CASE running' = FALSE /\ UNCHANGED <<shared, query, lists>>
    BY <1>4, <1>5, <1>9, <2>2 DEF Launch, lists
  <2>3. QED
    BY <1>9, <2>1, <2>2 DEF Launch
<1>10. CASE Quit
  BY <1>4, <1>5, <1>10 DEF Quit, lists
<1>11. CASE Reveal
  <2>1. running' \in BOOLEAN
    BY <1>5, <1>11 DEF Reveal
  <2>2. QED
    BY <1>4, <1>5, <1>11, <2>1 DEF Reveal
<1>12. CASE Switch
  BY <1>4, <1>5, <1>12 DEF Switch
<1>13. CASE Switching
  <2>1. hud' \in BOOLEAN
    BY <1>5, <1>13 DEF Switching
  <2>2. QED
    BY <1>4, <1>5, <1>13, <2>1 DEF Switching, lists
<1>14. CASE Windows
  <2>1. redraw' = TRUE
        /\ UNCHANGED <<env, shared, eventfd, worker, pc, taking, running, keys, query, appItems,
                       fileItems, contentItems, items, selected, hud, configured, painted, answered>>
    BY <1>14 DEF Windows
  <2>2. Listed' /\ Rows'
    BY <1>1, <2>1 DEF Listed, Rows
  <2>3. Others' /\ Bounded'
    BY <1>1, <2>1 DEF shared, worker, Others, Bounded
  <2>4. QED
    BY <2>2, <2>3 DEF Typed, TypeOK, Listed, Others, TwoLists
<1>15. QED
  BY <1>2, <1>6, <1>7, <1>8, <1>9, <1>10, <1>11, <1>12, <1>13, <1>14 DEF Inputs

LEMMA InitTyped == Init => Typed
<1> SUFFICES ASSUME Init PROVE Typed
  OBVIOUS
<1>1. query \in AllQueries /\ env \in Environments /\ env.files \in BOOLEAN /\ MaxKeys \in Nat
  BY SearchAssumption DEF Init, EnvironmentType
<1>2. appItems \in Seq(Item) /\ <<>> \in Seq(Item) /\ NoHits \in TwoLists
  BY <1>1, AnswersType DEF Init
<1>3. items \in Seq(Item)
  BY <1>2, MergedType DEF Init
<1>3b. /\ fileItems = <<>> /\ contentItems = <<>> /\ selected = 1 /\ redraw = TRUE
       /\ hud = FALSE /\ configured = FALSE
       /\ painted.items = <<>> /\ painted.selected = 0
  BY DEF Init, Unpainted
<1>4. Listed
  <2>1. {appItems, fileItems, contentItems, items, painted.items} \subseteq Seq(Item)
    BY <1>2, <1>3, <1>3b
  <2>2. selected \in Nat \ {0} /\ painted.selected \in Nat /\ painted.hud \in BOOLEAN
    <3>1. painted = Unpainted
      BY DEF Init
    <3>2. painted.hud \in BOOLEAN
      BY <3>1 DEF Unpainted
    <3>3. QED
      BY <1>3b, <3>2
  <2>3. hud \in BOOLEAN /\ redraw \in BOOLEAN /\ configured \in BOOLEAN
    BY <1>3b
  <2>4. QED
    BY <2>1, <2>2, <2>3 DEF Listed
<1>5. Empty \in AllQueries /\ {0, 1} \subseteq Generations
  BY <1>1 DEF AllQueries, Generations
<1>6. job.query = Empty /\ job.gen = 0 /\ pendingQuery \in AllQueries
  BY <1>1, <1>5 DEF Init
<1>6a. pending \in BOOLEAN
  BY <1>1 DEF Init
<1>6b. /\ stop = FALSE /\ eventfd = FALSE /\ taking = FALSE /\ running = TRUE /\ gen = 1 /\ readyGen = 0
       /\ answered = 0 /\ wpc = "wait" /\ pc = "poll" /\ keys = MaxKeys /\ ready = NoHits /\ out = NoHits
  BY DEF Init
<1>6c. Others
  <2>1. \A b \in {pending, stop, eventfd, taking, running} : b \in BOOLEAN
    BY <1>6a, <1>6b
  <2>2. {query, pendingQuery, job.query} \subseteq AllQueries
    BY <1>1, <1>5, <1>6
  <2>3. {gen, readyGen, job.gen, answered} \subseteq Generations /\ keys \in 0..MaxKeys
    BY <1>1, <1>5, <1>6, <1>6b
  <2>4. ready \in TwoLists /\ out \in TwoLists
    BY <1>2, <1>6b
  <2>5. wpc = "wait" /\ pc = "poll" /\ env \in Environments
    BY <1>1, <1>6b
  <2>6. QED
    BY <2>1, <2>2, <2>3, <2>4, <2>5 DEF Others
<1>6d. Bounded
  BY <1>1, <1>6b DEF Bounded
<1>7. Rows
  BY <1>3 DEF Init, Rows
<1>8. QED
  BY <1>4, <1>6c, <1>6d, <1>7, InTwo DEF Typed

LEMMA TypedAlways == Spec => []Typed
<1>1. ASSUME Typed, UNCHANGED vars PROVE Typed'
  <2>1. Listed /\ Others /\ Bounded /\ Rows
    BY <1>1, InTwo DEF Typed
  <2>2. Listed' /\ Rows'
    BY <1>1, <2>1 DEF vars, ui, lists, Listed, Rows, Frame
  <2>3. Others' /\ Bounded'
    BY <1>1, <2>1 DEF vars, ui, shared, worker, Others, Bounded
  <2>4. QED
    BY <2>2, <2>3 DEF Typed, TypeOK, Listed, Others, TwoLists
<1>2. Typed /\ [Next]_vars => Typed'
  BY <1>1, WorkerTyped, LoopTyped, InputsTyped DEF Next
<1>3. QED
  BY <1>2, InitTyped, PTL DEF Spec

\* Every variable has its type, for any queries, hits and keys.
THEOREM TypeCorrect == Spec => []TypeOK
  BY TypedAlways, PTL DEF Typed

\* Return, Tab and a click act on a row that there is whenever there are rows, and while no frame is
\* asked for the last one shows rows and selection as they are, or the switcher over them: for any
\* queries, hits and number of keys.
THEOREM ActsOnWhatIsShown == Spec => []ActsOnShown
<1>1. Typed => ActsOnShown
  BY DEF Typed, Rows, ActsOnShown
<1>2. QED
  BY <1>1, TypedAlways, PTL
=============================================================================
