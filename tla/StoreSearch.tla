----------------------------- MODULE StoreSearch -----------------------------
(***************************************************************************)
(* The launcher's side of the content store: a read-only handle opened     *)
(* once, and searches that run in several statements, each with a snapshot *)
(* of its own, while the daemon writes, rebuilds or unlinks the database.  *)
(*                                                                         *)
(* A query is a sequence of tokens: words, and predicates on the kind, the *)
(* name, the size and the age of a file.  What text a word matches in an   *)
(* index is SQLite's and the tokenizer's, and so given; scores are left    *)
(* out: any order is possible.  A second has Tick parts, which stand for   *)
(* its nanoseconds.                                                        *)
(***************************************************************************)
EXTENDS ContentStore, SequencesExt

CONSTANTS
    Queries,         \* the queries asked
    Matching,        \* Matching[form][w]: the texts FTS5 matches with word w in that form
    Vocabulary,      \* Vocabulary[m][w]: the texts with w as a term, in an index of mode m
    Short,           \* words too short for a trigram
    KindOf, NamesOf, \* of a path: its kind, and the name: and ext: patterns it is like
    SizeOf, MtimeOf, \* of a hash: the size and the age of that version of the file
    Now, Day, Tick,  \* seconds; seconds of a day; parts of a second
    Limit,           \* results a search returns at most
    Budget,          \* candidate_budget
    CommonDf         \* common_term_df

Forms == {"word", "start", "part"}

\* A predicate that is not well-formed has another op, is "malformed", or is not known.
IsToken(t) ==
    /\ t.key \in {"kind", "name"} => t.known \in BOOLEAN
    /\ t.key = "size" => t.n \in Nat
    /\ t.key = "modified" =>
        /\ t.is \in {"today", "yesterday", "duration", "date", "malformed"}
        /\ t.is \in {"duration", "date"} => t.n \in Nat

\* A day has more than a second, and today is not the first day of the epoch.
ASSUME StoreSearchAssumption ==
    /\ Limit \in Nat \ {0} /\ Budget \in Nat /\ CommonDf \in Nat
    /\ Tick \in Nat \ {0} /\ Day \in Nat /\ Day > 1 /\ Now \in Nat /\ Now >= Day
    /\ SizeOf \in [Hashes -> Nat] /\ MtimeOf \in [Hashes -> Nat]
    /\ \A q \in Queries : q \in Seq({t \in Range(q) : IsToken(t)})
    /\ \A f \in Forms : \A w \in DOMAIN Matching[f] : Matching[f][w] \subseteq Hashes

VARIABLES
    kept,            \* the database in a file that has been unlinked
    reader,          \* Store read-only: avail_, the file it has open, match_
    search,          \* the search that is running, and its results
    ranked           \* history: the rows as its first phase saw them

searchVars == <<kept, reader, search, ranked>>

NoSearch == [pc |-> "none"]

\* A database with the history of how it came to be.
Marked(db, t) ==
    [has |-> db.has, rows |-> db.rows, docs |-> db.docs, postings |-> db.postings,
     built |-> db.built, match |-> db.match, current |-> db.current, sound |-> db.sound, torn |-> t]

SInit ==
    /\ Init
    /\ kept = Marked(Blank, FALSE) /\ search = NoSearch /\ ranked = Blank.rows
    /\ reader = [avail |-> "closed", inode |-> 0, mode |-> "prefix"]

\* The database the reader has open.
View == IF reader.inode = inode THEN Marked(disk, torn) ELSE kept

-----------------------------------------------------------------------------
(* parse_meta_query *)

NoFilter == [active |-> FALSE, kinds |-> {}, names |-> {}, min |-> -1, max |-> -1,
             after |-> 0, before |-> 0, words |-> <<>>]

\* A bug: `<' taken for `<='.
WithSizeInclusive(f, t) ==
    CASE t.op \in {">", ">="} -> [f EXCEPT !.active = TRUE, !.min = t.n + 1]
      [] OTHER -> [f EXCEPT !.active = TRUE, !.max = t.n]

\* `size:>n' and `size:<n' become inclusive bounds, -1 being none.
WithSize(f, t) ==
    CASE t.op = ">"  -> [f EXCEPT !.active = TRUE, !.min = t.n + 1]
      [] t.op = ">=" -> [f EXCEPT !.active = TRUE, !.min = t.n]
      [] t.op = "<"  -> [f EXCEPT !.active = TRUE, !.max = t.n - 1]
      [] t.op = "<=" -> [f EXCEPT !.active = TRUE, !.max = t.n]
      [] OTHER       -> [f EXCEPT !.words = Append(@, t)]

\* parse_modified: the first and the last second of the window, 0 being none.
Window(t) ==
    LET today == Now - (Now % Day)
        since == Now - t.n
        day == t.n * Day
    IN  CASE t.is = "today"     -> [from |-> today, to |-> 0]
          [] t.is = "yesterday" -> [from |-> today - Day, to |-> today - 1]
          [] t.is = "duration"  -> IF t.op = ">" THEN [from |-> 0, to |-> since] ELSE [from |-> since, to |-> 0]
          [] t.is = "date"      -> CASE t.op = "<" -> [from |-> 0, to |-> day - 1]
                                     [] t.op = ">" -> [from |-> day + Day, to |-> 0]
                                     [] OTHER      -> [from |-> day, to |-> day + Day - 1]

WithModified(f, t) ==
    [f EXCEPT !.active = TRUE,
              !.after = IF Window(t).from # 0 THEN Window(t).from * Tick ELSE @,
              !.before = IF Window(t).to # 0 THEN Window(t).to * Tick ELSE @]

\* A token that is no well-formed predicate is a word.
WithToken(f, t) ==
    CASE t.key = "kind" /\ t.known -> [f EXCEPT !.active = TRUE, !.kinds = @ \cup {t.kind}]
      [] t.key = "name" /\ t.known -> [f EXCEPT !.active = TRUE, !.names = @ \cup {t.name}]
      [] t.key = "size" -> WithSize(f, t)
      [] t.key = "modified" /\ t.is # "malformed" -> WithModified(f, t)
      [] OTHER -> [f EXCEPT !.words = Append(@, t)]

Parsed(q) ==
    LET upto[i \in 0..Len(q)] == IF i = 0 THEN NoFilter ELSE WithToken(upto[i - 1], q[i])
    IN  upto[Len(q)]

\* meta_where: the kinds are alternatives, the rest are conjuncts.
Passes(f, row) ==
    /\ f.kinds = {} \/ KindOf[row.path] \in f.kinds
    /\ f.names \subseteq NamesOf[row.path]
    /\ f.min >= 0 => SizeOf[row.hash] >= f.min
    /\ f.max >= 0 => SizeOf[row.hash] <= f.max
    /\ f.after > 0 => MtimeOf[row.hash] >= f.after
    /\ f.before > 0 => MtimeOf[row.hash] <= f.before

-----------------------------------------------------------------------------
(* Matching and planning *)

\* build_match_query: every word counts, but in substring mode short ones are dropped.
Terms(words) == {w \in Range(words) : reader.mode = "substring" => w \notin Short}

\* Only the last word is completed, and only in prefix mode; an index of trigrams has parts
\* of words, whatever its reader takes it for.
FormOf(index, w, s) ==
    IF index = "substring" THEN "part"
    ELSE IF s.form = "start" /\ w = Last(s.words) /\ reader.mode = "prefix" THEN "start" ELSE "word"

Found(index, text, s) == \A w \in Terms(s.words) : text \in Matching[FormOf(index, w, s)][w]

MatchingIds(db, s) == {i \in Ids : db.postings[i] # None /\ Found(db.built, db.postings[i], s)}

Filtered(db, s) ==
    {i \in MatchingIds(db, s) : s.filter.active => i \in HasRow(db) /\ Passes(s.filter, db.rows[i])}

\* query_is_common: the rarest of the words, each as fts5vocab counts it.
DocCount(db, w) ==
    IF db.built = None THEN 0 ELSE Cardinality({i \in Ids : db.postings[i] \in Vocabulary[db.built][w]})
IsCommon(db, words) ==
    CommonDf > 0 /\ words # <<>> /\ \A w \in Range(words) : DocCount(db, w) > CommonDf

\* ORDER BY ... LIMIT n over an order the model leaves open.
Best(S, n) == {T \in SUBSET S : Cardinality(T) = Min({n, Cardinality(S)})}

Newest(S, n) == {i \in S : Cardinality({j \in S : j > i}) < n}

-----------------------------------------------------------------------------
(* The reader *)

StayingWriter == UNCHANGED vars

\* Store::open with read_only, for each launcher that starts.
OpenReader ==
    /\ StayingWriter /\ "search" \in env /\ reader.avail = "closed"
    /\ reader' = [avail |-> IF "fts" \notin disk.has THEN "no_index"
                            ELSE IF ~disk.current THEN "version_mismatch" ELSE "ok",
                  inode |-> inode,
                  mode |-> IF disk.match = "substring" THEN "substring" ELSE "prefix"]
    /\ UNCHANGED <<kept, search, ranked>>

CloseReader ==
    /\ StayingWriter /\ reader.avail # "closed" /\ search.pc \in {"none", "done"}
    /\ reader' = [reader EXCEPT !.avail = "closed"] /\ search' = NoSearch
    /\ ranked' = Blank.rows /\ UNCHANGED kept

Reading == StayingWriter /\ UNCHANGED <<kept, reader>>

\* The first phase reads the rows in one snapshot.
FirstPhase(top) == Reading /\ ranked' = [i \in Ids |-> IF i \in top THEN View.rows[i] ELSE NoRow]
LaterPhase == Reading /\ UNCHANGED ranked

\* A query without the table it reads fails to prepare, and the search ends with what it has.
Readable(objects) == objects \subseteq View.has

\* Store::search up to the choice of a plan; a query of predicates only lists the files.
Plan(q) ==
    /\ FirstPhase({}) /\ reader.avail = "ok" /\ search.pc \in {"none", "done"}
    /\ LET f == Parsed(q)
           common == Readable({"fts"}) /\ IsCommon(View, f.words)
           plan == IF Terms(f.words) # {} THEN IF common THEN "bounded" ELSE "full"
                   ELSE IF f.active THEN "browse" ELSE "done"
       IN  search' = [pc |-> plan, q |-> q, words |-> f.words, filter |-> f, form |-> "start",
                      quiet |-> TRUE, hits |-> {}, top |-> {}]

Hit(db, i) ==
    [id |-> i, row |-> db.rows[i], shown |-> db.docs[i], index |-> db.built, torn |-> db.torn]

\* metadata_search
Browse ==
    /\ search.pc = "browse"
    /\ \E top \in Best({i \in IdsIn(View, "indexed") : Passes(search.filter, View.rows[i])}, Limit) :
        /\ FirstPhase(top)
        /\ search' = [search EXCEPT !.pc = "done", !.hits = {Hit(View, i) : i \in top}]

\* ranked_rowids_full, in time
RankFull ==
    /\ search.pc = "full"
    /\ \E top \in IF Readable({"fts"}) THEN Best(Filtered(View, search), Limit) ELSE {{}} :
        FirstPhase(top) /\ search' = [search EXCEPT !.pc = "hydrate", !.top = top]

\* ranked_rowids_full, interrupted by its deadline
Interrupted ==
    /\ LaterPhase /\ search.pc = "full" /\ Readable({"fts"})
    /\ search' = [search EXCEPT !.pc = "bounded"]

\* ranked_rowids_bounded: the newest candidates, and the best of those.
RankBounded ==
    /\ search.pc = "bounded"
    /\ LET s == [search EXCEPT !.form = "word", !.pc = "hydrate"]
           candidates == IF Readable({"fts"}) THEN Newest(Filtered(View, s), Max({Limit, Budget})) ELSE {}
       IN  \E top \in Best(candidates, Limit) : FirstPhase(top) /\ search' = [s EXCEPT !.top = top]

\* A bug: the row is looked up by its id alone.
VanishedRow(db, s, i) == i \notin HasRow(db)

\* Phase 2, a statement a row: one that vanished is passed over.  The words are asked of the
\* row once more, the predicates are not.
Vanished(db, s, i) == i \notin HasRow(db) \/ i \notin MatchingIds(db, s)

Hydrate ==
    /\ LaterPhase /\ search.pc = "hydrate"
    /\ \E i \in search.top :
        search' = [search EXCEPT !.top = @ \ {i},
                     !.hits = IF Readable({"fts", "files"}) /\ ~Vanished(View, search, i)
                              THEN @ \cup {Hit(View, i)} ELSE @]

Done ==
    /\ LaterPhase /\ search.pc = "hydrate" /\ search.top = {}
    /\ search' = [search EXCEPT !.pc = "done"]

-----------------------------------------------------------------------------

\* The writer's steps, seen from here: what a search has of an unlinked file, it keeps.
WriterStep ==
    /\ Step /\ UNCHANGED <<reader, ranked>>
    /\ kept' = IF inode' # inode /\ reader.inode = inode THEN View ELSE kept
    /\ search' = IF search.pc = "none" THEN search
                 ELSE [search EXCEPT !.quiet = @ /\ View' = View]

SNext ==
    \/ WriterStep
    \/ OpenReader \/ CloseReader
    \/ \E q \in Queries : Plan(q)
    \/ Browse \/ RankFull \/ Interrupted \/ RankBounded \/ Hydrate \/ Done

SSpec == SInit /\ [][SNext]_<<vars, searchVars>>

-----------------------------------------------------------------------------
(* What must hold *)

\* store.h, parse_meta_query: what a query means, said without a parser: each predicate
\* holds of the file, the kinds together as one, and each word is in its text.
Size(t, row) ==
    CASE t.op = ">"  -> SizeOf[row.hash] > t.n
      [] t.op = ">=" -> SizeOf[row.hash] >= t.n
      [] t.op = "<"  -> SizeOf[row.hash] < t.n
      [] t.op = "<=" -> SizeOf[row.hash] <= t.n
      [] OTHER       -> TRUE
Kinds(q) == {t \in Range(q) : t.key = "kind" /\ t.known}
Age(t, row) ==
    LET second == MtimeOf[row.hash] \div Tick
        day == second \div Day
    IN  CASE t.is = "today"     -> day >= Now \div Day
          [] t.is = "yesterday" -> day + 1 = Now \div Day
          [] t.is = "duration"  -> IF t.op = ">" THEN MtimeOf[row.hash] <= (Now - t.n) * Tick
                                   ELSE second >= Now - t.n
          [] t.is = "date"      -> CASE t.op = "<" -> day < t.n
                                     [] t.op = ">" -> day > t.n
                                     [] OTHER      -> day = t.n
          [] OTHER              -> TRUE
Means(q, row) ==
    /\ Kinds(q) = {} \/ \E t \in Kinds(q) : KindOf[row.path] = t.kind
    /\ \A t \in Range(q) :
        /\ t.key = "name" /\ t.known => t.name \in NamesOf[row.path]
        /\ t.key = "size" => Size(t, row)
        /\ t.key = "modified" => Age(t, row)

\* Nothing is smaller than 0, or older than the first day, or than the epoch, but the bound
\* such a predicate makes is one that means none.  And a window that ends with a day ends
\* with the start of its last second; the rest of that second is lost.
Ignored(q) ==
    \E t \in Range(q) :
        \/ t.key = "size" /\ t.op = "<" /\ t.n = 0
        \/ t.key = "modified" /\ t.is = "date" /\ t.op = "<" /\ t.n = 0
        \/ t.key = "modified" /\ t.is = "duration" /\ t.op = ">" /\ t.n >= Now
LastSecond(q) ==
    /\ \E t \in Range(q) : t.key = "modified" /\ t.is \in {"yesterday", "date"} /\ Window(t).to # 0
    /\ \E h \in Hashes : MtimeOf[h] % (Day * Tick) > (Day - 1) * Tick

\* Of several predicates on the size, or the age, from the same side the last counts.
Bounds(t) ==
    CASE t.key = "size"     -> IF t.op \in {">", ">="} THEN {"min"} ELSE IF t.op \in {"<", "<="} THEN {"max"} ELSE {}
      [] t.key = "modified" ->
            IF t.is = "malformed" THEN {}
            ELSE (IF Window(t).from # 0 THEN {"after"} ELSE {}) \cup (IF Window(t).to # 0 THEN {"before"} ELSE {})
      [] OTHER -> {}
Overruled(q) == \E i, j \in DOMAIN q : i # j /\ Bounds(q[i]) \cap Bounds(q[j]) # {}

\* Store::search, whatever is committed, dropped or unlinked between its statements.  The
\* snippet of a result is made of the text of the version of the file that its row names, and
\* the words of the query are in that text, unless it was read from a database in which a
\* rebuild or a clear left the tables out of step.  And the predicates of the query hold of
\* the file, unless its row is not the one that was ranked: the second phase finds the row by
\* its id, which may be another file's by then, or the same file's new version, and applies
\* the words to it but not the predicates.
HitsMatch ==
    search.pc \in {"hydrate", "done"} =>
        \A h \in search.hits :
            /\ Terms(search.words) # {} /\ ~h.torn =>
                    h.shown \in {h.row.hash, Empty} /\ Found(h.index, h.shown, search)
            /\ h.row = ranked[h.id] /\ ~Ignored(search.q) /\ ~Overruled(search.q) => Means(search.q, h.row)

Answers(db, s) ==
    {i \in HasRow(db) :
        /\ Live(db.rows[i]) /\ Means(s.q, db.rows[i])
        /\ Terms(s.words) = {} => db.rows[i].state = "indexed"
        /\ Terms(s.words) # {} => Found(db.built, db.postings[i], s)}

\* Store::search: if nothing was committed while it ran it finds as many as there are, up to
\* the limit, and only files its predicates and words are true of, whichever plan it took;
\* the words alone decide in the bounded plan, so what only a completion matches is left out.
QuietSearchExact ==
    search.pc = "done" /\ search.quiet /\ ~View.torn /\ st \in {"up", "down"} /\ ~Ignored(search.q)
        /\ ~LastSecond(search.q) /\ ~Overruled(search.q)
        /\ (Terms(search.words) # {} \/ search.filter.active) /\ Readable({"files", "fts"}) =>
        LET A == Answers(View, search)
        IN  /\ {h.row.path : h \in search.hits} \subseteq {View.rows[i].path : i \in A}
            /\ Cardinality(search.hits) = Min({Limit, Cardinality(A)})
=============================================================================
