---------------------------- MODULE StoreSearchMC ----------------------------
(* Two files and two versions of a file: h1 has `report', which `rep' begins, *)
(* h2 has `rep'; `of' is in both, and so a common word.  One result is asked  *)
(* for and, in the bounded plan, one candidate looked at.                     *)
EXTENDS StoreSearch

CONSTANTS p1, p2, h1, h2

Word(w) == [key |-> "word", word |-> w]
IsSize(op, n) == [key |-> "size", op |-> op, n |-> n]
Kind(k) == [key |-> "kind", known |-> k # "none", kind |-> k]
Name(n) == [key |-> "name", known |-> TRUE, name |-> n]
Modified(is, op, n) == [key |-> "modified", is |-> is, op |-> op, n |-> n]

MCEnvironments ==
    {{"batch", "crash"}, {"error", "tombstone", "touch", "clear", "crash"},
     {"mode", "clear", "fail", "crash"}, {"clear", "fail", "crash", "corrupt"},
     {"search", "corrupt"}, {"search", "error"}, {"search", "mode", "fail"}, {"search", "clear"}}
MCUnder == [p \in Paths |-> IF p = p1 THEN {p1, p2} ELSE {p}]
MCMatching ==
    [form \in Forms |->
        (Word("of") :> IF form = "part" THEN {} ELSE Hashes) @@ (Word("report") :> {h1})
        @@ (Word("rep") :> IF form \in {"start", "part"} THEN Hashes ELSE {h2})
        @@ (Kind("none") :> {})]
MCVocabulary ==
    [m \in Modes |->
        (Word("of") :> IF m = "substring" THEN {} ELSE Hashes)
        @@ (Word("report") :> IF m = "substring" THEN {} ELSE {h1})
        @@ (Word("rep") :> IF m = "substring" THEN Hashes ELSE {h2})
        @@ (Kind("none") :> {})]
MCShort == {Word("of")}
MCKindOf == [p \in Paths |-> IF p = p1 THEN "text" ELSE "pdf"]
MCNamesOf == [p \in Paths |-> IF p = p1 THEN {"a"} ELSE {"b"}]
MCSizeOf == [h \in Hashes |-> IF h = h1 THEN 1 ELSE 2]
MCMtimeOf == [h \in Hashes |-> IF h = h1 THEN 5 ELSE 9]
MCQueries ==
    {<<Word("rep")>>, <<Word("of")>>, <<IsSize("<", 2), Word("of"), Word("rep"), Name("a")>>,
     <<Kind("text"), Kind("pdf"), IsSize(">", 1), Modified("duration", "<", 1)>>,
     <<Modified("yesterday", "", 0)>>, <<Modified("date", ">", 1), Modified("date", "<", 3)>>,
     <<Modified("duration", ">", 5)>>}
=============================================================================
