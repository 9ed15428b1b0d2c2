----------------------------- MODULE SearchIndex -----------------------------
(***************************************************************************)
(* What the content store promises its readers: a set of pairs <<path,     *)
(* text>> that a search can find.  The writer edits a draft of it, one     *)
(* path or one group of paths at a time.  Outside a batch each edit is     *)
(* published as it is made; the edits of a batch are published together,   *)
(* and a writer that dies before that leaves what was published last.      *)
(* Texts whose path was lost sight of can come back at once, outside a     *)
(* batch, in an index known to be damaged; what damages it is not said.    *)
(***************************************************************************)
CONSTANTS Paths, Texts

VARIABLES
    published,   \* what readers see
    draft,       \* what the writer sees
    batch,       \* whether a batch is open
    damaged      \* whether it may have lost sight of texts

vars == <<published, draft, batch>>

Init == published = {} /\ draft = {} /\ batch = FALSE

Without(index, S) == {e \in index : e[1] \notin S}

\* A group of paths goes, or a path gets a text.
Edit ==
    /\ \/ \E S \in SUBSET Paths : draft' = Without(draft, S)
       \/ \E p \in Paths, t \in Texts : draft' = Without(draft, {p}) \cup {<<p, t>>}
    /\ published' = IF batch THEN published ELSE draft'
    /\ UNCHANGED batch

Begin == ~batch /\ batch' = TRUE /\ UNCHANGED <<published, draft>>

Publish == batch /\ batch' = FALSE /\ published' = draft /\ UNCHANGED draft

Revert == draft' = published /\ batch' = FALSE /\ UNCHANGED published

Restore ==
    /\ damaged /\ ~batch
    /\ draft' \in SUBSET (Paths \X Texts) /\ published' = draft'
    /\ UNCHANGED batch

Next == Edit \/ Begin \/ Publish \/ Revert \/ Restore

Spec == Init /\ [][Next]_vars
=============================================================================
