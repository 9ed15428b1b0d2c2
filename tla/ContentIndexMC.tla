--------------------------- MODULE ContentIndexMC ---------------------------
(***************************************************************************)
(* Environments for model-checking ContentIndex.                           *)
(***************************************************************************)
EXTENDS ContentIndex, TLC
CONSTANTS a, b

Env(ops, names) == [ops |-> ops, names |-> names, cap |-> 0, periodic |-> FALSE]
Periodically(e) == [e EXCEPT !.periodic = TRUE]
Capped(e) == [e EXCEPT !.periodic = TRUE, !.cap = 1]

TwoNames == {a, b}

\* Files written, deleted, moved in and excluded while the daemon crashes, is asked to
\* reconcile and meets files it cannot extract; files renamed over one another; the index
\* rebuilt under changes, or through crashes; files moved out of the tree and back; links; a
\* busy file.
Changing == {
    Env({"write", "touch", "delete", "movein", "exclude", "crash", "reconcile", "exterror"}, {a}),
    Env({"write", "rename"}, {a, b}),
    Env({"write", "touch", "delete", "movein", "exclude", "reindex", "reconcile"}, {a}),
    Env({"write", "delete", "moveout", "movein"}, {a}),
    Env({"write", "delete", "reindex", "crash"}, {a}),
    Env({"write", "link"}, {a, b}),
    Periodically(Env({"write", "delete"}, {a}))}

\* The interval on: lost events, unreported links, and an index at its cap.
Settling == {
    Periodically(Env({"write", "delete", "moveout"}, {a})),
    Periodically(Env({"write", "link"}, {a, b})),
    Capped(Env({"write", "delete"}, {a, b}))}

\* A rebuild interrupted by a crash.
RebuildCrash == {Env({"write", "reindex", "crash"}, {a})}
=============================================================================
