----------------------------- MODULE WatchTreeMC -----------------------------
(***************************************************************************)
(* Values for model-checking WatchTree.                                    *)
(***************************************************************************)
EXTENDS WatchTree, TLC

CONSTANTS d1, d2
TwoDirs == {d1, d2}
Symmetry == Permutations(TwoDirs)
TwoNames == {"a", "b"}
RoomyOrTight == {2, 9}
LongOrShort == {2, 12}     \* MaxOps changes queue at most 12 events
=============================================================================
