-------------------------- MODULE IndexerThreadsMC --------------------------
(***************************************************************************)
(* Environments for model-checking IndexerThreads.                         *)
(***************************************************************************)
EXTENDS IndexerThreads

AllEnvironments == [interval : BOOLEAN, pause : BOOLEAN]
=============================================================================
