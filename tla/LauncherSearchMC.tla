-------------------------- MODULE LauncherSearchMC --------------------------
(***************************************************************************)
(* Environments for model-checking LauncherSearch.                         *)
(***************************************************************************)
EXTENDS LauncherSearch

Usual == {[files |-> TRUE, history |-> TRUE, term |-> TRUE],
          [files |-> FALSE, history |-> FALSE, term |-> FALSE]}
OneQuery == {"web"}
=============================================================================
