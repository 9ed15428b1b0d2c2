---------------------------- MODULE AppSwitcherMC ----------------------------
(***************************************************************************)
(* Values for model-checking AppSwitcher.                                  *)
(***************************************************************************)
EXTENDS AppSwitcher

ThreeWins == {"term1", "term2", "web"}
Owner == [w \in ThreeWins |-> IF w = "web" THEN "browser" ELSE "terminal"]
TermAndWeb == <<"term1", "web">>
=============================================================================
