--------------------------- MODULE PowerOverlayMC ---------------------------
(***************************************************************************)
(* Environments for model-checking PowerOverlay: every configuration.      *)
(***************************************************************************)
EXTENDS PowerOverlay

Configurations == {e \in EnvironmentType : e.destructive \subseteq 1..e.actions}
=============================================================================
