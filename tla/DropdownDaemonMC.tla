-------------------------- MODULE DropdownDaemonMC --------------------------
(***************************************************************************)
(* Environments for model-checking DropdownDaemon.                         *)
(***************************************************************************)
EXTENDS DropdownDaemon

Calm == [usable |-> TRUE, respawn |-> TRUE, intruder |-> FALSE, stops |-> FALSE,
         tabs |-> 1, presses |-> 2, clicks |-> 0, edits |-> 0, faults |-> 0]

Usual == {[Calm EXCEPT !.clicks = 1],
          [Calm EXCEPT !.respawn = FALSE, !.stops = TRUE],
          [Calm EXCEPT !.presses = 1, !.edits = 1],
          [Calm EXCEPT !.faults = 1],
          [Calm EXCEPT !.respawn = FALSE, !.tabs = 2],
          [Calm EXCEPT !.presses = 1, !.intruder = TRUE],
          [Calm EXCEPT !.usable = FALSE]}
=============================================================================
