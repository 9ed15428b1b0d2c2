---------------------------- MODULE PowerOverlay ----------------------------
(***************************************************************************)
(* `waylaunch --power': a row of actions, a dialog that asks before a      *)
(* destructive one, and a countdown that answers for the user.  The input  *)
(* controller moves a state machine of its own beside the manager, and the *)
(* manager's change callback takes the surface down, runs the action and   *)
(* ends the loop in the middle of the controller's handler; what was read  *)
(* with that key is dispatched all the same.                               *)
(*                                                                         *)
(* A handler is one step, the callback with it.  Positions of cards and    *)
(* buttons, painting, commands and their failure, and a frame that finds   *)
(* no memory for its buffer are left out.                                  *)
(***************************************************************************)
EXTENDS Naturals, Sequences

CONSTANTS
    MaxActions,      \* bound on the actions shown
    Environments     \* subset of EnvironmentType

\* actions: how many of enabled_actions are known; destructive: those that ask first;
\* confirm: confirm_destructive; countdown: countdown_seconds > 0; watch: there is a config
\* file to look at, and poll wakes up for it; term: SIGTERM may come.
EnvironmentType ==
    [actions : 0..MaxActions, destructive : SUBSET (1..MaxActions), confirm : BOOLEAN,
     countdown : BOOLEAN, watch : BOOLEAN, term : BOOLEAN]

ASSUME PowerAssumption ==
    /\ MaxActions \in Nat
    /\ Environments \subseteq EnvironmentType

VARIABLES
    env,
    machine,                   \* PowerStateMachine::state_
    visible, selected,         \* PowerManager::visible_, selected_index_ (from 1)
    dialog,                    \* ConfirmDialog
    due,                       \* the dialog's deadline has passed
    executed,                  \* the actions run so far
    mapped, configured,        \* the surface has a buffer; it may have one
    redraw,                    \* needs_redraw_
    pc, input, counting, running      \* run(): place, the display's fd, power_counting

control == <<machine, visible, selected, dialog, due, executed>>
surface == <<mapped, configured, redraw>>
vars == <<env, control, surface, pc, input, counting, running>>

Actions == 1..env.actions
NoAction == 0
Buttons == {"Confirm", "Cancel"}
Places == {"poll", "dispatch", "tick", "render", "ended"}

TypeOK ==
    /\ env \in Environments
    /\ machine \in {"Hidden", "Active", "ConfirmOpen", "Dismissing"}
    /\ selected \in Actions \cup {1}
    /\ dialog \in [open : BOOLEAN, action : Actions \cup {NoAction}, focus : Buttons]
    /\ executed \in Seq(Actions)
    /\ pc \in Places
    /\ \A b \in {visible, due, mapped, configured, redraw, input, counting, running} : b \in BOOLEAN

-----------------------------------------------------------------------------
(***************************************************************************)
(* State machine and manager.                                              *)
(***************************************************************************)

\* PowerStateMachine::process_event.
After(m, event) ==
    CASE m = "Hidden" /\ event = "Trigger" -> "Active"
      [] m = "Active" /\ event = "OpenConfirm" -> "ConfirmOpen"
      [] m \in {"Active", "ConfirmOpen"} /\ event \in {"Execute", "Cancel"} -> "Dismissing"
      [] m = "Dismissing" -> "Hidden"
      [] OTHER -> m

IsActive == machine \in {"Active", "ConfirmOpen"}
IsConfirmOpen == machine = "ConfirmOpen"
HasCountdown == env.countdown /\ dialog.action # NoAction

\* hide, and the change callback: the surface goes, the pending action runs, the loop ends.
Hide(pending) ==
    /\ visible' = FALSE
    /\ dialog' = [dialog EXCEPT !.open = FALSE]
    /\ mapped' = FALSE /\ configured' = FALSE /\ redraw' = TRUE
    /\ executed' = (IF pending = NoAction THEN executed ELSE Append(executed, pending))
    /\ running' = FALSE
    /\ UNCHANGED due

\* A change that is only shown.
Changed == redraw' = TRUE /\ UNCHANGED <<executed, mapped, configured, running>>

AsksUnlessDestructive(a) == a \in env.destructive /\ ~env.confirm      \* a bug
Asks(a) == a \in env.destructive /\ env.confirm

\* activate_selected, of the card at position i.
ActivateSelected(i) ==
    \/ /\ visible /\ i \in Actions /\ Asks(i)
       /\ dialog' = [open |-> TRUE, action |-> i, focus |-> "Confirm"]
       /\ due' = FALSE
       /\ Changed /\ UNCHANGED visible
    \/ visible /\ i \in Actions /\ ~Asks(i) /\ Hide(i)
    \/ ~(visible /\ i \in Actions) /\ UNCHANGED <<visible, dialog, due, executed, surface, running>>

\* The controller's activate: what the manager did is read off its dialog.
OutcomeByAction(i) == IF i \in env.destructive THEN "OpenConfirm" ELSE "Execute"      \* a bug
Outcome(i) == IF dialog'.open THEN "OpenConfirm" ELSE "Execute"
Activate(i) ==
    /\ selected' = i
    /\ ActivateSelected(i)
    /\ machine' = After(machine, Outcome(i))

Confirm ==
    /\ machine' = After(machine, "Execute")
    /\ IF dialog.open
       THEN Hide(dialog.action)
       ELSE UNCHANGED <<visible, dialog, due, executed, surface, running>>
    /\ UNCHANGED selected

Cancel ==
    /\ machine' = After(machine, "Cancel")
    /\ Hide(NoAction)
    /\ UNCHANGED selected

-----------------------------------------------------------------------------
(***************************************************************************)
(* Input: handle_key, handle_pointer_motion, handle_pointer_click.         *)
(***************************************************************************)

\* Keys and clicks come while the surface is mapped.  What was read together with the one
\* that dismissed the overlay finds the machine Dismissing, and is ignored.
Input(state) ==
    /\ pc = "dispatch" /\ input /\ (mapped \/ ~visible)
    /\ machine = state
    /\ UNCHANGED <<env, pc, input, counting>>

\* Arrows, Tab, Home, End, digits, or the pointer over a card; past the end is the start.
Cards == Actions
Move ==
    /\ Input("Active")
    /\ selected' \in Cards
    /\ Changed
    /\ UNCHANGED <<machine, visible, dialog, due>>

Enter == Input("Active") /\ Activate(selected)
ClickCard == Input("Active") /\ \E i \in Actions : Activate(i)

\* Escape on the grid or a click off the panel.
Dismiss == Input("Active") /\ Cancel

\* Arrows and Tab in the dialog, or the pointer over a button.
Focus ==
    /\ Input("ConfirmOpen") /\ dialog.open
    /\ \E b \in Buttons \ {dialog.focus} : dialog' = [dialog EXCEPT !.focus = b]
    /\ Changed
    /\ UNCHANGED <<machine, visible, selected, due>>

\* Return or Space, which press the button that has the focus.
EnterDialog ==
    /\ Input("ConfirmOpen")
    /\ IF dialog.focus = "Cancel" THEN Cancel ELSE Confirm

\* A click on a button or off the card, or Escape.
ClickDialog == Input("ConfirmOpen") /\ (Confirm \/ Cancel)

Inputs == Move \/ Enter \/ ClickCard \/ Dismiss \/ Focus \/ EnterDialog \/ ClickDialog

-----------------------------------------------------------------------------
(***************************************************************************)
(* The loop: run().                                                        *)
(***************************************************************************)

At(place, next) == pc = place /\ pc' = next

\* render_frame: nothing is painted once the overlay has been dismissed.
Paintable == visible
Paint ==
    /\ redraw' = FALSE
    /\ mapped' = (mapped \/ Paintable)

\* A configure, also one that was on its way when the surface was unmapped, is painted at once.
Configure ==
    /\ pc = "dispatch" /\ input
    /\ configured' = TRUE
    /\ Paint
    /\ UNCHANGED <<env, control, pc, input, counting, running>>

\* The compositor closes the surface.
Closed ==
    /\ pc = "dispatch" /\ input
    /\ running' = FALSE
    /\ UNCHANGED <<env, control, surface, pc, input, counting>>

CountingForgotten == FALSE      \* a bug: poll has no timeout for the dialog
Counting == dialog.open /\ HasCountdown

\* Whether the dialog counts is asked before poll; without a timeout poll waits for input.
Poll ==
    /\ At("poll", "dispatch")
    /\ counting' = Counting
    /\ input \/ counting' \/ env.watch
    /\ UNCHANGED <<env, control, surface, input, running>>

Dispatched ==
    /\ pc = "dispatch"
    /\ pc' \in (IF input THEN {"tick", "ended"} ELSE {"tick"})
    /\ input' = FALSE
    /\ UNCHANGED <<env, control, surface, counting, running>>

\* SIGTERM is looked for before the countdown.
Terminate ==
    /\ At("tick", "ended")
    /\ env.term /\ running' = FALSE
    /\ UNCHANGED <<env, control, surface, input, counting>>

Expired == dialog.open /\ HasCountdown /\ due
Tick ==
    /\ At("tick", "render")
    /\ IF counting /\ IsConfirmOpen /\ Expired
       THEN Confirm
       ELSE redraw' \in {redraw, redraw \/ counting} /\ UNCHANGED <<control, mapped, configured, running>>
    /\ UNCHANGED <<env, input, counting>>

Render ==
    /\ At("render", IF running THEN "poll" ELSE "ended")
    /\ IF redraw /\ configured THEN Paint ELSE UNCHANGED <<mapped, redraw>>
    /\ UNCHANGED <<env, control, configured, input, counting, running>>

Loop == Poll \/ Dispatched \/ Terminate \/ Tick \/ Render

\* The compositor sends something.
Arrive ==
    /\ ~input /\ pc # "ended" /\ (mapped \/ ~configured)
    /\ input' = TRUE
    /\ UNCHANGED <<env, control, surface, pc, counting, running>>

\* The clock reaches the dialog's deadline.
Passes ==
    /\ dialog.open /\ HasCountdown /\ ~due
    /\ due' = TRUE
    /\ UNCHANGED <<env, machine, visible, selected, dialog, executed, surface, pc, input, counting,
                   running>>

\* trigger has been called before the loop.
Init ==
    /\ env \in Environments
    /\ machine = "Active" /\ visible = TRUE /\ selected = 1
    /\ dialog = [open |-> FALSE, action |-> NoAction, focus |-> "Confirm"]
    /\ due = FALSE /\ executed = <<>>
    /\ mapped = FALSE /\ configured = FALSE /\ redraw = TRUE
    /\ pc = "poll" /\ input = FALSE /\ counting = FALSE /\ running = TRUE

Next == Inputs \/ Configure \/ Closed \/ Loop \/ Arrive \/ Passes

Spec == Init /\ [][Next]_vars

\* The loop runs and time passes; the user and the compositor need not do anything.
FairSpec == Spec /\ WF_vars(Loop) /\ WF_vars(Passes)

-----------------------------------------------------------------------------
(***************************************************************************)
(* Properties.                                                             *)
(***************************************************************************)

\* Between handlers the state machine, the manager, the dialog and the surface agree: the
\* machine decides who gets the keys, the manager what is shown, and neither is ahead.  (With
\* no known action, Return dismisses the machine alone.)
Agree ==
    env.actions > 0 =>
        /\ machine = "Active" <=> visible /\ ~dialog.open
        /\ machine = "ConfirmOpen" <=> visible /\ dialog.open
        /\ ~visible => ~mapped /\ ~running /\ ~dialog.open

\* At most one action is ever run, once the overlay has gone, and one that asks first only
\* from its own dialog, whatever else was read together with the key that confirmed it; an
\* overlay that was dismissed never comes back over the action it ran.
AskedFirst ==
    /\ Len(executed) <= 1
    /\ executed # <<>> => ~mapped /\ ~visible
    /\ executed # <<>> /\ env.confirm /\ executed[1] \in env.destructive =>
          dialog.action = executed[1]

\* A dialog with a countdown does not stay up, even if no input ever comes again.
DialogEnds == (dialog.open /\ HasCountdown) ~> (~dialog.open \/ pc = "ended")
=============================================================================
