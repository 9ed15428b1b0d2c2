------------------------- MODULE PowerOverlay_proofs -------------------------
(***************************************************************************)
(* Proofs about the power overlay: its types, that its four parts agree,   *)
(* and that an action is run once, with its question asked.                *)
(***************************************************************************)
EXTENDS PowerOverlay, TLAPS

\* How the machine stands to what the manager shows, for any number of actions.
Roles ==
    /\ machine \in {"Active", "ConfirmOpen", "Dismissing"}
    /\ machine = "Active" => visible /\ ~dialog.open
    /\ machine = "ConfirmOpen" => visible /\ dialog.open
    /\ machine = "Dismissing" => ~dialog.open
    /\ env.actions > 0 /\ machine = "Dismissing" => ~visible
    /\ ~visible => ~mapped /\ ~running

\* While the overlay is up nothing has been run.
NotYet == visible => executed = <<>>

Inv == TypeOK /\ Roles /\ NotYet /\ AskedFirst

\* No action of the overlay is the one that stands for none.
LEMMA RealActions == ASSUME TypeOK PROVE env.actions \in Nat /\ NoAction \notin Actions
  BY PowerAssumption DEF TypeOK, EnvironmentType, Actions, NoAction

\* The overlay is taken down from the grid or the dialog: with nothing to run, or with an
\* action that either does not ask or is the dialog's.
LEMMA HideKeeps ==
    ASSUME Inv, NEW a \in {NoAction} \cup Actions, Hide(a), machine' = "Dismissing", visible,
           UNCHANGED <<env, selected, input, counting>>, pc' \in Places,
           a # NoAction => (Asks(a) => dialog.action = a)
    PROVE  Inv'
<1> USE DEF Inv
<1>0. executed = <<>> /\ Actions' = Actions
  BY DEF NotYet, Actions
<1>1. dialog' \in [open : BOOLEAN, action : Actions \cup {NoAction}, focus : Buttons]
      /\ dialog'.open = FALSE /\ dialog'.action = dialog.action
  BY DEF Hide, TypeOK
<1>2. executed' = <<>> \/ (a \in Actions /\ executed' = <<a>>)
  BY <1>0 DEF Hide
<1>3. executed' \in Seq(Actions) /\ Len(executed') <= 1
  <2>1. CASE executed' = <<>>
    BY <2>1
  <2>2. CASE a \in Actions /\ executed' = <<a>>
    BY <2>2
  <2>3. QED
    BY <1>2, <2>1, <2>2
<1>4. TypeOK'
  BY <1>0, <1>1, <1>3 DEF TypeOK, Hide
<1>5. Roles' /\ NotYet'
  BY <1>1 DEF Roles, NotYet, Hide
<1>6. AskedFirst'
  <2>1. executed' # <<>> => executed'[1] = a /\ a # NoAction
    BY <1>2, RealActions
  <2>2. ~visible' /\ ~mapped' /\ env' = env
    BY DEF Hide
  <2>3. QED
    BY <1>1, <1>3, <2>1, <2>2 DEF AskedFirst, Asks
<1>7. QED
  BY <1>4, <1>5, <1>6

\* Something is only shown differently.
LEMMA ShownKeeps ==
    ASSUME Inv, Changed, selected' \in Actions \cup {1},
           dialog' \in [open : BOOLEAN, action : Actions \cup {NoAction}, focus : Buttons],
           dialog'.open = dialog.open, dialog'.action = dialog.action,
           UNCHANGED <<env, machine, visible, due, pc, input, counting>>
    PROVE  Inv'
  BY DEF Inv, TypeOK, Roles, NotYet, AskedFirst, Changed, Actions

\* A card is activated: its dialog opens, or it runs with the overlay gone.
LEMMA ActivateKeeps ==
    ASSUME Inv, machine = "Active", NEW i \in Actions \cup {1}, Activate(i),
           UNCHANGED <<env, input, counting>>, pc' \in Places
    PROVE  Inv'
<1> USE DEF Inv
<1>0. visible /\ ~dialog.open /\ executed = <<>> /\ Actions' = Actions
  BY DEF Roles, NotYet, Actions
<1>1. CASE i \in Actions /\ Asks(i) /\ ActivateSelected(i)
  <2>1. dialog' = [open |-> TRUE, action |-> i, focus |-> "Confirm"] /\ due' = FALSE /\ Changed
        /\ UNCHANGED visible
    BY <1>0, <1>1 DEF ActivateSelected, Hide
  <2>2. machine' = "ConfirmOpen"
    BY <2>1 DEF Activate, Outcome, After
  <2>3. executed' = <<>> /\ UNCHANGED <<mapped, configured, running>>
    BY <1>0, <2>1 DEF Changed, NotYet
  <2>4. TypeOK'
    BY <1>0, <1>1, <2>1, <2>2, <2>3 DEF TypeOK, Buttons, Changed, Activate
  <2>5. Roles' /\ NotYet'
    BY <1>0, <2>1, <2>2, <2>3 DEF Roles, NotYet
  <2>6. AskedFirst'
    BY <2>3 DEF AskedFirst
  <2>7. QED
    BY <2>4, <2>5, <2>6
<1>2. CASE i \in Actions /\ ~Asks(i) /\ Hide(i)
  <2>1. dialog'.open = FALSE
    BY <1>2 DEF Hide, TypeOK
  <2>2. machine' = "Dismissing" /\ selected' = i
    BY <2>1 DEF Activate, Outcome, After
  <2>3. executed' = <<i>> /\ executed' \in Seq(Actions)
    BY <1>0, <1>2, RealActions DEF Hide
  <2>4. dialog' \in [open : BOOLEAN, action : Actions \cup {NoAction}, focus : Buttons]
    BY <1>2 DEF Hide, TypeOK
  <2>5. ~visible' /\ ~mapped' /\ ~running' /\ redraw' = TRUE /\ ~configured' /\ UNCHANGED due
        /\ configured' \in BOOLEAN /\ mapped' \in BOOLEAN /\ visible' \in BOOLEAN
        /\ running' \in BOOLEAN
    BY <1>2 DEF Hide
  <2>6. TypeOK'
    BY <1>0, <1>2, <2>2, <2>3, <2>4, <2>5 DEF TypeOK
  <2>7. Roles' /\ NotYet'
    BY <2>1, <2>2, <2>5 DEF Roles, NotYet
  <2>8. AskedFirst'
    BY <1>2, <2>3, <2>5 DEF AskedFirst, Asks
  <2>9. QED
    BY <2>6, <2>7, <2>8
<1>3. CASE i \notin Actions /\ UNCHANGED <<visible, dialog, due, executed, surface, running>>
  <2>1. env.actions = 0
    <3>1. env.actions \in Nat /\ i = 1
      BY <1>3, RealActions
    <3>2. QED
      BY <1>3, <3>1 DEF Actions
  <2>2. machine' = "Dismissing" /\ selected' = i
    BY <1>0, <1>3 DEF Activate, Outcome, After
  <2>3. TypeOK'
    BY <1>0, <1>3, <2>2 DEF TypeOK, surface
  <2>4. Roles' /\ NotYet' /\ AskedFirst'
    BY <1>0, <1>3, <2>1, <2>2 DEF Roles, NotYet, AskedFirst, surface
  <2>5. QED
    BY <2>3, <2>4
<1>4. QED
  BY <1>0, <1>1, <1>2, <1>3 DEF Activate, ActivateSelected

\* The dialog's own answer, by key, click or countdown.
LEMMA ConfirmKeeps ==
    ASSUME Inv, machine = "ConfirmOpen", Confirm, UNCHANGED <<env, input, counting>>,
           pc' \in Places
    PROVE  Inv'
<1>1. machine' = "Dismissing" /\ visible /\ dialog.open /\ dialog.action \in {NoAction} \cup Actions
  BY DEF Confirm, After, Inv, Roles, TypeOK
<1>2. QED
  BY <1>1, HideKeeps DEF Confirm

\* The overlay is dismissed with nothing to run.
LEMMA CancelKeeps ==
    ASSUME Inv, machine \in {"Active", "ConfirmOpen"}, Cancel,
           UNCHANGED <<env, input, counting>>, pc' \in Places
    PROVE  Inv'
<1>1. machine' = "Dismissing" /\ visible
  BY DEF Cancel, After, Inv, Roles
<1>2. QED
  BY <1>1, HideKeeps DEF Cancel, NoAction

\* A key or a click.
LEMMA InputKeeps == ASSUME Inv, Inputs PROVE Inv'
<1>1. TypeOK /\ Roles
  BY DEF Inv
<1>2. UNCHANGED <<env, pc, input, counting>> /\ Actions' = Actions /\ pc' \in Places
  BY <1>1 DEF TypeOK, Inputs, Move, Enter, ClickCard, Dismiss, Focus, EnterDialog, ClickDialog, Input, Actions
<1>3. CASE Move
  BY <1>1, <1>2, <1>3, ShownKeeps DEF Move, TypeOK, Cards
<1>4. CASE Enter
  BY <1>1, <1>2, <1>4, ActivateKeeps DEF Enter, Input, TypeOK
<1>5. CASE ClickCard
  BY <1>2, <1>5, ActivateKeeps DEF ClickCard, Input
<1>6. CASE Dismiss
  BY <1>2, <1>6, CancelKeeps DEF Dismiss, Input
<1>7. CASE Focus
  <2>1. PICK b \in Buttons \ {dialog.focus} : dialog' = [dialog EXCEPT !.focus = b]
    BY <1>7 DEF Focus
  <2>2. /\ dialog' \in [open : BOOLEAN, action : Actions \cup {NoAction}, focus : Buttons]
        /\ dialog'.open = dialog.open /\ dialog'.action = dialog.action
    BY <1>1, <2>1 DEF TypeOK
  <2>3. QED
    BY <1>1, <1>2, <1>7, <2>2, ShownKeeps DEF Focus, TypeOK
<1>8. CASE EnterDialog
  BY <1>2, <1>8, ConfirmKeeps, CancelKeeps DEF EnterDialog, Input
<1>9. CASE ClickDialog
  BY <1>2, <1>9, ConfirmKeeps, CancelKeeps DEF ClickDialog, Input
<1>10. QED
  BY <1>3, <1>4, <1>5, <1>6, <1>7, <1>8, <1>9 DEF Inputs

\* The loop, the compositor and the clock; only the countdown touches the manager.
LEMMA LoopKeeps == ASSUME Inv, Loop \/ Configure \/ Closed \/ Arrive \/ Passes PROVE Inv'
<1>1. TypeOK /\ Roles /\ NotYet /\ AskedFirst
  BY DEF Inv
<1>2. CASE Configure \/ Render
  <2>1. UNCHANGED <<env, control, input, counting, running>>
    BY <1>2 DEF Configure, Render
  <2>2. mapped' \in BOOLEAN /\ redraw' \in BOOLEAN /\ configured' \in BOOLEAN
        /\ (mapped' => mapped \/ visible)
    BY <1>1, <1>2 DEF Configure, Render, Paint, Paintable, TypeOK
  <2>3. pc' \in Places
    BY <1>1, <1>2 DEF Configure, Render, At, Places, TypeOK
  <2>4. TypeOK'
    BY <1>1, <2>1, <2>2, <2>3 DEF TypeOK, control, Actions
  <2>5. Roles' /\ NotYet' /\ AskedFirst'
    BY <1>1, <2>1, <2>2 DEF Roles, NotYet, AskedFirst, control
  <2>6. QED
    BY <2>4, <2>5 DEF Inv
<1>3. CASE Closed \/ Poll \/ Dispatched \/ Terminate \/ Arrive \/ Passes
  <2>1. UNCHANGED <<env, machine, visible, selected, dialog, executed, mapped, configured, redraw>>
    BY <1>3 DEF Closed, Poll, Dispatched, Terminate, Arrive, Passes, control, surface
  <2>2. running' \in BOOLEAN /\ (running' => running)
    <3>1. running' = running \/ running' = FALSE
      BY <1>3 DEF Closed, Poll, Dispatched, Terminate, Arrive, Passes
    <3>2. running \in BOOLEAN
      BY <1>1 DEF TypeOK
    <3>3. CASE running' = running
      BY <3>2, <3>3
    <3>4. CASE running' = FALSE
      BY <3>4
    <3>5. QED
      BY <3>1, <3>3, <3>4
  <2>3. due' \in BOOLEAN /\ input' \in BOOLEAN
    BY <1>1, <1>3 DEF Closed, Poll, Dispatched, Terminate, Arrive, Passes, TypeOK, control
  <2>4. counting' \in BOOLEAN
    <3>1. dialog.open \in BOOLEAN /\ env.countdown \in BOOLEAN
      BY <1>1, PowerAssumption DEF TypeOK, EnvironmentType
    <3>2. Counting \in BOOLEAN
      BY <3>1 DEF Counting, HasCountdown
    <3>3. QED
      BY <1>1, <1>3, <3>2 DEF Closed, Poll, Dispatched, Terminate, Arrive, Passes, TypeOK
  <2>5. pc' \in Places
    BY <1>1, <1>3 DEF Closed, Poll, Dispatched, Terminate, Arrive, Passes, At, TypeOK, Places
  <2>6. TypeOK'
    BY <1>1, <2>1, <2>2, <2>3, <2>4, <2>5 DEF TypeOK, Actions
  <2>7. Roles' /\ NotYet' /\ AskedFirst'
    BY <1>1, <2>1, <2>2 DEF Roles, NotYet, AskedFirst
  <2>8. QED
    BY <2>6, <2>7 DEF Inv
<1>4. CASE Tick
  <2>0. UNCHANGED <<env, input, counting>> /\ pc' \in Places
    BY <1>4 DEF Tick, At, Places
  <2>1. CASE IsConfirmOpen /\ Confirm
    BY <2>0, <2>1, ConfirmKeeps DEF IsConfirmOpen
  <2>2. CASE redraw' \in BOOLEAN /\ UNCHANGED <<control, mapped, configured, running>>
    <3>1. TypeOK'
      BY <1>1, <2>0, <2>2 DEF TypeOK, control, Actions
    <3>2. Roles' /\ NotYet' /\ AskedFirst'
      BY <1>1, <2>0, <2>2 DEF Roles, NotYet, AskedFirst, control
    <3>3. QED
      BY <3>1, <3>2 DEF Inv
  <2>3. QED
    BY <1>1, <1>4, <2>1, <2>2 DEF Tick, TypeOK
<1>5. QED
  BY <1>2, <1>3, <1>4 DEF Loop

\* It holds when the overlay has been triggered and the loop begins.
LEMMA InitInv == Init => Inv
<1> SUFFICES ASSUME Init PROVE Inv
  OBVIOUS
<1>1. TypeOK
  <2>1. dialog \in [open : BOOLEAN, action : Actions \cup {NoAction}, focus : Buttons]
    BY DEF Init, Buttons
  <2>2. selected \in Actions \cup {1} /\ executed \in Seq(Actions) /\ pc \in Places
    BY DEF Init, Places
  <2>3. QED
    BY <2>1, <2>2 DEF Init, TypeOK
<1>2. Roles /\ NotYet /\ AskedFirst
  BY DEF Init, Roles, NotYet, AskedFirst
<1>3. QED
  BY <1>1, <1>2 DEF Inv

\* Every handler and every step of the loop keeps it.
LEMMA NextInv == Inv /\ [Next]_vars => Inv'
<1>1. ASSUME Inv, UNCHANGED vars PROVE Inv'
  BY <1>1 DEF vars, control, surface, Inv, TypeOK, Roles, NotYet, AskedFirst, Actions
<1>2. QED
  BY <1>1, InputKeeps, LoopKeeps DEF Next

\* So it always holds.
LEMMA InvHolds == Spec => []Inv
  BY InitInv, NextInv, PTL DEF Spec

\* The types: every card, button and place the code can be at, for any list of actions.
THEOREM TypeCorrect == Spec => []TypeOK
<1>1. Inv => TypeOK
  BY DEF Inv
<1>2. QED
  BY <1>1, InvHolds, PTL

\* The state machine, the manager, the dialog and the surface agree after every handler, for
\* any list of actions that is not empty.
THEOREM PartsAgree == Spec => []Agree
<1>1. Inv => Agree
  BY DEF Inv, Roles, Agree, TypeOK
<1>2. QED
  BY <1>1, InvHolds, PTL

\* An action is run at most once, with the overlay gone, and one that asks only when its own
\* dialog was confirmed.
THEOREM ActionsAsked == Spec => []AskedFirst
<1>1. Inv => AskedFirst
  BY DEF Inv
<1>2. QED
  BY <1>1, InvHolds, PTL
==============================================================================
