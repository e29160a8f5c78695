------------------------- MODULE ScheduleOwnership -------------------------
(***************************************************************************)
(* Who owns what in a schedule document: automation/ownership.py and the   *)
(* parts of scheduling/schedule.py that move actions between documents.    *)
(*                                                                         *)
(* A document maps every position, a slot and a lane (a controllable), to  *)
(* an action or to Nothing.  An action is whose it is and, of an optimizer *)
(* run's, which run and phase placed it; what it asks of the hardware is   *)
(* left out, so a user's actions are all alike.  An action with no set_by  *)
(* at all counts as the user's in the code and is one here.                *)
(***************************************************************************)
EXTENDS Naturals

CONSTANTS
  Slots,            \* the slots of the horizon
  Lanes             \* the controllables: the inverter and the appliances

Positions == Slots \X Lanes
Owners    == {"user", "automation", "nobody"}
Actions   == [by : Owners, run : Nat, phase : Nat]
Documents == [Positions -> Actions]

Nothing             == [by |-> "nobody", run |-> 0, phase |-> 0]
UserAction          == [by |-> "user", run |-> 0, phase |-> 0]
Placement(run, phase) == [by |-> "automation", run |-> run, phase |-> phase]

IsUserOwned(action)       == action.by = "user"
IsAutomationOwned(action) == action.by = "automation"

\* A plausible bug: the ownership of what is stripped goes unchecked.
StripWhoever(doc, lanes) ==
  [p \in Positions |-> IF p[2] \in lanes THEN Nothing ELSE doc[p]]

\* strip_automation_owned_actions, of the given lanes only
Strip(doc, lanes) ==
  [p \in Positions |->
     IF IsAutomationOwned(doc[p]) /\ p[2] \in lanes THEN Nothing ELSE doc[p]]

\* merge_automation_result raises: a user's action came back different
Conflict(baseline, result) ==
  \E p \in Positions : IsUserOwned(baseline[p]) /\ result[p] # baseline[p]

\* merge_automation_result: the user's actions, then the run's, all of which
\* become the automation's
Merge(baseline, result) ==
  [p \in Positions |->
     IF IsUserOwned(baseline[p]) \/ result[p] = Nothing
     THEN Strip(baseline, Lanes)[p]
     ELSE [result[p] EXCEPT !.by = "automation"]]

\* ScheduleWriter: one lane's actions in the chosen slots, past the user's veto
Write(doc, lane, slots, action) ==
  [p \in Positions |->
     IF p[2] = lane /\ p[1] \in slots /\ ~IsUserOwned(doc[p]) THEN action ELSE doc[p]]

\* apply_slot_patches of one slot the user sent, stamped by with_slot_set_by:
\* the slot becomes exactly the patch, whoever owned what was there
Patch(doc, slot, lanes) ==
  [p \in Positions |->
     IF p[1] = slot
     THEN IF p[2] \in lanes THEN UserAction ELSE Nothing
     ELSE doc[p]]

\* What is left of a document once positions outside the given set are dropped
Keep(doc, positions) ==
  [p \in Positions |-> IF p \in positions THEN doc[p] ELSE Nothing]
=============================================================================
