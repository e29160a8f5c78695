---------------------------- MODULE RealityCheck ----------------------------
(***************************************************************************)
(* The check before each execution that the plan's conditions still hold:  *)
(* ConditionEvaluator (automation/condition_evaluator.py), the record of   *)
(* the plan they were stamped from, the executor's attempt that checks     *)
(* them, and the automation run that plans again.                          *)
(*                                                                         *)
(* One optimizer has condition groups, in order; its action in the current *)
(* slot is stamped by the group that placed it.  An action of a group      *)
(* whose condition was met is committed, any other a candidate that is not *)
(* executed.  The trigger coordinator is that of AutomationTriggers, told  *)
(* in its own terms: one run at a time, one waiting request, one follow-up.*)
(*                                                                         *)
(* Time is one window, AUTOMATION_CONDITION_PLAN_FRESHNESS_SECONDS: a plan *)
(* younger than it is "fresh".  The window exceeds a re-plan's duration    *)
(* (const.py:109), so it does not pass during one.                         *)
(***************************************************************************)
EXTENDS Naturals, FiniteSetsExt

CONSTANTS
  LastGroup,        \* the optimizer's condition groups are 1..LastGroup
  MaxFlips,         \* bound: changes of what the conditions read
  MaxFails,         \* bound: runs that fail in passing
  MaxRestarts,      \* bound: restarts
  MayBreak          \* "yes" when an optimizer may start to raise for good

ASSUME RealityBounds ==
  LastGroup \in Nat \ {0} /\ MaxFlips \in Nat /\ MaxFails \in Nat /\ MaxRestarts \in Nat
ASSUME MayBreakAssumption == MayBreak \in {"yes", "no"}

Groups == 1..LastGroup

VARIABLES
  met,              \* the groups whose condition is met, live
  doc,              \* the slot's action: the group that stamped it (0: none), committed or not
  planned,          \* _last_plan_condition_map: the groups met in the recorded plan
  age,              \* age of the recorded plan, "none" before the first
  pc,               \* the run: "idle", "starting", "planning", "over"
  gathered,         \* the groups met when the run under way gathered its inputs
  waiting, followUp,  \* a debounced request, a follow-up request
  executor,         \* the attempt: "idle", "reading" (waits for the document), "applying"
  ended,            \* how the last attempt ended: "deferred", "applied"
  broken,           \* "yes" once an optimizer raises on every run
  flips, fails, restarts

(* History, read by the properties only. *)
VARIABLES
  docAge,           \* age of the plan in the document
  unmet,            \* groups unmet from the check of the attempt under way on
  checked           \* "no" when that check raised

runState    == <<pc, gathered, waiting, followUp, broken>>
record   == <<planned, age>>
counters == <<flips, fails, restarts>>
history  == <<docAge, unmet, checked>>
realityVars == <<met, doc, record, runState, executor, ended, counters, history>>

RealityTypeOK ==
  /\ met \subseteq Groups /\ planned \subseteq Groups /\ gathered \subseteq Groups
  /\ unmet \subseteq Groups
  /\ doc \in [by : {0} \cup Groups, committed : {"yes", "no"}]
  /\ age \in {"none", "fresh", "stale"} /\ docAge \in {"fresh", "stale"}
  /\ pc \in {"idle", "starting", "planning", "over"}
  /\ {waiting, followUp, broken, checked} \subseteq {"yes", "no"}
  /\ executor \in {"idle", "reading", "applying"}
  /\ ended \in {"none", "deferred", "applied"}
  /\ flips \in 0..MaxFlips /\ fails \in 0..MaxFails /\ restarts \in 0..MaxRestarts

RealityInit ==
  /\ met \in SUBSET Groups
  /\ doc = [by |-> 0, committed |-> "no"] /\ docAge = "stale"
  /\ planned = {} /\ age = "none"
  /\ pc = "idle" /\ gathered = {}
  /\ waiting = "no" /\ followUp = "no"
  /\ executor = "idle" /\ ended = "none" /\ broken = "no"
  /\ unmet = {} /\ checked = "yes"
  /\ flips = 0 /\ fails = 0 /\ restarts = 0
-----------------------------------------------------------------------------
(* request_debounced: behind an active run it becomes its follow-up. *)
Request ==
  IF pc = "idle" THEN waiting' = "yes" /\ UNCHANGED followUp
                 ELSE followUp' = "yes" /\ waiting' = "no"

(* Faulty variant: only a condition that has come to be met asks for a re-plan. *)
NeedsReplanToPlaceOnly == met # {} /\ planned = {}

(* needs_replan compares whether any group is met, not which. *)
NeedsReplan == (met = {}) # (planned = {})

Proceed ==
  /\ executor' = "reading" /\ unmet' = Groups \ met
  /\ UNCHANGED <<ended, waiting, followUp>>

Defer ==
  /\ executor' = "idle" /\ ended' = "deferred" /\ Request
  /\ UNCHANGED <<unmet, checked>>

(* Reading the automation's configuration raises, or the evaluation as a    *)
(* whole (an entry that raises is one not met): the plan is executed as it  *)
(* is.                                                                      *)
CheckRaises == age = "stale" /\ Proceed /\ checked' = "no"

(* The reality check at the start of an attempt: a stale plan whose         *)
(* conditions have changed is not executed but planned again.               *)
Check ==
  \/ age = "stale" /\ NeedsReplan /\ Defer
  \/ ~(age = "stale" /\ NeedsReplan) /\ Proceed /\ checked' = "yes"
  \/ CheckRaises

Attempt ==                              \* a tick, or a request of somebody's
  /\ executor = "idle"
  /\ Check
  /\ UNCHANGED <<met, doc, record, pc, gathered, broken, counters, docAge>>

(* The document is read once no run holds its lock, and its committed      *)
(* action applied.                                                          *)
Read ==
  /\ executor = "reading" /\ pc # "planning"
  /\ executor' = "applying"
  /\ UNCHANGED <<met, doc, record, runState, ended, counters, history>>

Apply ==
  /\ executor = "applying"
  /\ executor' = "idle" /\ ended' = "applied" /\ unmet' = {} /\ checked' = "yes"
  /\ UNCHANGED <<met, doc, record, runState, counters, docAge>>
-----------------------------------------------------------------------------
(* The run. *)

(* The forecast's slot boundary asks debounced, a user's edit at once. *)
AskDebounced ==
  /\ Request
  /\ UNCHANGED <<met, doc, record, pc, gathered, broken, executor, ended, counters, history>>

AskImmediate ==
  /\ waiting' = "no"
  /\ IF pc = "idle" THEN pc' = "starting" /\ UNCHANGED followUp
                    ELSE followUp' = "yes" /\ UNCHANGED pc
  /\ UNCHANGED <<met, doc, record, gathered, broken, executor, ended, counters, history>>

Dispatch ==                             \* the debounce is over
  /\ waiting = "yes" /\ pc = "idle"
  /\ waiting' = "no" /\ pc' = "starting"
  /\ UNCHANGED <<met, doc, record, gathered, followUp, broken, executor, ended, counters, history>>

(* The run takes the document lock and evaluates every group's condition. *)
Gather ==
  /\ pc = "starting"
  /\ pc' = "planning" /\ gathered' = met
  /\ UNCHANGED <<met, doc, record, waiting, followUp, broken, executor, ended, counters, history>>

(* No inputs, or an optimizer raises: nothing is stored and nothing recorded. *)
Fail ==
  /\ pc = "planning"
  /\ pc' = "over" /\ gathered' = {}
  /\ \/ broken = "yes" /\ UNCHANGED fails
     \/ broken = "no" /\ fails < MaxFails /\ fails' = fails + 1
  /\ UNCHANGED <<met, doc, record, waiting, followUp, broken, executor, ended,
                 flips, restarts, history>>

(* Faulty variant: the group's index is one too high. *)
StampNextGroup(covering) ==
  LET open == covering \cap gathered IN
  CASE covering = {} -> [by |-> 0, committed |-> "no"]
    [] open # {}     -> [by |-> Min(open) + 1, committed |-> "yes"]
    [] OTHER         -> [by |-> Min(covering) + 1, committed |-> "no"]

(* Eligibility.at: of the groups that cover the slot, the first that is met, *)
(* else the first; none covers it when their system conditions do not.       *)
Stamp(covering) ==
  LET open == covering \cap gathered IN
  CASE covering = {} -> [by |-> 0, committed |-> "no"]
    [] open # {}     -> [by |-> Min(open), committed |-> "yes"]
    [] OTHER         -> [by |-> Min(covering), committed |-> "no"]

(* Faulty variant: only a plan that changed the document is recorded. *)
RecordIfChanged ==
  IF doc' = doc THEN UNCHANGED record ELSE planned' = gathered /\ age' = "fresh"

(* _record_automation_run *)
Record == planned' = gathered /\ age' = "fresh"

(* The plan is stored, the lock released and, if the plan changed anything, *)
(* a reconcile asked for, whose worker starts at once if there is none: it  *)
(* checks before the run has returned and its plan is recorded.             *)
Persist ==
  /\ pc = "planning" /\ broken = "no"
  /\ pc' = "over"
  /\ \E covering \in SUBSET Groups : doc' = Stamp(covering)
  /\ docAge' = "fresh"
  /\ \/ executor = "idle" /\ Check
     \/ /\ doc' = doc \/ executor # "idle"
        /\ UNCHANGED <<executor, ended, waiting, followUp, unmet, checked>>
  /\ Record
  /\ gathered' = {}
  /\ UNCHANGED <<met, broken, counters>>

NextRequest ==                          \* the follow-up, or the end of the run task
  /\ pc = "over"
  /\ pc' = IF followUp = "yes" THEN "starting" ELSE "idle"
  /\ followUp' = "no"
  /\ UNCHANGED <<met, doc, record, gathered, waiting, broken, executor, ended, counters, history>>
-----------------------------------------------------------------------------
(* Around it. *)

Flip ==
  /\ flips < MaxFlips /\ flips' = flips + 1
  /\ \E g \in Groups :
       IF g \in met THEN met' = met \ {g} /\ UNCHANGED unmet
                    ELSE met' = met \cup {g} /\ unmet' = unmet \ {g}
  /\ UNCHANGED <<doc, record, runState, executor, ended, fails, restarts, docAge, checked>>

(* The window passes while no run and no read behind one is under way. *)
WindowPasses ==
  /\ pc \in {"idle", "starting"} /\ executor # "reading"
  /\ "fresh" \in {age, docAge}
  /\ age' = IF age = "fresh" THEN "stale" ELSE age
  /\ docAge' = "stale"
  /\ UNCHANGED <<met, doc, planned, runState, executor, ended, counters, unmet, checked>>

Break ==
  /\ MayBreak = "yes" /\ broken = "no"
  /\ broken' = "yes"
  /\ UNCHANGED <<met, doc, record, pc, gathered, waiting, followUp, executor, ended, counters, history>>

(* A restart: the document stays, the record of its plan does not. *)
Restart ==
  /\ restarts < MaxRestarts /\ restarts' = restarts + 1
  /\ planned' = {} /\ age' = "none"
  /\ pc' = "idle" /\ gathered' = {} /\ waiting' = "no" /\ followUp' = "no"
  /\ executor' = "idle" /\ ended' = "none" /\ unmet' = {} /\ checked' = "yes"
  /\ UNCHANGED <<met, doc, broken, flips, fails, docAge>>

Plan == Dispatch \/ Gather \/ Fail \/ Persist \/ NextRequest

RealityNext ==
  \/ Attempt \/ Read \/ Apply
  \/ AskDebounced \/ AskImmediate \/ Plan
  \/ Flip \/ WindowPasses \/ Break \/ Restart

RealitySpec == RealityInit /\ [][RealityNext]_realityVars

(* The executor ticks every 30 s, a run that was asked for is made and comes *)
(* to an end, and the document lock is had in turn.                          *)
RealityFair ==
  /\ WF_realityVars(Attempt) /\ SF_realityVars(Read) /\ WF_realityVars(Apply)
  /\ WF_realityVars(Plan)
-----------------------------------------------------------------------------
(* What the check promises. *)

(* An action committed by a stale plan is not applied while no group's      *)
(* condition is met, unless one was met after the attempt's check: what the *)
(* check found holds for all that is read behind it, whatever flips and     *)
(* re-plans come between.  Two attempts are exempt, and the code executes   *)
(* them as-is: one whose check raised, and one on a plan older than the     *)
(* last restart, for its conditions are not on record.                      *)
UnmetNotApplied ==
  [][executor = "reading" /\ executor' = "applying" /\ doc.committed = "yes"
       /\ docAge = "stale" /\ age # "none" /\ checked = "yes" => unmet # Groups]_realityVars

(* Deferring is never for good: attempts go on to apply the plan, or an     *)
(* optimizer raises on every run.                                            *)
AppliesUnlessBroken == []<>(ended = "applied" \/ broken = "yes")
-----------------------------------------------------------------------------
(* Not kept by the code; TLC refutes them (README, "Known limits").          *)

(* Deferring is never for good, whatever becomes of the run it waits for.    *)
AppliesAgain == []<>(ended = "applied")

(* UnmetNotApplied, of an attempt whose check raised too: "executing plan   *)
(* as-is" is the code's choice when it cannot tell.                         *)
UnmetNeverApplied ==
  [][executor = "reading" /\ executor' = "applying" /\ doc.committed = "yes"
       /\ docAge = "stale" /\ age # "none" => unmet # Groups]_realityVars

(* UnmetNotApplied, of the group that committed the action, and of any plan: *)
(* it takes comparing group by group, and a record that outlives a restart.  *)
OwnConditionHolds ==
  [][executor = "reading" /\ executor' = "applying" /\ doc.committed = "yes" /\ docAge = "stale" =>
       doc.by \notin unmet]_realityVars

(* A re-plan settles what it was asked for: with conditions as they were     *)
(* when it gathered them, its own reconcile asks for no other re-plan.       *)
ReplanSettles ==
  [][pc = "planning" /\ pc' = "over" /\ met = gathered /\ followUp = "no" => followUp' = "no"]_realityVars
=============================================================================
