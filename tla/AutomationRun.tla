--------------------------- MODULE AutomationRun ---------------------------
(***************************************************************************)
(* One automation run at a time over the schedule document: AutomationRunner *)
(* .run and the optimizer loop (automation/pipeline.py), the document lock  *)
(* it holds from its first read to its last write, and the ScheduleService  *)
(* operations it calls (scheduling/schedule_service.py), among user edits,  *)
(* readers, restarts, the clock and an appliance registry that follows the  *)
(* live entities and that nobody locks.                                     *)
(*                                                                         *)
(* A run plans in three phases: the appliances provisionally, the inverter  *)
(* against their demand, the appliances again, on lanes cleared first.      *)
(* Which slots an optimizer picks is its own affair: any.                   *)
(***************************************************************************)
EXTENDS Naturals, Sequences

CONSTANTS
  LastSlot,         \* bound: slots are 0..LastSlot
  Inverter,         \* the inverter's lane
  Appliances,       \* the appliances' lanes
  Fickle,           \* lanes whose actions the live entities may stop or start accepting
  Members,          \* the lanes of the appliance optimizers' members, in order
  Systems,          \* how many system optimizers there are
  MaxRuns,          \* bound: automation runs
  MaxEdits,         \* bound: user edits
  MaxFlips,         \* bound: changes of what the live entities accept
  MaxRestarts       \* bound: restarts and config reloads

Slots == 0..LastSlot
Lanes == Appliances \cup {Inverter}
INSTANCE ScheduleOwnership

ASSUME LanesAssumption ==
  /\ Inverter \notin Appliances
  /\ Fickle \subseteq Lanes
  /\ Members \in Seq(Appliances)
ASSUME AutomationBoundsAssumption ==
  /\ LastSlot \in Nat /\ Systems \in Nat
  /\ MaxRuns \in Nat /\ MaxEdits \in Nat /\ MaxFlips \in Nat /\ MaxRestarts \in Nat

VARIABLES
  doc,              \* the stored schedule document
  now,              \* the slot that covers now
  live,             \* the lanes whose actions the live entities accept
  known,            \* the appliance lanes the registry believes they accept
  config,           \* "on" with an enabled optimizer, else "off"
  stage,            \* where the run is; "idle": no run, the document lock is free
  at,               \* the run's reference time
  working,          \* working_schedule_document
  phase, next,      \* the phase of the loop, and its next optimizer in it
  run,              \* the number of the newest run
  bands, explained, \* the runs whose day bands and explanation are recorded
  reconcile         \* "asked" for a reconcile, until it is taken

(* History, read by the properties only, and the bounds' counters. *)
VARIABLES
  completed,        \* the newest run that completed
  edits, flips, restarts

world    == <<now, live, known>>
place    == <<stage, at, working, phase, next>>
records  == <<bands, explained>>
counters == <<edits, flips, restarts>>
automationVars ==
  <<doc, world, config, place, run, records, reconcile, completed, counters>>

Stages == {"idle", "gathering", "looping", "placed", "persisting", "saving"}

AutomationTypeOK ==
  /\ doc \in Documents /\ working \in Documents
  /\ now \in Slots /\ at \in Slots
  /\ live \subseteq Lanes /\ known \subseteq Appliances
  /\ config \in {"on", "off"} /\ reconcile \in {"asked", "none"}
  /\ stage \in Stages
  /\ phase \in 1..3 /\ next \in Nat \ {0}
  /\ run \in 0..MaxRuns
  /\ bands \in 0..run /\ explained \in 0..run /\ completed \in 0..run
  /\ edits \in 0..MaxEdits /\ flips \in 0..MaxFlips /\ restarts \in 0..MaxRestarts

Empty == [p \in Positions |-> Nothing]

AutomationInit ==
  /\ doc = Empty /\ working = Empty
  /\ now = 0 /\ at = 0
  /\ live = Lanes /\ known = Appliances
  /\ config \in {"on", "off"}
  /\ stage = "idle" /\ phase = 1 /\ next = 1
  /\ run = 0 /\ bands = 0 /\ explained = 0 /\ completed = 0
  /\ reconcile = "none"
  /\ edits = 0 /\ flips = 0 /\ restarts = 0

----------------------------------------------------------------------------
(* What the service does to a document. *)

\* normalize_schedule_document_for_registry: actions the registry does not
\* accept are dropped; the inverter's are not judged here
Accepted(lanes) == Slots \X (lanes \cup {Inverter})

\* _prune, after registry.refresh(): the document every reader works from
Pruned(time) == Keep(doc, Accepted(live \cap Appliances) \cap {p \in Positions : p[1] >= time})

\* _normalize_for_strict_write does not raise: every action of the document,
\* the user's included, is acceptable now
StrictlyValid(result, lanes) ==
  \A p \in Positions : result[p] # Nothing =>
    IF p[2] = Inverter THEN Inverter \in live ELSE p[2] \in lanes

\* A plausible bug: only where there is an action is compared, not whose it is.
AskedIfMoved(newDoc, oldDoc) ==
  IF \A p \in Positions : newDoc[p] = Nothing <=> oldDoc[p] = Nothing THEN reconcile ELSE "asked"

\* A reconcile is asked for where the document changed.
Asked(newDoc, oldDoc) == IF newDoc = oldDoc THEN reconcile ELSE "asked"

----------------------------------------------------------------------------
(* The run. *)

EndRun == stage' = "idle" /\ working' = Empty /\ phase' = 1 /\ next' = 1

\* AutomationRunner.run takes the document lock, loads and strips; what it is
\* handed as its reference time is the time of its request, taken as now
Begin ==
  /\ stage = "idle" /\ run < MaxRuns /\ config = "on"
  /\ known' = live \cap Appliances
  /\ doc' = Pruned(now)
  /\ working' = Strip(doc', Lanes)
  /\ run' = run + 1 /\ at' = now
  /\ stage' = "gathering"
  /\ UNCHANGED <<now, live, config, phase, next, records, reconcile, completed, counters>>

\* Automation is disabled or has no optimizer: the run only cleans up.
BeginCleanup ==
  /\ stage = "idle" /\ run < MaxRuns /\ config = "off"
  /\ known' = live \cap Appliances
  /\ doc' = Strip(Pruned(now), Lanes)
  /\ reconcile' = Asked(doc', Pruned(now))
  /\ run' = run + 1
  /\ UNCHANGED <<now, live, config, place, records, completed, counters>>

\* The input bundle, the live values, the first snapshot and the previous
\* bands are there; or they are not, or one of them raises.
Gathered ==
  /\ stage = "gathering"
  /\ stage' = "looping"
  /\ UNCHANGED <<doc, world, config, at, working, phase, next, run, records, reconcile, completed, counters>>

NotGathered ==
  /\ stage = "gathering"
  /\ EndRun
  /\ UNCHANGED <<doc, world, config, at, run, records, reconcile, completed, counters>>

\* One member of an appliance optimizer, in phase 1 and again in phase 3
PlaceAppliance ==
  /\ stage = "looping" /\ phase \in {1, 3} /\ next <= Len(Members)
  /\ \E slots \in SUBSET (at..LastSlot) :
       working' = Write(working, Members[next], slots, Placement(run, phase))
  /\ next' = next + 1
  /\ UNCHANGED <<doc, world, config, stage, at, phase, run, records, reconcile, completed, counters>>

PlaceSystem ==
  /\ stage = "looping" /\ phase = 2 /\ next <= Systems
  /\ \E slots \in SUBSET (at..LastSlot) :
       working' = Write(working, Inverter, slots, Placement(run, 2))
  /\ next' = next + 1
  /\ UNCHANGED <<doc, world, config, stage, at, phase, run, records, reconcile, completed, counters>>

EndPhase1 ==
  /\ stage = "looping" /\ phase = 1 /\ next > Len(Members)
  /\ phase' = 2 /\ next' = 1
  /\ UNCHANGED <<doc, world, config, stage, at, working, run, records, reconcile, completed, counters>>

MemberLanes == {Members[i] : i \in 1..Len(Members)}

\* A plausible bug: the members' lanes are left as phase 1 had them.
EndPhase2Provisional ==
  /\ stage = "looping" /\ phase = 2 /\ next > Systems
  /\ phase' = 3 /\ next' = 1
  /\ UNCHANGED <<doc, world, config, stage, at, working, run, records, reconcile, completed, counters>>

\* Before phase 3 the lane of every member of every group is stripped.
EndPhase2 ==
  /\ stage = "looping" /\ phase = 2 /\ next > Systems
  /\ working' = Strip(working, MemberLanes)
  /\ phase' = 3 /\ next' = 1
  /\ UNCHANGED <<doc, world, config, stage, at, run, records, reconcile, completed, counters>>

EndLoop ==
  /\ stage = "looping" /\ phase = 3 /\ next > Len(Members)
  /\ stage' = "placed"
  /\ UNCHANGED <<doc, world, config, at, working, phase, next, run, records, reconcile, completed, counters>>

\* An optimizer, its rails or a snapshot rebuild raises: nothing is stored.
LoopFails ==
  /\ stage = "looping"
  /\ EndRun
  /\ UNCHANGED <<doc, world, config, at, run, records, reconcile, completed, counters>>

\* async_persist_day_context_bands, then record_run_explanation
Record ==
  /\ stage = "placed"
  /\ bands' = run /\ explained' = run
  /\ stage' = "persisting"
  /\ UNCHANGED <<doc, world, config, at, working, phase, next, run, reconcile, completed, counters>>

\* persist_automation_result from its strict write on, over the latest document
Merged(latest, registry) ==
  /\ \/ /\ StrictlyValid(working, registry)
        /\ ~Conflict(latest, working)
        /\ doc' = Keep(Merge(latest, working), Accepted(registry))
        /\ reconcile' = Asked(doc', latest)
        /\ completed' = run
     \/ /\ ~StrictlyValid(working, registry) \/ Conflict(latest, working)
        /\ doc' = latest
        /\ UNCHANGED <<reconcile, completed>>
  /\ EndRun

\* The latest document needs no pruning: there is no suspension before the merge.
Persist ==
  /\ stage = "persisting" /\ Pruned(at) = doc
  /\ known' = live \cap Appliances
  /\ Merged(doc, known')
  /\ UNCHANGED <<now, live, config, at, run, records, counters>>

\* It does: the pruned document is saved first, and the run waits for the disk.
PersistPrunes ==
  /\ stage = "persisting" /\ Pruned(at) # doc
  /\ known' = live \cap Appliances
  /\ doc' = Pruned(at)
  /\ stage' = "saving"
  /\ UNCHANGED <<now, live, config, at, working, phase, next, run, records, reconcile, completed, counters>>

PersistAfterSave ==
  /\ stage = "saving"
  /\ Merged(doc, known)
  /\ UNCHANGED <<world, config, at, run, records, counters>>

----------------------------------------------------------------------------
(* Everybody else. *)

\* A plausible bug: an edit does not wait for the run's lock.
UserEditsUnlocked ==
  /\ edits < MaxEdits
  /\ known' = live \cap Appliances
  /\ \E slot \in now..LastSlot :
     \E lanes \in SUBSET (known' \cup (live \cap {Inverter})) :
       doc' = Patch(Pruned(now), slot, lanes)
  /\ reconcile' = Asked(doc', Pruned(now))
  /\ edits' = edits + 1
  /\ UNCHANGED <<now, live, config, place, run, records, completed, flips, restarts>>

\* set_slots of one slot, from the card; a patch that is not acceptable raises
UserEdits ==
  /\ stage = "idle" /\ edits < MaxEdits
  /\ known' = live \cap Appliances
  /\ \E slot \in now..LastSlot :
     \E lanes \in SUBSET (known' \cup (live \cap {Inverter})) :
       doc' = Patch(Pruned(now), slot, lanes)
  /\ reconcile' = Asked(doc', Pruned(now))
  /\ edits' = edits + 1
  /\ UNCHANGED <<now, live, config, place, run, records, completed, flips, restarts>>

\* read: the executor, the forecast, a card; it stores what it pruned
Read ==
  /\ stage = "idle"
  /\ known' = live \cap Appliances
  /\ doc' = Pruned(now)
  /\ UNCHANGED <<now, live, config, place, run, records, reconcile, completed, counters>>

\* A plausible bug: the registry answers for the inverter too.
RefreshRegistryAll ==
  /\ known' = live
  /\ UNCHANGED <<doc, now, live, config, place, run, records, reconcile, completed, counters>>

\* get_appliances and get_appliance_projections refresh the registry, lock or no lock
RefreshRegistry ==
  /\ known' = live \cap Appliances
  /\ UNCHANGED <<doc, now, live, config, place, run, records, reconcile, completed, counters>>

\* A climate entity's modes, or the battery's bounds, change.
Flip ==
  /\ flips < MaxFlips /\ flips' = flips + 1
  /\ \E lane \in Fickle :
       live' = IF lane \in live THEN live \ {lane} ELSE live \cup {lane}
  /\ UNCHANGED <<doc, now, known, config, place, run, records, reconcile, completed, edits, restarts>>

SlotElapses ==
  /\ now < LastSlot /\ now' = now + 1
  /\ UNCHANGED <<doc, live, known, config, place, run, records, reconcile, completed, counters>>

TakeReconcile ==
  /\ reconcile = "asked" /\ reconcile' = "none"
  /\ UNCHANGED <<doc, world, config, place, run, records, completed, counters>>

\* A plausible bug: setup does not clean up.
RestartKeepsPlan ==
  /\ restarts < MaxRestarts /\ restarts' = restarts + 1
  /\ config' \in {"on", "off"}
  /\ known' \in {live \cap Appliances, Appliances}
  /\ doc' = Keep(doc, Accepted(known'))
  /\ EndRun /\ at' = now
  /\ explained' = 0
  /\ reconcile' = "asked"
  /\ UNCHANGED <<now, live, run, bands, completed, edits, flips>>

\* A restart or a config reload: a run in flight is lost with the records in
\* memory, the registry starts from the configured modes unless the climate
\* entities are already there, and setup normalizes the document, then cleans
\* it up when automation is off; async_start asks for a reconcile.
Restart ==
  /\ restarts < MaxRestarts /\ restarts' = restarts + 1
  /\ config' \in {"on", "off"}
  /\ known' \in {live \cap Appliances, Appliances}
  /\ doc' = LET normalized == Keep(doc, Accepted(known'))
            IN  IF config' = "off" THEN Strip(Keep(normalized, (now..LastSlot) \X Lanes), Lanes)
                ELSE normalized
  /\ EndRun /\ at' = now
  /\ explained' = 0
  /\ reconcile' = "asked"
  /\ UNCHANGED <<now, live, run, bands, completed, edits, flips>>

Run    == \/ Begin \/ BeginCleanup \/ Gathered \/ NotGathered
          \/ PlaceAppliance \/ PlaceSystem \/ EndPhase1 \/ EndPhase2 \/ EndLoop \/ LoopFails
          \/ Record \/ Persist \/ PersistPrunes \/ PersistAfterSave
Others == Read \/ RefreshRegistry \/ Flip \/ SlotElapses \/ TakeReconcile
AutomationNext == Run \/ UserEdits \/ Others \/ Restart
AutomationSpec == AutomationInit /\ [][AutomationNext]_automationVars

----------------------------------------------------------------------------
(* What must hold. *)

\* An action belongs to somebody exactly when it is not Nothing.
IsPlan(d, r) ==
  \A p \in Positions : IsAutomationOwned(d[p]) /\ d[p].run # 0 =>
    /\ d[p].run = r
    /\ d[p].phase = IF p[2] = Inverter THEN 2 ELSE 3

\* The plan in the document is one run's: everything an optimizer placed in it
\* was placed by the newest run that completed, the inverter's lane in phase 2
\* and the appliances' lanes in the final phase, never left over from an older
\* run, a failed one or the provisional phase 1.
PlanIsOfOneRun == IsPlan(doc, completed)

\* The automation never takes or removes what the user scheduled: a step of a
\* run, a reader or a restart drops a user's action only because its slot has
\* ended or the appliance no longer accepts it, and only a user's edit adds one.
UserActionsSurvive ==
  [][\/ edits' # edits
     \/ \A p \in Positions :
          /\ IsUserOwned(doc'[p]) => doc[p] = doc'[p]
          /\ IsUserOwned(doc[p]) /\ ~IsUserOwned(doc'[p]) =>
               /\ doc'[p] = Nothing
               /\ p[1] < now \/ (p[2] # Inverter /\ p[2] \notin live)]_automationVars

\* While automation is off the document holds no plan, so none is executed.
OffMeansNoPlan ==
  config = "off" => \A p \in Positions : ~IsAutomationOwned(doc[p])

\* The raise in _merge_slot_actions stays a diagnostic (ownership.py:126): no
\* action the user has in the document differs in the run's working copy, from
\* the first optimizer to the merge.
MergeNeverConflicts ==
  stage \in {"looping", "placed", "persisting", "saving"} => ~Conflict(doc, working)

\* A change of the plan is followed by a reconcile: one is asked for in the
\* step that stores it.
ChangesAreReconciled ==
  [][(\E p \in Positions : IsAutomationOwned(doc'[p]) /\ doc'[p] # doc[p]) => reconcile' = "asked"]_automationVars

-----------------------------------------------------------------------------
\* Not kept by the code; TLC refutes them (README, "Known limits").

\* A failed run leaves the record of the last good one standing: what is
\* explained is a run that completed (coordinator.py:363).
ExplainedRunCompleted == stage = "idle" => explained \in {0, completed}

\* Whatever the automation owns, an optimizer placed: a user's action never
\* becomes the automation's.
NothingTakenOver ==
  \A p \in Positions : IsAutomationOwned(doc[p]) => doc[p].run # 0
=============================================================================
