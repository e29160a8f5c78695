------------------------- MODULE InverterExecution -------------------------
(***************************************************************************)
(* How a schedule slot is made true on the inverter: InverterExecutor      *)
(* (scheduling/schedule_executor.py), Helman's own mode select (select.py) *)
(* that it picks options of, and the registers of a SolaX inverter behind  *)
(* it (vendors/modes.py, vendors/solax_inverter.py).                       *)
(*                                                                         *)
(* An option is a sequence of register writes, made one after another      *)
(* under the select's lock.  The executor and the user pick options        *)
(* concurrently; writes fail, time out or take effect unanswered; Home     *)
(* Assistant sees a register as it last polled it; the inverter may leave  *)
(* the mode by itself.  The select shows the option last picked with       *)
(* success.  A mode entity of the user's own is the case of one register.  *)
(***************************************************************************)
EXTENDS Naturals, Sequences

CONSTANTS
  Kinds,            \* the action kinds the plan uses
  Start,            \* the option the registers hold at first, or "foreign"
  LastSlot,         \* bound: slots are 0..LastSlot
  Hands,            \* who else moves things: "picks", "drift", "link", "restart", "off"
  Faults,           \* how a write fails: "refused" or "unanswered" (it took effect)
  MaxEdits,         \* bound: edits of the plan, and moves of the state of charge
  MaxHands,         \* bound: moves of Hands
  MaxFaults         \* bound: failed writes and timed out calls

Options == {"normal", "charge_to_target_soc", "discharge_to_target_soc",
            "stop_charging", "stop_discharging", "stop_export"}
Targets == {"charge_to_target_soc", "discharge_to_target_soc"}

ASSUME KindsAssumption  == Kinds \subseteq Options
ASSUME StartAssumption  == Start \in Options \cup {"foreign"}
ASSUME HandsAssumption  == /\ Hands \subseteq {"picks", "drift", "link", "restart", "off"}
                           /\ Faults \subseteq {"refused", "unanswered"}
ASSUME BoundsAssumption == LastSlot \in Nat /\ MaxEdits \in Nat /\ MaxHands \in Nat /\ MaxFaults \in Nat

VARIABLES
  slot, plan,       \* the slot that covers now; the committed inverter action of each
  soc,              \* the battery, against the action's target: "short", "met", "unknown"
  hw,               \* what the registers hold
  seen,             \* what Home Assistant shows of them
  shown,            \* _attr_current_option of the select; "unknown" for None
  pick,             \* the picks of the executor and of the user: where each is
  attempt,          \* the executor's attempt that waits for its pick
  memory,           \* last_applied_action, _active_slot_id, _runtime_action_kind
  ended, acted      \* how the last attempt ended, and the plan's action it was for

(* History, read by the properties only, and the bounds' counters. *)
VARIABLES
  moved,            \* registers something else moved since a pick last saw to them
  owned,            \* "yes" while an override that Helman recorded is in the registers
  applied,          \* Helman's last success: "override", "normal", "nothing"
  edits, hands, faults

schedule == <<slot, plan, soc>>
device   == <<hw, seen, shown, moved>>
executor == <<attempt, memory, ended, acted, applied, owned>>
counters == <<edits, hands, faults>>
vars     == <<schedule, device, pick, executor, counters>>

Slots     == 0..LastSlot
Actions   == {"empty"} \cup Kinds
Pickers   == {"executor", "user"}
Values    == [use : {"self", "feedin", "manual", "backup"},
              manual : {"hold", "charge", "discharge"},
              limit : {"zero", "full"}]
Registers == {"use", "manual", "limit"}
Settings  == {"self", "feedin", "manual", "backup", "hold", "charge", "discharge", "zero", "full"}

(* The profile's mode table, the export limit after every mode. *)
ModeWrites(option) ==
  CASE option \in {"normal", "stop_export"}      -> <<<<"use", "self">>>>
    [] option = "stop_charging"                  -> <<<<"use", "feedin">>>>
    [] option = "stop_discharging"               -> <<<<"use", "manual">>, <<"manual", "hold">>>>
    [] option = "charge_to_target_soc"           -> <<<<"use", "manual">>, <<"manual", "charge">>>>
    [] option = "discharge_to_target_soc"        -> <<<<"use", "manual">>, <<"manual", "discharge">>>>

Writes(option) ==
  Append(ModeWrites(option), <<"limit", IF option = "stop_export" THEN "zero" ELSE "full">>)

WritesOf(option) == {Writes(option)[i] : i \in 1..Len(Writes(option))}
Holds(registers, option) == \A w \in WritesOf(option) : registers[w[1]] = w[2]

Picks == [at : {"none", "waiting", "writing", "calling"}, option : Options,
          next : Nat, done : SUBSET Registers]

NoPick    == [at |-> "none", option |-> "normal", next |-> 1, done |-> {}]
NoAttempt == [action |-> "empty", executed |-> "normal", slot |-> 0, orphan |-> "no"]
NoMemory  == [action |-> "none", slot |-> LastSlot + 1, kind |-> "none"]

TypeOK ==
  /\ slot \in Slots /\ plan \in [Slots -> Actions] /\ soc \in {"short", "met", "unknown"}
  /\ hw \in Values
  /\ seen \in [Registers -> {"unreadable"} \cup Settings]
  /\ shown \in Options \cup {"unknown"}
  /\ pick \in [Pickers -> Picks]
  /\ \A p \in Pickers : pick[p].next \in 1..Len(Writes(pick[p].option)) + 1
  /\ attempt \in [action : Actions, executed : Options, slot : Slots, orphan : {"yes", "no"}]
  /\ memory \in [action : Options \cup {"none", "empty"}, slot : 0..LastSlot + 1,
                 kind : {"none", "apply", "noop", "slot_stop"}]
  /\ ended \in {"none", "ok", "failed"} /\ acted \in Actions
  /\ moved \subseteq Registers /\ owned \in {"yes", "no"}
  /\ applied \in {"override", "normal", "nothing"}
  /\ edits \in 0..MaxEdits /\ hands \in 0..MaxHands /\ faults \in 0..MaxFaults

Init ==
  /\ slot = 0 /\ plan = [s \in Slots |-> "empty"] /\ soc = "short"
  /\ hw \in {v \in Values : IF Start = "foreign" THEN v.use = "backup" ELSE Holds(v, Start)}
  /\ seen = hw
  /\ shown = IF Start = "foreign" THEN "unknown" ELSE Start
  /\ pick = [p \in Pickers |-> NoPick]
  /\ attempt = NoAttempt /\ memory = NoMemory
  /\ ended = "none" /\ acted = "empty"
  /\ moved = {} /\ owned = "no" /\ applied = "nothing"
  /\ edits = 0 /\ hands = 0 /\ faults = 0
-----------------------------------------------------------------------------
(* What the executor decides from. *)

(* resolve_executed_schedule_action *)
Resolve(action) ==
  CASE action = "charge_to_target_soc" /\ soc = "met"    -> "stop_discharging"
    [] action = "discharge_to_target_soc" /\ soc = "met" -> "stop_charging"
    [] OTHER                                             -> action

Wanted(action) == IF action = "empty" THEN "normal" ELSE Resolve(action)

(* Faulty variant: the option shown is taken for the hardware's. *)
NeverDrifted(option) == FALSE

(* drifted_writes: a register that reads off target; unreadable is not drift. *)
Drifted(option) == \E w \in WritesOf(option) : seen[w[1]] \notin {w[2], "unreadable"}

(* Faulty variant: an override of this very slot is taken for its stop. *)
CachedWhatever == memory.slot = slot

(* _empty_inverter_action_requires_slot_stop; build_cached_empty_runtime *)
RequiresStop == memory.kind # "noop" /\ memory.action \notin {"none", "empty", "normal"}
Cached       == memory.slot = slot /\ memory.kind \in {"slot_stop", "noop"}

ToDo(action) == action # "empty" \/ (~Cached /\ RequiresStop)
-----------------------------------------------------------------------------
(* How an attempt ends. *)

(* Recorded in the runtime the attempt began with, dropped meanwhile or not. *)
Recorded(executed, orphan) ==
  /\ applied' = IF orphan = "yes" THEN applied
                ELSE IF executed = "normal" THEN "normal" ELSE "override"
  /\ owned' = IF executed = "normal" THEN "no"
              ELSE IF orphan = "yes" THEN owned ELSE "yes"

(* Faulty variant: only an apply is remembered, not the stop of an override. *)
SucceedForgetsStops(action, executed, at, orphan) ==
  /\ ended' = "ok" /\ acted' = action
  /\ memory' = IF orphan = "yes" \/ action = "empty" THEN memory
               ELSE [action |-> executed, slot |-> at, kind |-> "apply"]
  /\ Recorded(executed, orphan)

Succeed(action, executed, at, orphan) ==
  /\ ended' = "ok" /\ acted' = action
  /\ memory' = IF orphan = "yes" THEN memory
               ELSE [action |-> executed, slot |-> at,
                     kind |-> IF action = "empty" THEN "slot_stop" ELSE "apply"]
  /\ Recorded(executed, orphan)

Fail(action) == ended' = "failed" /\ acted' = action /\ UNCHANGED <<memory, applied>>

(* The attempt whose call this pick was, if it was one. *)
AttemptSucceeds(p) ==
  IF p = "executor" THEN Succeed(attempt.action, attempt.executed, attempt.slot, attempt.orphan)
  ELSE UNCHANGED <<ended, acted, memory, applied, owned>>

AttemptFails(p) ==
  IF p = "executor" THEN Fail(attempt.action) ELSE UNCHANGED <<ended, acted, memory, applied>>
-----------------------------------------------------------------------------
(* async_reconcile, up to the service call. *)

Idle == pick["executor"].at = "none"

LeaveEmpty ==                           \* nothing scheduled, nothing to stop
  /\ Idle /\ ~ToDo(plan[slot])
  /\ ended' = "ok" /\ acted' = "empty"
  /\ memory' = IF Cached THEN memory ELSE [action |-> "empty", slot |-> slot, kind |-> "noop"]
  /\ UNCHANGED <<schedule, device, pick, attempt, applied, owned, counters>>

CannotTell ==                           \* no state of charge, or no mode to compare with
  /\ Idle /\ ToDo(plan[slot])
  /\ shown = "unknown" \/ (plan[slot] \in Targets /\ soc = "unknown")
  /\ Fail(plan[slot])
  /\ UNCHANGED <<schedule, device, pick, attempt, owned, counters>>

Able == shown # "unknown" /\ ~(plan[slot] \in Targets /\ soc = "unknown")
InMode(option) == shown = option /\ ~Drifted(option)

AlreadySo ==
  /\ Idle /\ ToDo(plan[slot]) /\ Able
  /\ InMode(Wanted(plan[slot]))
  /\ Succeed(plan[slot], Wanted(plan[slot]), slot, "no")
  /\ UNCHANGED <<schedule, device, pick, attempt, counters>>

Asked(option) == [at |-> "waiting", option |-> option, next |-> 1, done |-> {}]

CallSelect ==
  /\ Idle /\ ToDo(plan[slot]) /\ Able
  /\ ~InMode(Wanted(plan[slot]))
  /\ attempt' = [action |-> plan[slot], executed |-> Wanted(plan[slot]), slot |-> slot, orphan |-> "no"]
  /\ pick' = [pick EXCEPT !["executor"] = Asked(Wanted(plan[slot]))]
  /\ UNCHANGED <<schedule, device, memory, ended, acted, applied, owned, counters>>
-----------------------------------------------------------------------------
(* async_select_option of the select, for whoever picks. *)

Holder(p) == pick[p].at \in {"writing", "calling"}
Write(p)  == Writes(pick[p].option)[pick[p].next]
More(p)   == pick[p].next <= Len(Writes(pick[p].option))
Repick(p) == pick[p].option = shown

(* Faulty variant: the lock is not waited for. *)
TakeLockAnyway(p) ==
  /\ pick[p].at = "waiting"
  /\ IF InMode(pick[p].option)
       THEN pick' = [pick EXCEPT ![p] = NoPick] /\ AttemptSucceeds(p)
       ELSE pick' = [pick EXCEPT ![p].at = "writing"] /\ UNCHANGED <<ended, acted, memory, applied, owned>>
  /\ UNCHANGED <<schedule, device, attempt, counters>>

(* An option shown already, with no register drifted, is done at once. *)
TakeLock(p) ==
  /\ pick[p].at = "waiting"
  /\ \A q \in Pickers : ~Holder(q)
  /\ IF InMode(pick[p].option)
       THEN pick' = [pick EXCEPT ![p] = NoPick] /\ AttemptSucceeds(p)
       ELSE pick' = [pick EXCEPT ![p].at = "writing"] /\ UNCHANGED <<ended, acted, memory, applied, owned>>
  /\ UNCHANGED <<schedule, device, attempt, counters>>

(* Checked right before each write: in target already, or, of an option that *)
(* is only re-applied, unreadable.                                           *)
ToSkip(p) ==
  \/ seen[Write(p)[1]] = Write(p)[2]
  \/ Repick(p) /\ seen[Write(p)[1]] = "unreadable"

Skipped(p) == moved' = IF hw[Write(p)[1]] = Write(p)[2] THEN moved ELSE moved \cup {Write(p)[1]}

(* Faulty variant: the write after a register that is in place is lost. *)
SkipWriteAndNext(p) ==
  /\ pick[p].at = "writing" /\ More(p) /\ ToSkip(p)
  /\ pick' = [pick EXCEPT ![p].next = @ + 2]
  /\ Skipped(p)
  /\ UNCHANGED <<schedule, hw, seen, shown, executor, counters>>

SkipWrite(p) ==
  /\ pick[p].at = "writing" /\ More(p) /\ ToSkip(p)
  /\ pick' = [pick EXCEPT ![p].next = @ + 1]
  /\ Skipped(p)
  /\ UNCHANGED <<schedule, hw, seen, shown, executor, counters>>

IssueWrite(p) ==
  /\ pick[p].at = "writing" /\ More(p) /\ ~ToSkip(p)
  /\ pick' = [pick EXCEPT ![p].at = "calling"]
  /\ UNCHANGED <<schedule, device, executor, counters>>

(* The register takes the value.  Going to Manual Mode resets the manual mode. *)
ToManual(r, value) == r = "use" /\ value = "manual" /\ hw.use # "manual"

TakesEffect(p) ==
  LET r == Write(p)[1]  value == Write(p)[2] IN
  /\ \E reset \in IF ToManual(r, value) THEN {"hold", "charge", "discharge"} ELSE {hw.manual} :
       hw' = [[hw EXCEPT !.manual = reset] EXCEPT ![r] = value]
  /\ owned' = IF p = "user" THEN "no" ELSE owned

ResetBy(p) == {m \in {"manual"} : ToManual(Write(p)[1], Write(p)[2])}

WriteAnswers(p) ==
  /\ pick[p].at = "calling"
  /\ TakesEffect(p)
  /\ moved' = (moved \ {Write(p)[1]}) \cup ResetBy(p)
  /\ seen' \in {seen, [seen EXCEPT ![Write(p)[1]] = Write(p)[2]]}
  /\ pick' = [pick EXCEPT ![p].at = "writing", ![p].next = @ + 1, ![p].done = @ \cup {Write(p)[1]}]
  /\ UNCHANGED <<schedule, shown, attempt, memory, ended, acted, applied, counters>>

PickEnds(p) ==
  /\ pick[p].at = "writing" /\ ~More(p)
  /\ shown' = pick[p].option
  /\ pick' = [pick EXCEPT ![p] = NoPick]
  /\ AttemptSucceeds(p)
  /\ UNCHANGED <<schedule, hw, seen, moved, attempt, counters>>

(* What an abandoned pick wrote is not of the option that stays shown. *)
Abandoned(p) == IF Repick(p) THEN {} ELSE pick[p].done

(* A write fails, with or without effect, or the executor's call times out. *)
WriteFails(p) ==
  /\ pick[p].at = "calling"
  /\ faults < MaxFaults /\ faults' = faults + 1
  /\ \/ /\ "refused" \in Faults
        /\ moved' = moved \cup Abandoned(p)
        /\ UNCHANGED <<hw, owned>>
     \/ /\ "unanswered" \in Faults
        /\ TakesEffect(p)
        /\ moved' = moved \cup Abandoned(p) \cup {Write(p)[1]} \cup ResetBy(p)
  /\ pick' = [pick EXCEPT ![p] = NoPick]
  /\ AttemptFails(p)
  /\ UNCHANGED <<schedule, seen, shown, attempt, edits, hands>>

CallTimesOut ==                         \* while it waits for the user's pick
  /\ pick["executor"].at = "waiting" /\ Holder("user")
  /\ faults < MaxFaults /\ faults' = faults + 1
  /\ pick' = [pick EXCEPT !["executor"] = NoPick]
  /\ AttemptFails("executor")
  /\ UNCHANGED <<schedule, device, attempt, owned, edits, hands>>
-----------------------------------------------------------------------------
(* Around it: time, the plan, the battery, the user, the inverter itself. *)

Poll ==                                 \* Home Assistant reads the registers
  /\ seen # hw /\ seen' = hw
  /\ UNCHANGED <<schedule, hw, shown, moved, pick, executor, counters>>

Advance ==
  /\ slot < LastSlot /\ slot' = slot + 1
  /\ UNCHANGED <<plan, soc, device, pick, executor, counters>>

Edit ==
  /\ edits < MaxEdits /\ edits' = edits + 1
  /\ \/ /\ \E s \in slot..LastSlot, a \in Actions : plan[s] # a /\ plan' = [plan EXCEPT ![s] = a]
        /\ UNCHANGED soc
     \/ soc' \in {"short", "met", "unknown"} \ {soc} /\ UNCHANGED plan
  /\ UNCHANGED <<slot, device, pick, executor, hands, faults>>

Hand(kind) == kind \in Hands /\ hands < MaxHands /\ hands' = hands + 1

UserPicks ==
  /\ Hand("picks")
  /\ pick["user"].at = "none"
  /\ \E option \in Kinds \cup {"normal"} :
       pick' = [pick EXCEPT !["user"] = Asked(option)]
  /\ UNCHANGED <<schedule, device, executor, edits, faults>>

Drift ==                                \* the inverter leaves the mode on its own
  /\ Hand("drift")
  /\ \E r \in Registers, v \in Values :
       /\ v[r] # hw[r]
       /\ hw' = [hw EXCEPT ![r] = v[r]]
       /\ moved' = moved \cup {r}
  /\ UNCHANGED <<schedule, seen, shown, pick, executor, edits, faults>>

LinkDrops ==
  /\ Hand("link")
  /\ \E r \in Registers : seen[r] # "unreadable" /\ seen' = [seen EXCEPT ![r] = "unreadable"]
  /\ UNCHANGED <<schedule, hw, shown, moved, pick, executor, edits, faults>>

(* Home Assistant restarts: the select restores its option, or, if it never *)
(* had one, takes one the registers match.                                  *)
Restart ==
  /\ Hand("restart")
  /\ pick' = [p \in Pickers |-> NoPick]
  /\ moved' = moved \cup UNION {Abandoned(p) : p \in {q \in Pickers : Holder(q)}}
  /\ shown' = IF shown = "unknown" /\ \E o \in Options : Holds(seen, o)
              THEN CHOOSE o \in Options : Holds(seen, o) ELSE shown
  /\ attempt' = NoAttempt /\ memory' = NoMemory
  /\ ended' = "none" /\ acted' = "empty" /\ applied' = "nothing" /\ owned' = "no"
  /\ UNCHANGED <<schedule, hw, seen, edits, faults>>

(* Execution is switched off and on again: reset_runtime gives the executor *)
(* a new InverterExecutor; an attempt under way keeps the old one.          *)
OffAndOn ==
  /\ Hand("off")
  /\ memory' = NoMemory
  /\ attempt' = IF Idle THEN attempt ELSE [attempt EXCEPT !.orphan = "yes"]
  /\ ended' = "none" /\ acted' = "empty" /\ applied' = "nothing" /\ owned' = "no"
  /\ UNCHANGED <<schedule, hw, seen, shown, moved, pick, edits, faults>>

Reconcile == LeaveEmpty \/ CannotTell \/ AlreadySo \/ CallSelect
Pick(p)   == TakeLock(p) \/ SkipWrite(p) \/ IssueWrite(p) \/ WriteAnswers(p) \/ PickEnds(p)

Next ==
  \/ Reconcile
  \/ \E p \in Pickers : Pick(p) \/ WriteFails(p)
  \/ CallTimesOut
  \/ Poll \/ Advance \/ Edit
  \/ UserPicks \/ Drift \/ LinkDrops \/ Restart \/ OffAndOn

Spec == Init /\ [][Next]_vars

(* The executor ticks every 30 s, a vendor write ends within 30 s, and Home *)
(* Assistant polls the inverter all the time.                               *)
FairSpec == Spec /\ WF_vars(Reconcile) /\ WF_vars(Poll) /\ \A p \in Pickers : WF_vars(Pick(p))
-----------------------------------------------------------------------------
(* What the schedule and the select may count on. *)

(* While nobody picks, the registers are those of the one option shown, but *)
(* for those that something else has moved since: the picks of the executor *)
(* and of the user never leave a mix of two options.                        *)
ShownIsOneOption ==
  shown # "unknown" /\ (\A p \in Pickers : ~Holder(p)) =>
    \A w \in WritesOf(shown) : hw[w[1]] = w[2] \/ w[1] \in moved

(* A mode chosen by hand while nothing is scheduled is left alone: an empty *)
(* slot moves the inverter only out of an override that Helman applied and  *)
(* has not put back since.                                                  *)
OnlyOwnOverridesStopped ==
  [][Idle /\ pick'["executor"].at = "waiting" /\ plan[slot] = "empty" => applied = "override"]_vars

(* An empty slot follows an override: once a reconcile of it has reported   *)
(* success, no override that Helman recorded is in force any more, however  *)
(* picks by hand, drift and failures fell in between.                       *)
NoOverrideLeft ==
  Idle /\ ended = "ok" /\ acted = "empty" => owned = "no"

(* The state is of its type; what is shown and what is recorded agree with *)
(* the registers.                                                          *)
InverterInvariant == TypeOK /\ ShownIsOneOption /\ NoOverrideLeft

(* Once the plan, the battery and all hands come to rest, the registers come *)
(* to hold what the slot asks for, and go on holding it.                     *)
Settled ==
  \/ plan[slot] = "empty"
  \/ plan[slot] \in Targets /\ soc = "unknown"
  \/ Holds(hw, Wanted(plan[slot]))
Converges == <>[]Settled
=============================================================================
