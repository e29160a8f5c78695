------------------------- MODULE ApplianceExecution -------------------------
(***************************************************************************)
(* How a schedule slot is made true on one appliance: ApplianceExecutor    *)
(* (appliances/execution.py) with its memory, and the drivers behind it    *)
(* (appliances/drivers.py).                                                *)
(*                                                                         *)
(* A reconcile decides once, from the slot's action and the memory, and    *)
(* then makes the driver's service calls one after another; the plan, the  *)
(* slot, the appliance and its owner go on meanwhile.                      *)
(*                                                                         *)
(* An action is "none" (nothing scheduled), "idle" (be off) or a mode to   *)
(* run in, which is also its signature.  Two kinds of driver are modelled: *)
(*   "single"  one call sets everything (switched and climate appliances)  *)
(*   "ev"      a charger: turned on, waited for, then its mode selected    *)
(*             (the use mode and the eco gear are one select here)         *)
(***************************************************************************)
EXTENDS Integers, FiniteSetsExt

CONSTANTS
  Drivers,          \* the kinds of driver the appliance may have: "single", "ev"
  Modes,            \* the modes an action may ask for
  LastSlot,         \* bound: slots are 0..LastSlot
  MaxEdits,         \* bound: edits of the plan
  MaxHands,         \* bound: changes made by hand, or by the appliance itself
  MaxFaults,        \* bound: service calls that fail
  Faults            \* how one fails: "refused" (without effect), "unanswered" (it took
                    \* effect, but times out or its answer is an error)

ASSUME DriversAssumption == Drivers \subseteq {"single", "ev"}
ASSUME ModesAssumption  == {"none", "idle"} \cap Modes = {}
ASSUME FaultsAssumption == Faults \subseteq {"refused", "unanswered"}
ASSUME BoundsAssumption == LastSlot \in Nat /\ MaxEdits \in Nat /\ MaxHands \in Nat /\ MaxFaults \in Nat

VARIABLES
  driver,           \* the appliance's kind of driver; it never changes
  slot,             \* the slot that covers now
  plan,             \* the committed action of every stored slot
  charge, mode,     \* the appliance: its switch, its mode
  limit,            \* the vehicle's charge limit, as far as it ever changes
  order,            \* "on" while the charger was told to start and has not yet
  memory,           \* ApplianceExecutionMemory; NoMemory for None
  pc,               \* the attempt: "idle", or the call it waits for
  act, at,          \* the action and slot the attempt was decided from
  ended             \* how the last attempt ended: "ok", "failed", "refused"

(* History, read by the properties only, and the bounds' counters. *)
VARIABLES
  owned,            \* whose doing it is that the appliance runs: "yes" Helman's since
                    \* it last started, "no" anybody else's
  touched,          \* "yes" once it changed otherwise after Helman's last
                    \* successful apply; "before" while a new one is under way
  run,              \* what Helman last did successfully: "started", "stopped", "nothing"
  failing,          \* "yes" since an attempt failed that the memory knows nothing of
  refused,          \* the fingerprint the last start was refused at, while it counts
  edits, hands, faults

world         == <<charge, mode, limit, order>>
attempt       == <<pc, act, at, ended>>
history       == <<owned, touched, run, failing, refused>>
counters      == <<edits, hands, faults>>
applianceVars == <<driver, slot, plan, world, memory, attempt, history, counters>>

Slots      == 0..LastSlot
Actions    == {"none", "idle"} \cup Modes
Runs(a)    == a \in Modes                         \* is_*_action_running
NoLatch    == <<>>
NoMemory   == [slot |-> -1, sig |-> "none", enabled |-> "no", kind |-> "none", latch |-> NoLatch]
YesNo(p)   == IF p THEN "yes" ELSE "no"
ChargeStates == {"on", "off", "unavailable"}
Latches    == {NoLatch} \cup (Modes \X {"off", "unavailable"} \X {0, 1})

ApplianceTypeOK ==
  /\ driver \in Drivers
  /\ slot \in Slots /\ plan \in [Slots -> Actions]
  /\ charge \in ChargeStates /\ mode \in Modes
  /\ limit \in {0, 1} /\ order \in {"on", "none"}
  /\ memory \in [slot : Slots \cup {-1}, sig : Actions, enabled : {"yes", "no"},
                 kind : {"none", "noop", "apply", "slot_stop"}, latch : Latches]
  /\ pc \in {"idle", "turnOn", "wait", "select", "set", "turnOff"}
  /\ act \in Actions /\ at \in Slots
  /\ ended \in {"none", "ok", "failed", "refused"}
  /\ owned \in {"yes", "no"} /\ touched \in {"no", "before", "yes"}
  /\ run \in {"nothing", "started", "stopped"} /\ failing \in {"yes", "no"} /\ refused \in Latches
  /\ edits \in 0..MaxEdits /\ hands \in 0..MaxHands /\ faults \in 0..MaxFaults

ApplianceInit ==
  /\ driver \in Drivers
  /\ slot = 0 /\ plan = [s \in Slots |-> "none"]
  /\ charge \in {"on", "off"} /\ mode \in Modes
  /\ limit = 0 /\ order = "none"
  /\ memory = NoMemory
  /\ pc = "idle" /\ act = "none" /\ at = 0 /\ ended = "none"
  /\ owned = "no" /\ touched = "no" /\ run = "nothing" /\ failing = "no" /\ refused = NoLatch
  /\ edits = 0 /\ hands = 0 /\ faults = 0
-----------------------------------------------------------------------------
(* What the decision is made from. *)

(* The executor works from the pruned document: slots that ended are gone. *)
Pruned == [s \in Slots |-> IF s + 1 > slot THEN plan[s] ELSE "none"]

(* _build_last_scheduled_appliance_actions: the last action up to now. *)
LastScheduled ==
  LET past == {s \in 0..slot : Pruned[s] # "none"}
  IN  IF past = {} THEN "none" ELSE Pruned[Max(past)]

(* Faulty variant: a charger that is on is fingerprinted like any other. *)
FingerprintEvenOn(a) ==
  IF driver = "ev" THEN <<a, charge, limit>> ELSE NoLatch

(* acceptance_fingerprint: only a charger that is not on has one. *)
Fingerprint(a) ==
  IF driver = "ev" /\ charge # "on" THEN <<a, charge, limit>> ELSE NoLatch

(* Faulty variant: an appliance that was switched off last is stopped too. *)
NothingToStopOnce ==
  \/ memory.slot = slot /\ memory.kind = "slot_stop"
  \/ memory = NoMemory /\ ~Runs(LastScheduled)

(* The slot asks for nothing, and nothing of Helman's is left to stop. *)
NothingToStop ==
  \/ memory.slot = slot /\ memory.kind = "slot_stop"
  \/ memory # NoMemory /\ memory.enabled = "no"
  \/ memory = NoMemory /\ ~Runs(LastScheduled)

Applied(a) == memory.slot = slot /\ memory.sig = a

(* Faulty variants: the latch ends with its slot; it holds for any action. *)
LatchedInSlot(a) == memory.slot = slot /\ memory.latch # NoLatch /\ memory.latch = Fingerprint(a)
LatchedForAll(a) == memory.latch # NoLatch

Latched(a) == memory.latch # NoLatch /\ memory.latch = Fingerprint(a)

(* What the driver is to do: go to rest, or run in a mode. *)
AtRest(a)  == ~Runs(a) /\ charge = "off"
InMode(a)  == Runs(a) /\ charge = "on" /\ mode = a
-----------------------------------------------------------------------------
(* How an attempt ends. *)

Remember(a, kind) ==
  [slot |-> at', sig |-> a, enabled |-> YesNo(Runs(a)), kind |-> kind, latch |-> NoLatch]

Succeed ==
  /\ pc' = "idle" /\ ended' = "ok"
  /\ memory' = Remember(act', IF act' = "none" THEN "slot_stop" ELSE "apply")
  /\ touched' = IF touched = "before" \/ pc = "idle" THEN "no" ELSE touched
  /\ run' = IF Runs(act') THEN "started" ELSE "stopped"
  /\ failing' = "no" /\ refused' = NoLatch

(* Faulty variant: a failed apply is remembered as done. *)
FailRemembers ==
  /\ pc' = "idle" /\ ended' = "failed"
  /\ memory' = Remember(act', "apply")
  /\ touched' = IF touched = "before" THEN "yes" ELSE touched
  /\ failing' = "yes" /\ refused' = NoLatch
  /\ UNCHANGED run

(* Memory keeps what was last applied; a start's failure drops the latch. *)
Fail ==
  /\ pc' = "idle" /\ ended' = "failed"
  /\ memory' = IF act' = "none" THEN memory ELSE [memory EXCEPT !.latch = NoLatch]
  /\ touched' = IF touched = "before" THEN "yes" ELSE touched
  /\ failing' = "yes" /\ refused' = IF act' = "none" THEN refused ELSE NoLatch
  /\ UNCHANGED run

(* The charger did not start: latched at what it looks like by now. *)
Refuse ==
  /\ pc' = "idle" /\ ended' = "refused"
  /\ memory' = [slot |-> at, sig |-> "none", enabled |-> "yes", kind |-> "apply",
                latch |-> Fingerprint(act)]
  /\ touched' = IF touched = "before" THEN "yes" ELSE touched
  /\ run' = "started"
  /\ failing' = "no" /\ refused' = Fingerprint(act)

StartCall(call) ==
  /\ pc' = call
  /\ touched' = IF touched = "yes" THEN "before" ELSE touched
  /\ UNCHANGED <<memory, ended, run, failing, refused>>

Decide ==
  /\ pc = "idle"
  /\ plan' = Pruned
  /\ act' = plan[slot] /\ at' = slot
-----------------------------------------------------------------------------
(* The decision sequence of async_execute, up to the first service call. *)

(* Nothing to stop; the action is in force; or the start was refused and   *)
(* nothing has changed since.                                              *)
LeaveAlone ==
  /\ Decide
  /\ \/ act' = "none" /\ NothingToStop /\ ended' = "ok" /\ UNCHANGED memory
     \/ /\ act' # "none" /\ Applied(act')
        /\ ended' = "ok" /\ memory' = Remember(act', "noop")
     \/ /\ act' # "none" /\ ~Applied(act') /\ Latched(act')
        /\ ended' = "refused" /\ UNCHANGED memory
  /\ UNCHANGED <<slot, world, pc, history, counters>>

ToApply == IF act' = "none" THEN ~NothingToStop ELSE ~Applied(act') /\ ~Latched(act')

ReadFails ==                            \* the entity is unavailable
  /\ Decide /\ ToApply
  /\ charge = "unavailable"
  /\ Fail
  /\ UNCHANGED <<slot, world, owned, counters>>

AlreadySo ==                            \* nothing to call
  /\ Decide /\ ToApply
  /\ AtRest(act') \/ InMode(act')
  /\ Succeed
  /\ UNCHANGED <<slot, world, owned, counters>>

CallTurnOff ==
  /\ Decide /\ ToApply
  /\ ~Runs(act') /\ charge = "on"
  /\ StartCall("turnOff")
  /\ UNCHANGED <<slot, world, owned, counters>>

CallSet ==
  /\ driver = "single"
  /\ Decide /\ ToApply
  /\ Runs(act') /\ charge # "unavailable" /\ ~InMode(act')
  /\ StartCall("set")
  /\ UNCHANGED <<slot, world, owned, counters>>

CallTurnOn ==
  /\ driver = "ev"
  /\ Decide /\ ToApply
  /\ Runs(act') /\ charge = "off"
  /\ StartCall("turnOn")
  /\ order' = "on"
  /\ UNCHANGED <<slot, charge, mode, limit, owned, counters>>

CallSelect ==                           \* it charges already
  /\ driver = "ev"
  /\ Decide /\ ToApply
  /\ Runs(act') /\ charge = "on" /\ mode # act'
  /\ StartCall("select")
  /\ UNCHANGED <<slot, world, owned, counters>>
-----------------------------------------------------------------------------
(* The calls come back. *)

Keep == UNCHANGED <<act, at>>

(* What a call does to the appliance.  A turn-on is carried out later. *)
Effect(call) ==
  /\ charge' = IF charge = "unavailable" \/ call \notin {"set", "turnOff"} THEN charge
               ELSE IF call = "set" THEN "on" ELSE "off"
  /\ mode'   = IF call \in {"set", "select"} THEN act ELSE mode
  /\ owned'  = CASE call = "set" -> "yes" [] call = "turnOff" -> "no" [] OTHER -> owned
  /\ order'  = IF call = "turnOff" THEN "none" ELSE order

NoEffect(call) ==
  /\ order' = IF call = "turnOn" THEN "none" ELSE order
  /\ UNCHANGED <<charge, mode, owned>>

TurnedOff ==
  /\ pc = "turnOff" /\ Keep
  /\ Effect(pc) /\ Succeed
  /\ UNCHANGED <<slot, plan, limit, counters>>

SetDone ==
  /\ pc = "set" /\ Keep
  /\ Effect(pc) /\ Succeed
  /\ UNCHANGED <<slot, plan, limit, counters>>

TurnedOn ==                             \* accepted: now it has to come on
  /\ pc = "turnOn" /\ Keep
  /\ pc' = "wait"
  /\ UNCHANGED <<slot, plan, world, memory, ended, history, counters>>

(* The charger carries the order out, in its own time, which may be after *)
(* the attempt that gave it.                                              *)
ComesOn ==
  /\ order = "on" /\ charge = "off"
  /\ charge' = "on" /\ order' = "none" /\ owned' = "yes"
  /\ touched' = IF pc \in {"turnOn", "wait"} THEN touched ELSE "yes"
  /\ UNCHANGED <<slot, plan, mode, limit, memory, attempt, run, failing, refused, counters>>

SeenOn ==
  /\ pc = "wait" /\ charge = "on" /\ Keep
  /\ IF mode = act THEN Succeed
       ELSE pc' = "select" /\ UNCHANGED <<memory, ended, touched, run, failing, refused>>
  /\ UNCHANGED <<slot, plan, world, owned, counters>>

SeenUnavailable ==
  /\ pc = "wait" /\ charge = "unavailable" /\ Keep
  /\ Fail
  /\ UNCHANGED <<slot, plan, world, owned, counters>>

GiveUpWaiting ==
  /\ pc = "wait" /\ charge = "off" /\ Keep
  /\ Refuse
  /\ UNCHANGED <<slot, plan, world, owned, counters>>

Selected ==
  /\ pc = "select" /\ Keep
  /\ Effect(pc) /\ Succeed
  /\ UNCHANGED <<slot, plan, limit, counters>>

(* A call fails: the gate or the entity refuses it, or it times out.  A     *)
(* failed turn-on counts as the charger's refusal unless it was the gate's. *)
CallFails ==
  /\ faults < MaxFaults /\ faults' = faults + 1
  /\ pc \in {"turnOff", "set", "select", "turnOn"} /\ Keep
  /\ \/ Fail
     \/ pc = "turnOn" /\ Refuse
  /\ \/ "refused" \in Faults /\ NoEffect(pc)
     \/ "unanswered" \in Faults /\ Effect(pc)
  /\ UNCHANGED <<slot, plan, limit, edits, hands>>
-----------------------------------------------------------------------------
(* Around it: time, the plan, the appliance, Home Assistant. *)

Advance ==
  /\ slot < LastSlot
  /\ slot' = slot + 1
  /\ UNCHANGED <<plan, world, memory, attempt, history, counters>>

Edit(s, a) ==
  /\ edits < MaxEdits /\ edits' = edits + 1
  /\ s >= slot /\ a # plan[s]
  /\ plan' = [plan EXCEPT ![s] = a]
  /\ UNCHANGED <<slot, world, memory, attempt, history, hands, faults>>

ByHand ==
  /\ hands < MaxHands /\ hands' = hands + 1
  /\ touched' = "yes"
  /\ \/ /\ charge' \in ChargeStates \ {charge} /\ owned' = "no" /\ order' = "none"
        /\ UNCHANGED <<mode, limit>>
     \/ mode' \in Modes \ {mode} /\ UNCHANGED <<charge, limit, order, owned>>
     \/ limit' = 1 - limit /\ UNCHANGED <<charge, mode, order, owned>>
  /\ UNCHANGED <<slot, plan, memory, attempt, run, failing, refused, edits, faults>>

(* Home Assistant restarts, or execution is switched off and on again:     *)
(* the runtime and any attempt under way are gone, the document stays.     *)
Forget ==
  /\ hands < MaxHands /\ hands' = hands + 1
  /\ memory' = NoMemory
  /\ pc' = "idle" /\ ended' = "none"
  /\ owned' = "no" /\ touched' = "yes" /\ run' = "nothing"
  /\ failing' = "no" /\ refused' = NoLatch
  /\ UNCHANGED <<slot, plan, world, act, at, edits, faults>>

Reconcile ==
  \/ LeaveAlone \/ ReadFails \/ AlreadySo
  \/ CallTurnOff \/ CallSet \/ CallTurnOn \/ CallSelect

Answer ==
  \/ TurnedOff \/ SetDone \/ TurnedOn \/ SeenOn \/ SeenUnavailable \/ GiveUpWaiting
  \/ Selected \/ CallFails

ApplianceNext ==
  /\ UNCHANGED driver
  /\ \/ Reconcile \/ Answer \/ ComesOn
     \/ Advance \/ \E s \in Slots, a \in Actions : Edit(s, a)
     \/ ByHand \/ Forget

ApplianceSpec == ApplianceInit /\ [][ApplianceNext]_applianceVars

(* The executor's tick asks for a reconcile every 30 s and its calls end,  *)
(* at the latest when the actuator's timeout does.                         *)
ApplianceFairSpec ==
  /\ ApplianceSpec
  /\ WF_applianceVars(Reconcile /\ UNCHANGED driver)
  /\ WF_applianceVars(Answer /\ UNCHANGED driver)
-----------------------------------------------------------------------------
(* What the schedule may count on. *)

(* After a reconcile that reports no failure, the appliance is as the       *)
(* slot's action says, unless someone else changed it since, or the plan    *)
(* came back, behind an attempt that failed, to what is remembered from     *)
(* before it; with nothing scheduled, no run goes on that an attempt of     *)
(* Helman's carried through.                                                *)
MatchesPlan ==
  pc = "idle" /\ ended = "ok" /\ touched = "no" =>
    \/ act = "none" /\ ~(charge = "on" /\ owned = "yes" /\ run = "started")
    \/ act # "none" /\ (AtRest(act) \/ InMode(act))
    \/ act # "none" /\ failing = "yes"

(* The state is of its type, and an attempt that says so did what it was for. *)
ApplianceInvariant == ApplianceTypeOK /\ MatchesPlan

(* The same whatever became of the attempts before it, and for every run    *)
(* that a call of Helman's began.  Not kept by the code; TLC refutes it.    *)
AlwaysMatchesPlan ==
  pc = "idle" /\ ended = "ok" /\ touched = "no" =>
    \/ act = "none" /\ ~(charge = "on" /\ owned = "yes")
    \/ act # "none" /\ (AtRest(act) \/ InMode(act))

(* An empty slot never switches off an appliance that Helman has not run    *)
(* itself since it last switched it off: a run begun by hand goes on.       *)
OnlyOwnRunsStopped ==
  [][pc = "idle" /\ pc' = "turnOff" /\ act' = "none" => run = "started"]_applianceVars

(* A start the charger refused is not tried again, in this slot or a later  *)
(* one, while the action, the charger and its limits look the same.         *)
RefusedNotRetried ==
  [][pc = "idle" /\ pc' = "turnOn" => refused = NoLatch \/ refused # Fingerprint(act')]_applianceVars

(* A failed call is retried: once calls, plan and hands come to rest, the   *)
(* appliance stays as the slot says, as somebody else left it, as it was    *)
(* when it refused to start, or as an attempt that failed left it when the  *)
(* plan came back to what is remembered from before.                        *)
Settled ==
  \/ touched # "no"
  \/ refused # NoLatch /\ refused = Fingerprint(plan[slot])
  \/ AtRest(plan[slot]) \/ InMode(plan[slot])
  \/ plan[slot] = "none" /\ (owned = "no" \/ run # "started")
  \/ plan[slot] # "none" /\ failing = "yes" /\ Applied(plan[slot])
Converges == <>[]Settled
=============================================================================
