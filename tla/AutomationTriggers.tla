------------------------- MODULE AutomationTriggers -------------------------
(***************************************************************************)
(* AutomationTriggerCoordinator (automation/triggers.py): the single door  *)
(* to automation runs.  Requests arrive as "immediate" (a user edit, the   *)
(* execution switch) or "debounced" (a forecast rebuild, drift seen by the *)
(* executor); at most one run is active, and whatever arrives meanwhile    *)
(* collapses into one follow-up request.                                   *)
(*                                                                         *)
(* Everything happens on one asyncio event loop.  No critical section of   *)
(* the coordinator's lock awaits anything, so each is one action here; the *)
(* suspension points are the debounce sleep, the run callback and the lock *)
(* acquisition after the callback (phase "ended").  Home Assistant starts  *)
(* a task eagerly, so a run may even return while its creator still holds  *)
(* the lock: it then waits in phase "ended" like any other.                *)
(*                                                                         *)
(* A request is its arrival number; a task is named by the request that    *)
(* started it, since a request starts at most one run task and at most one *)
(* debounce task.                                                          *)
(***************************************************************************)
EXTENDS Naturals

CONSTANT MaxRequests    \* bound: how many requests one behaviour may make

ASSUME MaxRequestsAssumption == MaxRequests \in Nat \ {0}

Requests == 1..MaxRequests
None     == 0                       \* Python's None in a request or task field
Phases   == {"idle", "running", "ended", "cancelled", "over"}

VARIABLES
  made,           \* requests made so far, accepted or not
  pending,        \* self._pending_request
  followUp,       \* self._follow_up_request
  debounceTask,   \* self._debounce_task
  activeRun,      \* self._active_run_task
  sleeping,       \* debounce tasks that will still wake up and dispatch
  phase,          \* what each run task is doing
  serving,        \* the request each run task hands (or last handed) to the callback
  shutdown,       \* self._closed and async_shutdown: "open", "joining" its tasks, "down"
  accepted,       \* history: the newest request accepted
  handed          \* history: the newest request handed to the callback

runVars == <<phase, serving, activeRun, handed>>
vars    == <<made, pending, followUp, debounceTask, sleeping, shutdown,
             accepted, runVars>>

TypeOK ==
  /\ made \in 0..MaxRequests
  /\ pending \in 0..MaxRequests
  /\ followUp \in 0..MaxRequests
  /\ debounceTask \in 0..MaxRequests
  /\ activeRun \in 0..MaxRequests
  /\ sleeping \in SUBSET Requests
  /\ phase \in [Requests -> Phases]
  /\ serving \in [Requests -> 0..MaxRequests]
  /\ shutdown \in {"open", "joining", "down"}
  /\ accepted \in 0..MaxRequests
  /\ handed \in 0..MaxRequests

Init ==
  /\ made = 0
  /\ pending = None /\ followUp = None
  /\ debounceTask = None /\ activeRun = None
  /\ sleeping = {}
  /\ phase = [t \in Requests |-> "idle"]
  /\ serving = [t \in Requests |-> None]
  /\ shutdown = "open"
  /\ accepted = 0 /\ handed = 0
-----------------------------------------------------------------------------
Closed == shutdown # "open"

(* The two private helpers. *)

CancelDebounce ==
  /\ sleeping' = sleeping \ {debounceTask}
  /\ debounceTask' = None

StartRun(r) ==
  /\ activeRun' = r
  /\ phase' = [phase EXCEPT ![r] = "running"]
  /\ serving' = [serving EXCEPT ![r] = r]
  /\ handed' = r

(* Faulty variants, here and below: plausible bugs the properties must catch. *)
(* Here: the run test is forgotten.                                          *)
AcceptImmediateAlwaysStarts(r) ==
  CancelDebounce /\ pending' = None /\ StartRun(r) /\ UNCHANGED followUp

(* Faulty: an immediate request leaves the debounced one it overtakes. *)
AcceptImmediateKeepsDebounce(r) ==
  /\ IF activeRun = None
       THEN StartRun(r) /\ UNCHANGED followUp
       ELSE followUp' = r /\ UNCHANGED runVars
  /\ UNCHANGED <<pending, debounceTask, sleeping>>

(* What request r means to a coordinator whose run is (or is not) active. *)
AcceptImmediate(r) ==
  /\ CancelDebounce
  /\ pending' = None
  /\ IF activeRun = None
       THEN StartRun(r) /\ UNCHANGED followUp
       ELSE followUp' = r /\ UNCHANGED runVars

AcceptDebounced(r) ==
  IF activeRun # None
    THEN /\ CancelDebounce
         /\ pending' = None
         /\ followUp' = r
         /\ UNCHANGED runVars
    ELSE /\ pending' = r
         /\ IF debounceTask = None
              THEN debounceTask' = r /\ sleeping' = sleeping \cup {r}
              ELSE UNCHANGED <<debounceTask, sleeping>>
         /\ UNCHANGED <<followUp, runVars>>

Ignored == UNCHANGED <<pending, followUp, debounceTask, sleeping, accepted, runVars>>

RequestImmediate ==
  /\ made < MaxRequests
  /\ made' = made + 1
  /\ \/ Closed /\ Ignored
     \/ ~Closed /\ accepted' = made + 1 /\ AcceptImmediate(made + 1)
  /\ UNCHANGED shutdown

RequestDebounced ==
  /\ made < MaxRequests
  /\ made' = made + 1
  /\ \/ Closed /\ Ignored
     \/ ~Closed /\ accepted' = made + 1 /\ AcceptDebounced(made + 1)
  /\ UNCHANGED shutdown

(* The debounce task wakes.  Its branches for a closed coordinator, a lost *)
(* pending request and an active run are kept; DebounceOnlyWhenIdle says   *)
(* that none of them is ever taken.                                        *)
DebounceDispatch(t) ==
  /\ t \in sleeping
  /\ sleeping' = sleeping \ {t}
  /\ debounceTask' = None
  /\ pending' = None
  /\ IF Closed \/ pending = None
       THEN UNCHANGED <<followUp, runVars>>
       ELSE IF activeRun = None
              THEN StartRun(pending) /\ UNCHANGED followUp
              ELSE followUp' = pending /\ UNCHANGED runVars
  /\ UNCHANGED <<made, shutdown, accepted>>

(* The callback returns or raises: the loop treats both alike. *)
CallbackReturns(t) ==
  /\ phase[t] = "running"
  /\ phase' = [phase EXCEPT ![t] = "ended"]
  /\ UNCHANGED <<made, pending, followUp, debounceTask, sleeping,
                 shutdown, accepted, serving, activeRun, handed>>

(* Faulty: the loop stops without looking at the follow-up. *)
TakeFollowUpForgets(t) ==
  /\ phase[t] = "ended"
  /\ activeRun' = None
  /\ phase' = [phase EXCEPT ![t] = "over"]
  /\ followUp' = None
  /\ UNCHANGED <<made, pending, debounceTask, sleeping, shutdown,
                 accepted, serving, handed>>

(* The end of one turn of _async_run_loop, under the lock. *)
TakeFollowUp(t) ==
  /\ phase[t] = "ended"
  /\ IF followUp = None
       THEN /\ activeRun' = None
            /\ phase' = [phase EXCEPT ![t] = "over"]
            /\ UNCHANGED <<followUp, serving, handed>>
       ELSE /\ followUp' = None
            /\ phase' = [phase EXCEPT ![t] = "running"]
            /\ serving' = [serving EXCEPT ![t] = followUp]
            /\ handed' = followUp
            /\ UNCHANGED activeRun
  /\ UNCHANGED <<made, pending, debounceTask, sleeping, shutdown, accepted>>

(* async_shutdown: one critical section, then the gather. *)
Shutdown ==
  /\ shutdown = "open"
  /\ shutdown' = "joining"
  /\ CancelDebounce
  /\ phase' = [t \in Requests |-> IF t = activeRun THEN "cancelled" ELSE phase[t]]
  /\ activeRun' = None
  /\ pending' = None
  /\ followUp' = None
  /\ UNCHANGED <<made, accepted, serving, handed>>

(* A cancelled run unwinds. *)
RunUnwinds(t) ==
  /\ phase[t] = "cancelled"
  /\ phase' = [phase EXCEPT ![t] = "over"]
  /\ UNCHANGED <<made, pending, followUp, debounceTask, sleeping,
                 shutdown, accepted, serving, activeRun, handed>>

(* Faulty: shutdown does not wait for what it cancelled. *)
ShutdownReturnsAtOnce ==
  /\ shutdown = "joining"
  /\ shutdown' = "down"
  /\ UNCHANGED <<made, pending, followUp, debounceTask, sleeping,
                 accepted, runVars>>

ShutdownReturns ==
  /\ shutdown = "joining"
  /\ \A t \in Requests : phase[t] # "cancelled"
  /\ shutdown' = "down"
  /\ UNCHANGED <<made, pending, followUp, debounceTask, sleeping,
                 accepted, runVars>>

Next ==
  \/ RequestImmediate
  \/ RequestDebounced
  \/ Shutdown
  \/ ShutdownReturns
  \/ \E t \in Requests :
       DebounceDispatch(t) \/ CallbackReturns(t) \/ TakeFollowUp(t) \/ RunUnwinds(t)

Spec == Init /\ [][Next]_vars

(* The event loop runs every task that is ready; the callback, an          *)
(* automation run, always comes back.  Nobody owes the coordinator another *)
(* request or a shutdown.                                                  *)
Fairness ==
  /\ \A t \in Requests : /\ WF_vars(DebounceDispatch(t))
                         /\ WF_vars(CallbackReturns(t))
                         /\ WF_vars(TakeFollowUp(t))
                         /\ WF_vars(RunUnwinds(t))
  /\ WF_vars(ShutdownReturns)

FairSpec == Spec /\ Fairness
-----------------------------------------------------------------------------
(* Two automation runs are never alive at once, a cancelled one that is    *)
(* still unwinding included: a run holds the schedule lock and re-plans    *)
(* from nothing, so a second one would race it.                            *)
OneRunAtATime ==
  \A s, t \in Requests :
    /\ phase[s] \in {"running", "ended", "cancelled"}
    /\ phase[t] \in {"running", "ended", "cancelled"}
    => s = t

(* Until shutdown the newest accepted request is never lost: it has been   *)
(* handed to a run, or it is pending with a debounce task that will        *)
(* dispatch it, or it is the follow-up of a run loop that will take it.    *)
NewestRequestKept ==
  ~Closed =>
    \/ handed = accepted
    \/ pending = accepted /\ debounceTask \in sleeping
    \/ /\ followUp = accepted
       /\ activeRun # None
       /\ phase[activeRun] \in {"running", "ended"}

(* A debounce task that is still due finds an open, idle coordinator and   *)
(* the request it is due for; there is never a second such task.           *)
DebounceOnlyWhenIdle ==
  \A t \in sleeping :
    t = debounceTask /\ pending # None /\ activeRun = None /\ ~Closed

(* Requests reach the callback in the order they were accepted and none    *)
(* twice, so a superseded request never runs after the one that replaced   *)
(* it; and nothing is handed over once the coordinator is closed.          *)
RunsOnlyNewer ==
  [][\A t \in Requests :
       (phase'[t] = "running" /\ phase[t] # "running")
         => handed < serving'[t] /\ ~Closed]_vars

(* When async_shutdown has returned nothing it owns can act any more.      *)
QuietWhenDown ==
  shutdown = "down" =>
    sleeping = {} /\ \A t \in Requests : phase[t] \in {"idle", "over"}

(* Every accepted request is followed by a run that begins after it,       *)
(* handed that request or a newer one -- unless the coordinator shuts down.*)
RequestServed ==
  \A r \in Requests : (accepted = r) ~> (handed >= r \/ Closed)
-----------------------------------------------------------------------------
(* The request that waits is the pending or the follow-up one; the one in *)
(* service is that of the active run loop, until the loop has decided what *)
(* comes next.                                                             *)
Promise == INSTANCE LatestRequest WITH
  newest  <- accepted,
  owed    <- IF pending # None THEN pending ELSE followUp,
  current <- IF activeRun = None THEN 0 ELSE serving[activeRun],
  open    <- ~Closed

(* The coordinator implements LatestRequest, its fairness included: of the  *)
(* accepted requests the newest is never lost, and is served in the end.    *)
ImplementsLatestRequest == Promise!FairSpec
=============================================================================
