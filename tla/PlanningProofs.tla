---------------------------- MODULE PlanningProofs ----------------------------
(***************************************************************************)
(* The parts of MCPlanning, proved one after the other: the automation's   *)
(* triggers and the promise they implement, the forecast's refresh and     *)
(* pipeline, the day contexts' bands, the appliances' execution.  Last,    *)
(* what they keep together: a step of one leaves the others alone.         *)
(***************************************************************************)
EXTENDS MCPlanning, SequenceTheorems, TLAPS

-----------------------------------------------------------------------------
(***************************************************************************)
(* For any number of requests: the trigger coordinator keeps its types,    *)
(* runs one automation at a time, never loses the newest request, never    *)
(* leaves a stale debounce task behind, and implements LatestRequest.      *)
(***************************************************************************)

(* The tasks and the fields that name them agree. *)
TasksAgree ==
  /\ \A t \in sleeping : t = debounceTask
  /\ debounceTask # None => debounceTask \in sleeping
  /\ pending # None <=> debounceTask # None
  /\ pending # None => activeRun = None
  /\ followUp # None => activeRun # None
  /\ Closed => pending = None /\ activeRun = None
  /\ activeRun # None => phase[activeRun] \in {"running", "ended"}
  /\ \A t \in Requests : phase[t] \in {"running", "ended"} => t = activeRun
  /\ \A t \in Requests : phase[t] = "cancelled" => shutdown = "joining"
  /\ \A s, t \in Requests : phase[s] = "cancelled" /\ phase[t] = "cancelled" => s = t

(* The request numbers in the fields are the newest ones. *)
RequestsAgree ==
  /\ accepted <= made
  /\ handed <= accepted
  /\ pending # None => pending = accepted /\ handed < accepted
  /\ followUp # None => followUp = accepted /\ handed < accepted
  /\ ~Closed /\ pending = None /\ followUp = None => handed = accepted
  /\ activeRun # None => serving[activeRun] = handed /\ handed # None
  /\ \A t \in Requests : phase[t] # "idle" => t <= handed

IInv == TypeOK /\ TasksAgree /\ RequestsAgree
-----------------------------------------------------------------------------
(* The initial state, with no request and no task, satisfies the invariant. *)
LEMMA InitEstablishes == Init => IInv
  BY MaxRequestsAssumption
     DEF Init, IInv, TypeOK, TasksAgree, RequestsAgree, Requests, None, Phases, Closed

(* One step per action; the two halves of the invariant separately. *)
LEMMA StepKeeps == IInv /\ [Next]_vars => IInv'
<1> SUFFICES ASSUME IInv, [Next]_vars PROVE IInv'
  OBVIOUS
<1> USE MaxRequestsAssumption DEF IInv, TypeOK, Requests, None, Phases, Closed
<1>1. CASE RequestImmediate
  <2>1. CASE Closed
    <3>1. /\ UNCHANGED <<pending, followUp, debounceTask, sleeping, accepted>>
          /\ UNCHANGED <<phase, serving, activeRun, handed, shutdown>>
          /\ made' = made + 1 /\ made < MaxRequests
      BY <1>1, <2>1 DEF RequestImmediate, Ignored, runVars
    <3>2. TypeOK'         BY <3>1
    <3>3. TasksAgree'     BY <3>1 DEF TasksAgree
    <3>4. RequestsAgree'  BY <3>1 DEF RequestsAgree
    <3> QED BY <3>2, <3>3, <3>4
  <2>2. CASE ~Closed /\ activeRun = None
    <3>1. /\ sleeping' = sleeping \ {debounceTask} /\ debounceTask' = None
          /\ pending' = None /\ UNCHANGED <<followUp, shutdown>>
          /\ made' = made + 1 /\ made < MaxRequests /\ accepted' = made + 1
          /\ StartRun(made + 1)
      BY <1>1, <2>2 DEF RequestImmediate, AcceptImmediate, CancelDebounce
    <3>2. TypeOK'         BY <3>1 DEF StartRun
    <3>3. TasksAgree'     BY <2>2, <3>1 DEF StartRun, TasksAgree, RequestsAgree
    <3>4. RequestsAgree'  BY <2>2, <3>1 DEF StartRun, TasksAgree, RequestsAgree
    <3> QED BY <3>2, <3>3, <3>4
  <2>3. CASE ~Closed /\ activeRun # None
    <3>1. /\ sleeping' = sleeping \ {debounceTask} /\ debounceTask' = None
          /\ pending' = None /\ followUp' = made + 1 /\ UNCHANGED shutdown
          /\ made' = made + 1 /\ made < MaxRequests /\ accepted' = made + 1
          /\ UNCHANGED <<phase, serving, activeRun, handed>>
      BY <1>1, <2>3 DEF RequestImmediate, AcceptImmediate, CancelDebounce, runVars
    <3>2. TypeOK'         BY <3>1
    <3>3. TasksAgree'     BY <2>3, <3>1 DEF TasksAgree
    <3>4. RequestsAgree'  BY <2>3, <3>1 DEF TasksAgree, RequestsAgree
    <3> QED BY <3>2, <3>3, <3>4
  <2> QED BY <2>1, <2>2, <2>3
<1>2. CASE RequestDebounced
  <2>1. CASE Closed
    <3>1. /\ UNCHANGED <<pending, followUp, debounceTask, sleeping, accepted>>
          /\ UNCHANGED <<phase, serving, activeRun, handed, shutdown>>
          /\ made' = made + 1 /\ made < MaxRequests
      BY <1>2, <2>1 DEF RequestDebounced, Ignored, runVars
    <3>2. TypeOK'         BY <3>1
    <3>3. TasksAgree'     BY <3>1 DEF TasksAgree
    <3>4. RequestsAgree'  BY <3>1 DEF RequestsAgree
    <3> QED BY <3>2, <3>3, <3>4
  <2>2. CASE ~Closed /\ activeRun = None
    <3>1. /\ made' = made + 1 /\ made < MaxRequests /\ accepted' = made + 1
          /\ pending' = made + 1
          /\ UNCHANGED <<followUp, phase, serving, activeRun, handed, shutdown>>
      BY <1>2, <2>2 DEF RequestDebounced, AcceptDebounced, runVars
    <3>2. /\ sleeping' \in SUBSET Requests /\ debounceTask' \in Requests
          /\ debounceTask' \in sleeping' /\ \A t \in sleeping' : t = debounceTask'
      <4>1. CASE debounceTask = None
        <5>1. sleeping = {}
          BY <4>1 DEF TasksAgree
        <5>2. debounceTask' = made + 1 /\ sleeping' = sleeping \cup {made + 1}
          BY <1>2, <2>2, <4>1 DEF RequestDebounced, AcceptDebounced
        <5> QED BY <3>1, <5>1, <5>2
      <4>2. CASE debounceTask # None
        <5>1. UNCHANGED <<debounceTask, sleeping>>
          BY <1>2, <2>2, <4>2 DEF RequestDebounced, AcceptDebounced
        <5> QED BY <4>2, <5>1 DEF TasksAgree
      <4> QED BY <4>1, <4>2
    <3>3. TypeOK'         BY <3>1, <3>2
    <3>4. TasksAgree'
      <4>1. debounceTask' # None /\ pending' # None /\ followUp = None
        BY <2>2, <3>1, <3>2 DEF TasksAgree
      <4> QED BY <2>2, <3>1, <3>2, <4>1 DEF TasksAgree
    <3>5. RequestsAgree'
      <4>1. made + 1 # None /\ handed < made + 1 /\ followUp = None
        BY <2>2, <3>1 DEF TasksAgree, RequestsAgree
      <4> QED BY <2>2, <3>1, <4>1 DEF RequestsAgree
    <3> QED BY <3>3, <3>4, <3>5
  <2>3. CASE ~Closed /\ activeRun # None
    <3>1. /\ sleeping' = sleeping \ {debounceTask} /\ debounceTask' = None
          /\ pending' = None /\ followUp' = made + 1 /\ UNCHANGED shutdown
          /\ made' = made + 1 /\ made < MaxRequests /\ accepted' = made + 1
          /\ UNCHANGED <<phase, serving, activeRun, handed>>
      BY <1>2, <2>3 DEF RequestDebounced, AcceptDebounced, CancelDebounce, runVars
    <3>2. TypeOK'         BY <3>1
    <3>3. TasksAgree'     BY <2>3, <3>1 DEF TasksAgree
    <3>4. RequestsAgree'  BY <2>3, <3>1 DEF TasksAgree, RequestsAgree
    <3> QED BY <3>2, <3>3, <3>4
  <2> QED BY <2>1, <2>2, <2>3
<1>3. CASE Shutdown
  <2>1. TypeOK'         BY <1>3 DEF Shutdown, CancelDebounce
  <2>2. TasksAgree'     BY <1>3 DEF Shutdown, CancelDebounce, TasksAgree, RequestsAgree
  <2>3. RequestsAgree'  BY <1>3 DEF Shutdown, CancelDebounce, TasksAgree, RequestsAgree
  <2> QED BY <2>1, <2>2, <2>3
<1>4. CASE ShutdownReturns
  <2>1. TypeOK'         BY <1>4 DEF ShutdownReturns, runVars
  <2>2. TasksAgree'     BY <1>4 DEF ShutdownReturns, runVars, TasksAgree
  <2>3. RequestsAgree'  BY <1>4 DEF ShutdownReturns, runVars, RequestsAgree
  <2> QED BY <2>1, <2>2, <2>3
<1>5. ASSUME NEW t \in Requests, DebounceDispatch(t) PROVE IInv'
  <2>1. pending # None /\ activeRun = None /\ ~Closed /\ t = debounceTask
    BY <1>5 DEF DebounceDispatch, TasksAgree
  <2>2. /\ sleeping' = sleeping \ {t} /\ debounceTask' = None /\ pending' = None
        /\ UNCHANGED <<made, shutdown, accepted, followUp>>
        /\ StartRun(pending)
    BY <1>5, <2>1 DEF DebounceDispatch
  <2>3. TypeOK'         BY <2>1, <2>2 DEF StartRun
  <2>4. TasksAgree'     BY <2>1, <2>2 DEF StartRun, TasksAgree
  <2>5. RequestsAgree'  BY <2>1, <2>2 DEF StartRun, TasksAgree, RequestsAgree
  <2> QED BY <2>3, <2>4, <2>5
<1>6. ASSUME NEW t \in Requests, CallbackReturns(t) PROVE IInv'
  <2>1. TypeOK'         BY <1>6 DEF CallbackReturns
  <2>2. TasksAgree'     BY <1>6 DEF CallbackReturns, TasksAgree
  <2>3. RequestsAgree'  BY <1>6 DEF CallbackReturns, RequestsAgree
  <2> QED BY <2>1, <2>2, <2>3
<1>7. ASSUME NEW t \in Requests, TakeFollowUp(t) PROVE IInv'
  <2>1. t = activeRun /\ activeRun # None
    BY <1>7 DEF TakeFollowUp, TasksAgree
  <2>2. TypeOK'         BY <1>7 DEF TakeFollowUp
  <2>3. TasksAgree'     BY <1>7, <2>1, SMTT(30) DEF TakeFollowUp, TasksAgree
  <2>4. RequestsAgree'
    <3>1. CASE followUp = None
      BY <1>7, <2>1, <3>1, SMTT(30) DEF TakeFollowUp, TasksAgree, RequestsAgree
    <3>2. CASE followUp # None
      BY <1>7, <2>1, <3>2, SMTT(30) DEF TakeFollowUp, TasksAgree, RequestsAgree
    <3> QED BY <3>1, <3>2
  <2> QED BY <2>2, <2>3, <2>4
<1>8. ASSUME NEW t \in Requests, RunUnwinds(t) PROVE IInv'
  <2>1. TypeOK'         BY <1>8 DEF RunUnwinds
  <2>2. TasksAgree'     BY <1>8 DEF RunUnwinds, TasksAgree
  <2>3. RequestsAgree'  BY <1>8 DEF RunUnwinds, RequestsAgree
  <2> QED BY <2>1, <2>2, <2>3
<1>9. CASE UNCHANGED vars
  <2>1. TypeOK'         BY <1>9 DEF vars, runVars
  <2>2. TasksAgree'     BY <1>9 DEF vars, runVars, TasksAgree
  <2>3. RequestsAgree'  BY <1>9 DEF vars, runVars, RequestsAgree
  <2> QED BY <2>1, <2>2, <2>3
<1> QED
  BY <1>1, <1>2, <1>3, <1>4, <1>5, <1>6, <1>7, <1>8, <1>9 DEF Next

(* The inductive invariant holds in every reachable state. *)
THEOREM Invariance == Spec => []IInv
  BY InitEstablishes, StepKeeps, PTL DEF Spec

(* Every field and every task stays within its type. *)
THEOREM TypeCorrect == Spec => []TypeOK
  BY Invariance, PTL DEF IInv

(* However requests, timers, runs and the shutdown interleave, two         *)
(* automation runs are never alive at once.                                *)
THEOREM OneRun == Spec => []OneRunAtATime
<1>1. IInv => OneRunAtATime
  BY DEF IInv, TypeOK, TasksAgree, OneRunAtATime, Requests, None, Closed
<1> QED BY <1>1, Invariance, PTL

(* The newest accepted request is never lost. *)
THEOREM NewestKept == Spec => []NewestRequestKept
<1>1. IInv => NewestRequestKept
  BY DEF IInv, TypeOK, TasksAgree, RequestsAgree, NewestRequestKept, Requests, None, Closed
<1> QED BY <1>1, Invariance, PTL

(* The dispatch branches for a closed or busy coordinator are never taken. *)
THEOREM DebounceIdle == Spec => []DebounceOnlyWhenIdle
<1>1. IInv => DebounceOnlyWhenIdle
  BY DEF IInv, TypeOK, TasksAgree, DebounceOnlyWhenIdle, Requests, None, Closed
<1> QED BY <1>1, Invariance, PTL

(* Nothing acts once async_shutdown has returned. *)
THEOREM Quiet == Spec => []QuietWhenDown
<1>1. IInv => QuietWhenDown
  BY MaxRequestsAssumption
     DEF IInv, TypeOK, TasksAgree, QuietWhenDown, Requests, None, Phases, Closed
<1> QED BY <1>1, Invariance, PTL

(* Requests are handed to the callback in the order they were accepted,    *)
(* none twice, and none after the coordinator has closed.                  *)
THEOREM OnlyNewer == Spec => RunsOnlyNewer
<1> DEFINE Handover == \A t \in Requests :
                         (phase'[t] = "running" /\ phase[t] # "running")
                           => handed < serving'[t] /\ ~Closed
<1>1. ASSUME IInv, Next PROVE Handover
  <2> USE MaxRequestsAssumption DEF IInv, TypeOK, Requests, None, Phases, Closed
  <2>1. CASE RequestImmediate
    BY <1>1, <2>1 DEF RequestImmediate, Ignored, AcceptImmediate, StartRun, runVars, RequestsAgree
  <2>2. CASE RequestDebounced
    BY <1>1, <2>2 DEF RequestDebounced, Ignored, AcceptDebounced, runVars
  <2>3. CASE Shutdown
    BY <1>1, <2>3 DEF Shutdown
  <2>4. CASE ShutdownReturns
    BY <1>1, <2>4 DEF ShutdownReturns, runVars
  <2>5. ASSUME NEW t \in Requests, DebounceDispatch(t) PROVE Handover
    <3>1. pending # None /\ activeRun = None /\ ~Closed /\ handed < pending
      BY <1>1, <2>5 DEF DebounceDispatch, TasksAgree, RequestsAgree
    <3> QED BY <1>1, <2>5, <3>1 DEF DebounceDispatch, StartRun
  <2>6. ASSUME NEW t \in Requests, CallbackReturns(t) PROVE Handover
    BY <1>1, <2>6 DEF CallbackReturns
  <2>7. ASSUME NEW t \in Requests, TakeFollowUp(t) PROVE Handover
    <3>1. t = activeRun /\ ~Closed
      BY <1>1, <2>7 DEF TakeFollowUp, TasksAgree
    <3>2. followUp # None => handed < followUp
      BY <1>1 DEF RequestsAgree
    <3> QED BY <1>1, <2>7, <3>1, <3>2 DEF TakeFollowUp
  <2>8. ASSUME NEW t \in Requests, RunUnwinds(t) PROVE Handover
    BY <1>1, <2>8 DEF RunUnwinds
  <2> QED
    BY <1>1, <2>1, <2>2, <2>3, <2>4, <2>5, <2>6, <2>7, <2>8 DEF Next
<1>2. IInv /\ [Next]_vars => [Handover]_vars
  BY <1>1
<1> QED BY <1>2, Invariance, PTL DEF Spec, RunsOnlyNewer
-----------------------------------------------------------------------------
(* The coordinator implements LatestRequest: whatever the timers and tasks *)
(* do, it serves one request at a time and owes service to the newest one. *)
THEOREM Implements == Spec => Promise!Spec
<1>1. Init => Promise!Init
  BY DEF Init, Promise!Init, Closed, None
<1>2. ASSUME IInv, [Next]_vars PROVE [Promise!Next]_(Promise!lvars)
  <2> USE MaxRequestsAssumption DEF IInv, TypeOK, Requests, None, Closed, Promise!lvars
  <2>1. CASE RequestImmediate
    <3>1. CASE Closed
      BY <2>1, <3>1 DEF RequestImmediate, Ignored, runVars
    <3>2. CASE ~Closed /\ activeRun = None
      <4>1. Promise!AcceptAndServe
        BY <1>2, <2>1, <3>2 DEF RequestImmediate, AcceptImmediate, CancelDebounce, StartRun,
           TasksAgree, RequestsAgree, Promise!AcceptAndServe
      <4> QED BY <4>1 DEF Promise!Next
    <3>3. CASE ~Closed /\ activeRun # None
      <4>1. Promise!Accept
        BY <1>2, <2>1, <3>3 DEF RequestImmediate, AcceptImmediate, CancelDebounce, runVars,
           TasksAgree, RequestsAgree, Promise!Accept
      <4> QED BY <4>1 DEF Promise!Next
    <3> QED BY <3>1, <3>2, <3>3
  <2>2. CASE RequestDebounced
    <3>1. CASE Closed
      BY <2>2, <3>1 DEF RequestDebounced, Ignored, runVars
    <3>2. CASE ~Closed
      <4>1. Promise!Accept
        BY <1>2, <2>2, <3>2 DEF RequestDebounced, AcceptDebounced, CancelDebounce, runVars,
           TasksAgree, RequestsAgree, Promise!Accept
      <4> QED BY <4>1 DEF Promise!Next
    <3> QED BY <3>1, <3>2
  <2>3. CASE Shutdown
    <3>1. Promise!Close
      BY <1>2, <2>3 DEF Shutdown, Promise!Close
    <3> QED BY <3>1 DEF Promise!Next
  <2>4. CASE ShutdownReturns
    BY <1>2, <2>4 DEF ShutdownReturns, runVars
  <2>5. ASSUME NEW t \in Requests, DebounceDispatch(t) PROVE Promise!Serve
    <3>1. pending # None /\ activeRun = None /\ ~Closed /\ followUp = None
      BY <1>2, <2>5 DEF DebounceDispatch, TasksAgree
    <3> QED BY <1>2, <2>5, <3>1 DEF DebounceDispatch, StartRun, Promise!Serve
  <2>6. ASSUME NEW t \in Requests, CallbackReturns(t) PROVE UNCHANGED Promise!lvars
    BY <1>2, <2>6 DEF CallbackReturns
  <2>7. ASSUME NEW t \in Requests, TakeFollowUp(t) PROVE Promise!Finish
    <3>1. t = activeRun /\ activeRun # None /\ ~Closed /\ pending = None
      BY <1>2, <2>7 DEF TakeFollowUp, TasksAgree
    <3>2. serving[activeRun] # 0
      BY <1>2, <3>1 DEF RequestsAgree
    <3> QED BY <1>2, <2>7, <3>1, <3>2 DEF TakeFollowUp, Promise!Finish
  <2>8. ASSUME NEW t \in Requests, RunUnwinds(t) PROVE UNCHANGED Promise!lvars
    BY <1>2, <2>8 DEF RunUnwinds
  <2>9. CASE UNCHANGED vars
    BY <2>9 DEF vars, runVars
  <2> QED
    BY <1>2, <2>1, <2>2, <2>3, <2>4, <2>5, <2>6, <2>7, <2>8, <2>9 DEF Next, Promise!Next
<1> QED BY <1>1, <1>2, Invariance, PTL DEF Spec, Promise!Spec

-----------------------------------------------------------------------------
(***************************************************************************)
(* What ForecastPipeline promises its readers, for any number of readers   *)
(* and whatever the bounds.                                                *)
(***************************************************************************)

WorkRecord ==
  [at : {"idle", "queued", "preparing", "building"}, started : Int, age : Ages,
   schedule : Nat, fresh : {"yes", "no"}, since : Ages, asked : Nat]

(* A worker that has the lock has seen what was published before its turn, *)
(* and none was asked for a schedule that is not stored yet.                *)
Turn(w) ==
  /\ work[w].asked <= saved
  /\ work[w].at \in {"preparing", "building"} => work[w].age = work[w].since
  /\ work[w].at = "building" => work[w].schedule >= work[w].asked

Stages == {"idle", "reading", "saving", "warming", "ending"}

(* An unloaded service has no refresh. *)
RefreshInv ==
  /\ refresh \in [at : Stages, started : Int, profile : Nat]
  /\ learned \in [profile : Nat, bias : Nat]
  /\ loaded = "no" => refresh.at = "idle"

PipelineInv ==
  /\ work \in [Workers -> WorkRecord] /\ saved \in Nat
  /\ \A w \in Workers : Turn(w)
  /\ lag = NoLag
  /\ now \in {0, 1}
  /\ RefreshInv

LEMMA NoWorkType == NoWork \in WorkRecord
  BY DEF NoWork, WorkRecord, Ages, MaxAge

LEMMA InitPipeline == PipelineInit => PipelineInv
  <1> SUFFICES ASSUME PipelineInit PROVE PipelineInv
    OBVIOUS
  <1>1. NoWork \in WorkRecord
    BY DEF NoWork, WorkRecord, Ages, MaxAge
  <1>2. RefreshInv
    BY DEF PipelineInit, RefreshInv, NoRefresh, Stages
  <1>3. \A w \in Workers : Turn(w)
    BY DEF PipelineInit, Turn, NoWork
  <1> QED
    BY <1>1, <1>2, <1>3 DEF PipelineInit, PipelineInv

(* Leaving as nothing was missed keeps everything. *)
LEMMA AnsweredKeeps ==
  ASSUME PipelineInv, NEW w \in Workers, NEW age \in Ages, NEW schedule \in Nat,
         Answered(w, age, schedule), age = work[w].since, schedule >= work[w].asked,
         UNCHANGED <<now, saved, learned, refresh, loaded>>
  PROVE  PipelineInv'
  <1>1. NoWork \in WorkRecord
    BY DEF NoWork, WorkRecord, Ages, MaxAge
  <1>2. work' = [work EXCEPT ![w] = NoWork]
    BY DEF Answered, Leaves
  <1>3. work[w] \in WorkRecord
    BY DEF PipelineInv
  <1>4. Behind(age, work[w].since) = 0 /\ Behind(work[w].asked, schedule) = 0
    BY <1>3 DEF Behind, WorkRecord, Ages, MaxAge
  <1>5. lag' = NoLag
    BY <1>4 DEF Answered, NoLag
  <1>6. ASSUME NEW v \in Workers PROVE Turn(v)'
    BY <1>2 DEF Turn, PipelineInv, NoWork
  <1> QED
    BY <1>1, <1>2, <1>5, <1>6 DEF PipelineInv, RefreshInv

(* So does leaving without an answer. *)
LEMMA LeavesKeeps ==
  ASSUME PipelineInv, NEW w \in Workers, Leaves(w),
         UNCHANGED <<now, saved, learned, refresh, loaded, lag>>
  PROVE  PipelineInv'
  <1>1. NoWork \in WorkRecord
    BY DEF NoWork, WorkRecord, Ages, MaxAge
  <1>2. work' = [work EXCEPT ![w] = NoWork]
    BY DEF Leaves
  <1>3. ASSUME NEW v \in Workers PROVE Turn(v)'
    BY <1>2 DEF Turn, PipelineInv, NoWork
  <1> QED
    BY <1>1, <1>2, <1>3 DEF PipelineInv, RefreshInv

(* A refresh that begins finds the service loaded. *)
LEMMA RefreshFromKeeps ==
  ASSUME NEW t \in Int, RefreshFrom(t), RefreshInv, UNCHANGED loaded,
         learned' \in [profile : Nat, bias : Nat]
  PROVE  RefreshInv'
  BY DEF RefreshFrom, RefreshInv, Stages

(* A refresh that goes on does so in a loaded service. *)
LEMMA RefreshGoesOn ==
  ASSUME RefreshInv, NEW stage \in Stages, refresh' = [refresh EXCEPT !.at = stage],
         refresh.at # "idle", UNCHANGED <<learned, loaded>>
  PROVE  RefreshInv'
  BY DEF RefreshInv, Stages

(* A publication ages what every worker under way has in hand. *)
LEMMA PublishKeeps == ASSUME PipelineInv, Publish PROVE PipelineInv'
  <1>1. ASSUME NEW w \in Workers PROVE Overtaken(w) \in WorkRecord
    <2>1. work[w] \in WorkRecord /\ Later(work[w].age) \in Ages /\ Later(work[w].since) \in Ages
      BY DEF PipelineInv, WorkRecord, Later, Ages, MaxAge
    <2> QED
      BY <2>1 DEF Overtaken, WorkRecord
  <1>2. work' = [w \in Workers |-> Overtaken(w)] /\ saved' = saved /\ loaded' = loaded
        /\ lag' = lag /\ now' = now
    BY DEF Publish
  <1>3. ASSUME NEW w \in Workers PROVE Turn(w)'
    <2>1. work[w] \in WorkRecord /\ Turn(w)
      BY DEF PipelineInv
    <2>2. CASE Contains(line, w)
      <3>1. work'[w] = [work[w] EXCEPT !.age = Later(@), !.since = Later(@), !.fresh = "no"]
        BY <1>2, <2>2 DEF Overtaken
      <3>2. /\ work'[w].at = work[w].at /\ work'[w].schedule = work[w].schedule
            /\ work'[w].asked = work[w].asked
            /\ work'[w].age = Later(work[w].age) /\ work'[w].since = Later(work[w].since)
        BY <3>1, <2>1 DEF WorkRecord
      <3> QED
        BY <3>2, <2>1, <1>2 DEF Turn
    <2>3. CASE ~Contains(line, w)
      BY <1>2, <2>1, <2>3 DEF Turn, Overtaken
    <2> QED
      BY <2>2, <2>3
  <1>4. RefreshInv'
    BY RefreshGoesOn DEF Publish, PipelineInv, Stages
  <1> QED
    BY <1>1, <1>2, <1>3, <1>4 DEF PipelineInv

(* A slot that passes changes no more than moments. *)
LEMMA NextSlotKeeps == ASSUME PipelineInv, NextSlot PROVE PipelineInv'
  <1>1. ASSUME NEW w \in Workers
        PROVE  /\ Moved(work[w]) \in WorkRecord
               /\ \A f \in {"at", "age", "schedule", "since", "asked"} :
                    Moved(work[w])[f] = work[w][f]
    <2>1. work[w] \in WorkRecord /\ Shifted(work[w].started) \in Int
      BY DEF PipelineInv, WorkRecord, Shifted, Oldest
    <2> QED
      BY <2>1 DEF Moved, WorkRecord
  <1>2. work' = [w \in Workers |-> IF Contains(line, w) THEN Moved(work[w]) ELSE work[w]]
        /\ saved' = saved /\ loaded' = loaded /\ lag' = lag /\ loaded = "yes" /\ now' = 0
    BY DEF NextSlot
  <1>3. ASSUME NEW w \in Workers PROVE Turn(w)'
    BY <1>1, <1>2 DEF Turn, PipelineInv
  <1>4. work' \in [Workers -> WorkRecord]
    BY <1>1, <1>2 DEF PipelineInv
  <1>5. RefreshInv'
    <2>1. CASE refresh.at = "idle"
      <3>1. RefreshFrom(0) /\ UNCHANGED <<learned, loaded>>
        BY <2>1 DEF NextSlot
      <3> QED
        BY <3>1, RefreshFromKeeps DEF PipelineInv, RefreshInv
    <2>2. CASE refresh.at # "idle"
      <3>1. refresh' = [refresh EXCEPT !.started = Shifted(@)] /\ UNCHANGED learned
        BY <2>2 DEF NextSlot, Moved
      <3>2. Shifted(refresh.started) \in Int
        BY DEF Shifted, Oldest, PipelineInv, RefreshInv
      <3> QED
        BY <1>2, <3>1, <3>2 DEF PipelineInv, RefreshInv
    <2> QED
      BY <2>1, <2>2
  <1> QED
    BY <1>2, <1>3, <1>4, <1>5 DEF PipelineInv

(* The steps that leave every worker where it is. *)
LEMMA OthersKeep ==
  ASSUME PipelineInv, UNCHANGED <<work, saved, lag>>, now' \in {0, 1}, RefreshInv'
  PROVE  PipelineInv'
  BY DEF PipelineInv, Turn

LEMMA RefreshStepKeeps == ASSUME PipelineInv, RefreshStep PROVE PipelineInv'
  <1>1. CASE Publish
    BY <1>1, PublishKeeps
  <1>2. CASE Warm
    <2> DEFINE new == [NoWork EXCEPT !.at = "queued", !.started = refresh.started,
                                     !.asked = saved]
    <2>0. saved \in Nat /\ refresh.started \in Int
      BY DEF PipelineInv, RefreshInv
    <2>1. new \in WorkRecord /\ new.at = "queued" /\ new.asked = saved
      BY <2>0, NoWorkType DEF NoWork, WorkRecord, Ages, MaxAge
    <2>2. work' = [work EXCEPT ![Warmer] = new] /\ Warmer \in Workers
          /\ UNCHANGED <<now, saved, lag, learned, loaded>>
      BY <1>2 DEF Warm, Workers
    <2>3. ASSUME NEW w \in Workers PROVE Turn(w)'
      <3>1. CASE w = Warmer
        BY <2>1, <2>2, <3>1 DEF Turn, PipelineInv
      <3>2. CASE w # Warmer
        BY <2>2, <3>2 DEF Turn, PipelineInv
      <3> QED
        BY <3>1, <3>2
    <2>4. RefreshInv'
      BY <1>2, RefreshGoesOn DEF Warm, PipelineInv, Stages
    <2>5. work' \in [Workers -> WorkRecord]
      BY <2>1, <2>2 DEF PipelineInv
    <2> QED
      BY <2>2, <2>3, <2>4, <2>5 DEF PipelineInv
  <1>3. CASE LeaveCold
    <2>1. RefreshInv'
      BY <1>3, RefreshGoesOn DEF LeaveCold, PipelineInv, Stages
    <2> QED
      BY <1>3, <2>1, OthersKeep DEF LeaveCold, PipelineInv
  <1>4. CASE Warmed
    <2>1. RefreshInv'
      BY <1>4, RefreshGoesOn DEF Warmed, PipelineInv, Stages
    <2>2. ASSUME NEW w \in Workers PROVE Turn(w)'
      BY <1>4 DEF Warmed, Turn, PipelineInv, NoWork
    <2> QED
      BY <1>4, <2>1, <2>2, NoWorkType DEF Warmed, PipelineInv
  <1>5. CASE End
    <2>1. RefreshInv'
      BY <1>5 DEF End, NoRefresh, PipelineInv, RefreshInv, Stages
    <2> QED
      BY <1>5, <2>1, OthersKeep DEF End, PipelineInv
  <1> QED
    BY <1>1, <1>2, <1>3, <1>4, <1>5 DEF RefreshStep

(* Whoever takes the lock has missed nothing yet; what it reads next was  *)
(* stored after it asked.                                                  *)
LEMMA WorksKeeps == ASSUME PipelineInv, NEW w \in Workers, Works(w) PROVE PipelineInv'
  <1>0. work[w] \in WorkRecord /\ Turn(w) /\ saved \in Nat
    BY DEF PipelineInv
  <1>1. CASE Take(w)
    <2>1. work' = [work EXCEPT ![w] = [work[w] EXCEPT !.at = "preparing", !.age = 0, !.since = 0]]
          /\ UNCHANGED <<now, saved, lag, learned, loaded, refresh>>
      BY <1>1 DEF Take, PipelineInv
    <2>2. [work[w] EXCEPT !.at = "preparing", !.age = 0, !.since = 0] \in WorkRecord
      <3>1. 0 \in Ages
        BY DEF Ages, MaxAge
      <3> QED
        BY <1>0, <3>1 DEF WorkRecord
    <2>3. ASSUME NEW v \in Workers PROVE Turn(v)'
      BY <1>0, <2>1 DEF Turn, PipelineInv, WorkRecord
    <2> QED
      BY <2>1, <2>2, <2>3 DEF PipelineInv, RefreshInv
  <1>2. CASE Hit(w)
    <2>1. /\ Answered(w, cache.age, cache.schedule) /\ cache.age = work[w].age
          /\ cache.schedule = saved /\ work[w].at = "preparing"
          /\ UNCHANGED <<now, saved, learned, refresh, loaded>>
      BY <1>2 DEF Hit, Fits
    <2>2. cache.age = work[w].since /\ cache.age \in Ages /\ cache.schedule \in Nat
          /\ cache.schedule >= work[w].asked
      BY <1>0, <2>1 DEF Turn, WorkRecord
    <2> QED
      BY <2>1, <2>2, AnsweredKeeps
  <1>3. CASE Miss(w)
    <2>1. work' = [work EXCEPT ![w] = [work[w] EXCEPT !.at = "building", !.schedule = saved,
                                                     !.fresh = "yes"]]
          /\ work[w].at = "preparing" /\ UNCHANGED <<now, saved, lag, learned, loaded, refresh>>
      BY <1>3 DEF Miss, PipelineInv
    <2>2. [work[w] EXCEPT !.at = "building", !.schedule = saved, !.fresh = "yes"] \in WorkRecord
      BY <1>0 DEF WorkRecord
    <2>3. ASSUME NEW v \in Workers PROVE Turn(v)'
      BY <1>0, <2>1 DEF Turn, PipelineInv, WorkRecord
    <2> QED
      BY <2>1, <2>2, <2>3 DEF PipelineInv, RefreshInv
  <1>4. CASE Build(w)
    <2>1. /\ Answered(w, work[w].age, work[w].schedule) /\ work[w].at = "building"
          /\ UNCHANGED <<now, saved, learned, refresh, loaded>>
      BY <1>4 DEF Build
    <2>2. work[w].age = work[w].since /\ work[w].age \in Ages /\ work[w].schedule \in Nat
          /\ work[w].schedule >= work[w].asked
      BY <1>0, <2>1 DEF Turn, WorkRecord
    <2> QED
      BY <2>1, <2>2, AnsweredKeeps
  <1>5. CASE Refused(w)
    BY <1>5, LeavesKeeps DEF Refused
  <1> QED
    BY <1>1, <1>2, <1>3, <1>4, <1>5 DEF Works

LEMMA NextPipeline == PipelineInv /\ [PipelineNext]_pipelineVars => PipelineInv'
  <1> SUFFICES ASSUME PipelineInv, [PipelineNext]_pipelineVars PROVE PipelineInv'
    OBVIOUS
  <1>1. CASE NextHalf
    BY <1>1, OthersKeep DEF NextHalf, PipelineInv, RefreshInv
  <1>2. CASE NextSlot
    BY <1>2, NextSlotKeeps
  <1>3. CASE RefreshStep
    BY <1>3, RefreshStepKeeps
  <1>4. CASE RefreshRaises
    <2>1. RefreshInv'
      BY <1>4, RefreshGoesOn DEF RefreshRaises, PipelineInv, Stages
    <2> QED
      BY <1>4, <2>1, OthersKeep DEF RefreshRaises, PipelineInv
  <1>5. CASE Save
    <2>1. ASSUME NEW w \in Workers PROVE Turn(w)'
      BY <1>5 DEF Save, PipelineInv, Turn, WorkRecord
    <2> QED
      BY <1>5, <2>1 DEF Save, PipelineInv, RefreshInv
  <1>6. CASE Unload
    <2>1. ASSUME NEW w \in Workers PROVE Turn(w)'
      BY <1>6 DEF Unload, Turn, PipelineInv, NoWork
    <2>2. RefreshInv'
      BY <1>6 DEF Unload, NoRefresh, PipelineInv, RefreshInv, Stages
    <2> QED
      BY <1>6, <2>1, <2>2, NoWorkType DEF Unload, PipelineInv
  <1>7. CASE UnloadEnds
    BY <1>7, OthersKeep DEF UnloadEnds, PipelineInv, RefreshInv
  <1>8. ASSUME NEW what \in {"profile", "bias"}, Learn(what) PROVE PipelineInv'
    <2>1. learned' \in [profile : Nat, bias : Nat]
      BY <1>8 DEF Learn, PipelineInv, RefreshInv
    <2>2. now \in Int /\ RefreshFrom(now) => RefreshInv'
      BY <1>8, <2>1, RefreshFromKeeps DEF Learn, PipelineInv
    <2> QED
      BY <1>8, <2>2, OthersKeep DEF Learn, PipelineInv
  <1>9. ASSUME NEW r \in Readers, Ask(r) PROVE PipelineInv'
    <2> DEFINE new == [NoWork EXCEPT !.at = "queued", !.started = now, !.asked = saved]
    <2>1. saved \in Nat /\ now \in Int
      BY DEF PipelineInv
    <2>2. new \in WorkRecord /\ new.at = "queued" /\ new.asked = saved
      BY <2>1, NoWorkType DEF NoWork, WorkRecord, Ages, MaxAge
    <2>3. work' = [work EXCEPT ![r] = new] /\ r \in Workers
          /\ UNCHANGED <<now, saved, lag, learned, loaded, refresh>>
      BY <1>9 DEF Ask, Workers
    <2>4. ASSUME NEW w \in Workers PROVE Turn(w)'
      <3>1. CASE w = r
        BY <2>2, <2>3, <3>1 DEF Turn, PipelineInv
      <3>2. CASE w # r
        BY <2>3, <3>2 DEF Turn, PipelineInv
      <3> QED
        BY <3>1, <3>2
    <2>5. work' \in [Workers -> WorkRecord]
      BY <2>2, <2>3 DEF PipelineInv
    <2> QED
      BY <2>3, <2>4, <2>5 DEF PipelineInv, RefreshInv
  <1>10. ASSUME NEW w \in Workers, Works(w) \/ BuildRaises(w) PROVE PipelineInv'
    <2>1. CASE BuildRaises(w)
      BY <2>1, LeavesKeeps DEF BuildRaises
    <2> QED
      BY <1>10, <2>1, WorksKeeps
  <1>11. CASE UNCHANGED pipelineVars
    BY <1>11, OthersKeep DEF pipelineVars, PipelineInv, RefreshInv
  <1> QED
    BY <1>1, <1>2, <1>3, <1>4, <1>5, <1>6, <1>7, <1>8, <1>9, <1>10, <1>11 DEF PipelineNext

THEOREM PipelineAlways == PipelineSpec => []PipelineInv
  BY InitPipeline, NextPipeline, PTL DEF PipelineSpec

(* No read is answered with what was superseded before its turn came, nor   *)
(* with a schedule older than the one stored when it asked: ReadsAreCurrent. *)
THEOREM EveryReadIsCurrent == PipelineSpec => []ReadsAreCurrent
  <1>1. PipelineInv => ReadsAreCurrent
    BY DEF PipelineInv, ReadsAreCurrent
  <1> QED
    BY <1>1, PipelineAlways, PTL

(* An unloaded service publishes nothing and caches nothing, whatever was  *)
(* under way: QuietOnceUnloaded.                                           *)
THEOREM QuietAfterUnload == PipelineSpec => QuietOnceUnloaded
  <1>1. PipelineInv /\ [PipelineNext]_pipelineVars
        => [loaded = "no" => house' = house /\ cache' \in {cache, NoPipeline}]_pipelineVars
    <2> SUFFICES ASSUME PipelineInv, PipelineNext, loaded = "no"
                 PROVE  house' = house /\ cache' \in {cache, NoPipeline}
      OBVIOUS
    <2>1. refresh.at = "idle"
      BY DEF PipelineInv, RefreshInv
    <2>2. CASE RefreshStep
      BY <2>1, <2>2 DEF RefreshStep, Publish, Warm, LeaveCold, Warmed, End
    <2>3. ASSUME NEW w \in Workers, Works(w) \/ BuildRaises(w)
          PROVE  house' = house /\ cache' \in {cache, NoPipeline}
      BY <2>3 DEF Works, BuildRaises, Take, Hit, Miss, Build, Superseded, Refused
    <2> QED
      BY <2>2, <2>3 DEF PipelineNext, NextHalf, NextSlot, RefreshRaises, Save, Unload, UnloadEnds,
         Learn, Ask
  <1> QED
    BY <1>1, PipelineAlways, PTL DEF PipelineSpec, QuietOnceUnloaded

----------------------------------------------------------------------------
(* The moments and the numbers in hand are within their bounds. *)
Moments == Oldest..1
InBounds ==
  /\ loaded \in {"yes", "no"} /\ raises \in 0..MaxRaises /\ saved \in 0..MaxSaves
  /\ learned \in [profile : 0..MaxChanges, bias : 0..MaxChanges]
  /\ house \in [profile : 0..MaxChanges, bias : 0..MaxChanges]
  /\ cache = NoPipeline
     \/ cache \in [started : Moments, age : Ages, schedule : 0..MaxSaves]
  /\ refresh.started \in Moments /\ refresh.profile \in 0..MaxChanges
  /\ \A w \in Workers : work[w].started \in Moments /\ work[w].schedule \in 0..MaxSaves

(* Whoever is on its way stands in the line, once; all but the first of it *)
(* wait; and the refresh stands there only while it warms the pipeline.     *)
InLine ==
  /\ line \in Seq(Workers)
  /\ \A i, j \in 1..Len(line) : line[i] = line[j] => i = j
  /\ \A w \in Workers : work[w].at # "idle" <=> Contains(line, w)
  /\ \A i \in 2..Len(line) : work[line[i]].at = "queued"
  /\ work[Warmer].at # "idle" => refresh.at = "warming"

LockInv == PipelineInv /\ InBounds /\ InLine

(* The head alone is past the wait for the lock. *)
LEMMA HeadHolds ==
  ASSUME PipelineInv, InLine, NEW w \in Workers, work[w].at \in {"preparing", "building"}
  PROVE  line # <<>> /\ Head(line) = w
<1>1. PICK i \in 1..Len(line) : line[i] = w
  BY DEF InLine, Contains
<1>2. i = 1
  BY <1>1 DEF InLine
<1> QED
  BY <1>1, <1>2, EmptySeq DEF InLine

(* Leaving the line by its head. *)
LEMMA HeadLeaves ==
  ASSUME PipelineInv, InLine, NEW w \in Workers, line # <<>>, Head(line) = w, Leaves(w),
         UNCHANGED refresh
  PROVE  InLine'
<1>1. /\ Tail(line) \in Seq(Workers) /\ Len(Tail(line)) = Len(line) - 1 /\ Len(line) \in Nat
      /\ \A i \in 1..Len(Tail(line)) : Tail(line)[i] = line[i + 1]
  BY HeadTailProperties, LenProperties DEF InLine
<1>2. w = line[1] /\ 1 \in 1..Len(line)
  BY <1>1, EmptySeq DEF InLine
<1>3. line' = Tail(line) /\ work' = [work EXCEPT ![w] = NoWork] /\ NoWork.at = "idle"
  BY DEF Leaves, NoWork
<1>4. work \in [Workers -> WorkRecord]
  BY DEF PipelineInv
<1>5. ASSUME NEW v \in Workers PROVE work'[v].at # "idle" <=> Contains(line', v)
  <2>1. CASE v = w
    <3>1. ~Contains(line', v)
      BY <1>1, <1>2, <1>3, <2>1 DEF InLine, Contains
    <3> QED
      BY <1>3, <1>4, <2>1, <3>1
  <2>2. CASE v # w
    <3>1. Contains(line', v) <=> Contains(line, v)
      <4>1. ASSUME NEW i \in 1..Len(line), line[i] = v PROVE Contains(line', v)
        <5>1. i - 1 \in 1..Len(line')
          BY <1>1, <1>2, <1>3, <2>2, <4>1
        <5>2. line'[i - 1] = v
          BY <1>1, <1>3, <4>1, <5>1
        <5> QED
          BY <5>1, <5>2 DEF Contains
      <4>2. ASSUME NEW i \in 1..Len(line'), line'[i] = v PROVE Contains(line, v)
        BY <1>1, <1>3, <4>2 DEF Contains
      <4> QED
        BY <4>1, <4>2 DEF Contains
    <3> QED
      BY <1>3, <1>4, <2>2, <3>1 DEF InLine
  <2> QED
    BY <2>1, <2>2
<1>6. ASSUME NEW i \in 2..Len(line') PROVE work'[line'[i]].at = "queued"
  <2>1. i + 1 \in 2..Len(line) /\ line'[i] = line[i + 1] /\ line[i + 1] # w
        /\ line[i + 1] \in Workers
    BY <1>1, <1>2, <1>3, ElementOfSeq DEF InLine
  <2> QED
    BY <1>3, <1>4, <2>1 DEF InLine
<1>7. \A i, j \in 1..Len(line') : line'[i] = line'[j] => i = j
  <2> SUFFICES ASSUME NEW i \in 1..Len(line'), NEW j \in 1..Len(line'), line'[i] = line'[j]
               PROVE  i = j
    OBVIOUS
  <2>1. i + 1 \in 1..Len(line) /\ j + 1 \in 1..Len(line) /\ line[i + 1] = line[j + 1]
    BY <1>1, <1>3
  <2>2. i + 1 = j + 1
    BY <2>1 DEF InLine
  <2> QED
    BY <2>2
<1>8. work'[Warmer].at # "idle" => refresh'.at = "warming"
  BY <1>3, <1>4 DEF InLine, Workers
<1> QED
  BY <1>1, <1>3, <1>5, <1>6, <1>7, <1>8 DEF InLine

(* Joining it at its end. *)
LEMMA JoinsTheLine ==
  ASSUME PipelineInv, InLine, NEW w \in Workers, ~Contains(line, w),
         NEW new, new.at = "queued", work' = [work EXCEPT ![w] = new], line' = Append(line, w),
         w = Warmer => refresh'.at = "warming",
         w # Warmer => UNCHANGED refresh
  PROVE  InLine'
<1>1. /\ line' \in Seq(Workers) /\ Len(line') = Len(line) + 1 /\ Len(line) \in Nat
      /\ \A i \in 1..Len(line) : line'[i] = line[i]
      /\ line'[Len(line) + 1] = w
  BY AppendProperties, LenProperties DEF InLine
<1>2. \A i \in 1..Len(line) : line[i] # w /\ line[i] \in Workers
  BY ElementOfSeq DEF InLine, Contains
<1>3. work \in [Workers -> WorkRecord]
  BY DEF PipelineInv
<1>4. ASSUME NEW v \in Workers PROVE work'[v].at # "idle" <=> Contains(line', v)
  <2>1. CASE v = w
    <3>1. Contains(line', v)
      BY <1>1, <2>1 DEF Contains
    <3> QED
      BY <1>3, <2>1, <3>1
  <2>2. CASE v # w
    <3>1. Contains(line', v) <=> Contains(line, v)
      <4>1. ASSUME NEW i \in 1..Len(line), line[i] = v PROVE Contains(line', v)
        BY <1>1, <4>1 DEF Contains
      <4>2. ASSUME NEW i \in 1..Len(line'), line'[i] = v PROVE Contains(line, v)
        <5>1. i \in 1..Len(line)
          BY <1>1, <2>2, <4>2
        <5> QED
          BY <1>1, <4>2, <5>1 DEF Contains
      <4> QED
        BY <4>1, <4>2 DEF Contains
    <3> QED
      BY <1>3, <2>2, <3>1 DEF InLine
  <2> QED
    BY <2>1, <2>2
<1>5. ASSUME NEW i \in 2..Len(line') PROVE work'[line'[i]].at = "queued"
  <2>1. CASE i = Len(line) + 1
    BY <1>1, <1>3, <2>1
  <2>2. CASE i # Len(line) + 1
    <3>1. i \in 2..Len(line) /\ line'[i] = line[i] /\ line[i] # w /\ line[i] \in Workers
      BY <1>1, <1>2, <2>2
    <3> QED
      BY <1>3, <3>1 DEF InLine
  <2> QED
    BY <2>1, <2>2
<1>6. \A i, j \in 1..Len(line') : line'[i] = line'[j] => i = j
  BY <1>1, <1>2 DEF InLine
<1>7. work'[Warmer].at # "idle" => refresh'.at = "warming"
  BY <1>3 DEF InLine, Workers
<1> QED
  BY <1>1, <1>4, <1>5, <1>6, <1>7 DEF InLine

(* Nobody moves in it. *)
LEMMA LineStays ==
  ASSUME PipelineInv, InLine, UNCHANGED line, \A w \in Workers : work'[w].at = work[w].at,
         refresh.at = "warming" => refresh'.at = "warming"
  PROVE  InLine'
<1>1. \A i \in 1..Len(line) : line[i] \in Workers
  BY ElementOfSeq DEF InLine
<1>2. Len(line) \in Nat
  BY LenProperties DEF InLine
<1>3. \A i \in 2..Len(line) : work'[line[i]].at = "queued"
  BY <1>1, <1>2 DEF InLine
<1> QED
  BY <1>3 DEF InLine, Workers

(* Its head goes on. *)
LEMMA HeadGoesOn ==
  ASSUME PipelineInv, InLine, NEW w \in Workers, line # <<>>, Head(line) = w,
         UNCHANGED <<line, refresh>>, \A v \in Workers : v # w => work'[v].at = work[v].at,
         work'[w].at # "idle"
  PROVE  InLine'
<1>1. \A i \in 1..Len(line) : line[i] \in Workers
  BY ElementOfSeq DEF InLine
<1>2. Len(line) \in Nat /\ 1 \in 1..Len(line) /\ line[1] = w
  BY LenProperties, EmptySeq DEF InLine
<1>3. \A i \in 2..Len(line) : work'[line[i]].at = "queued"
  BY <1>1, <1>2 DEF InLine
<1>4. work[w].at # "idle"
  BY <1>2 DEF InLine, Contains
<1> QED
  BY <1>3, <1>4 DEF InLine, Workers

(* What is left of a line of which one element is taken. *)
LEMMA OneTaken ==
  ASSUME NEW S, NEW s \in Seq(S), NEW n \in 1..Len(s),
         \A i, j \in 1..Len(s) : s[i] = s[j] => i = j
  PROVE  LET r == RemoveFirst(s, s[n]) IN
         /\ r \in Seq(S) /\ Len(r) = Len(s) - 1
         /\ \A k \in 1..Len(r) : r[k] = IF k < n THEN s[k] ELSE s[k + 1]
<1>0. Len(s) \in Nat /\ n \in Int
  BY LenProperties
<1>1. SelectInSeq(s, LAMBDA v : v = s[n]) = n
  <2>1. {i \in 1..Len(s) : s[i] = s[n]} = {n}
    OBVIOUS
  <2> QED
    BY <2>1, <1>0 DEF SelectInSeq, Min
<1>2. RemoveFirst(s, s[n]) = SubSeq(s, 1, n - 1) \o SubSeq(s, n + 1, Len(s))
  BY <1>1 DEF RemoveFirst, RemoveAt
<1> DEFINE a == SubSeq(s, 1, n - 1)
           b == SubSeq(s, n + 1, Len(s))
<1>3. a \in Seq(S) /\ Len(a) = n - 1 /\ \A k \in 1..(n - 1) : a[k] = s[k]
  <2>1. 1 \in Int /\ n - 1 \in Int /\ \A i \in 1..(n - 1) : s[i] \in S
    BY <1>0, ElementOfSeq
  <2> QED
    BY <2>1, <1>0, SubSeqProperties
<1>4. b \in Seq(S) /\ Len(b) = Len(s) - n /\ \A k \in 1..(Len(s) - n) : b[k] = s[n + k]
  <2>1. n + 1 \in Int /\ Len(s) \in Int /\ \A i \in (n + 1)..Len(s) : s[i] \in S
    BY <1>0, ElementOfSeq
  <2>2. /\ b \in Seq(S) /\ Len(b) = IF n + 1 <= Len(s) THEN Len(s) - (n + 1) + 1 ELSE 0
        /\ \A i \in 1..(Len(s) - (n + 1) + 1) : b[i] = s[(n + 1) + i - 1]
    BY <2>1, SubSeqProperties
  <2>3. Len(b) = Len(s) - n
    BY <2>2, <1>0
  <2>4. ASSUME NEW k \in 1..(Len(s) - n) PROVE b[k] = s[n + k]
    <3>1. k \in 1..(Len(s) - (n + 1) + 1) /\ (n + 1) + k - 1 = n + k
      BY <1>0
    <3> QED
      BY <2>2, <3>1
  <2> QED
    BY <2>2, <2>3, <2>4
<1> HIDE DEF a, b
<1>5. /\ a \o b \in Seq(S) /\ Len(a \o b) = Len(s) - 1
      /\ \A k \in 1..(Len(s) - 1) : (a \o b)[k] = IF k <= n - 1 THEN a[k] ELSE b[k - (n - 1)]
  BY <1>0, <1>3, <1>4, ConcatProperties
<1>6. ASSUME NEW k \in 1..(Len(s) - 1)
      PROVE  (a \o b)[k] = IF k < n THEN s[k] ELSE s[k + 1]
  <2>1. CASE k < n
    BY <1>0, <1>3, <1>5, <2>1
  <2>2. CASE ~(k < n)
    <3>1. k - (n - 1) \in 1..(Len(s) - n) /\ n + (k - (n - 1)) = k + 1
      BY <1>0, <2>2
    <3> QED
      BY <1>0, <1>4, <1>5, <2>2, <3>1
  <2> QED
    BY <2>1, <2>2
<1> QED
  BY <1>2, <1>5, <1>6 DEF a, b

(* The refresh is taken out of the line, wherever it stands. *)
LEMMA WarmerLeaves ==
  ASSUME PipelineInv, InLine, line' = RemoveFirst(line, Warmer),
         work' = [work EXCEPT ![Warmer] = NoWork]
  PROVE  InLine'
<1>0. Warmer \in Workers /\ NoWork.at = "idle" /\ work \in [Workers -> WorkRecord]
  BY DEF Workers, NoWork, PipelineInv
<1>1. CASE ~Contains(line, Warmer)
  <2>1. line' = line
    BY <1>1 DEF RemoveFirst, Contains
  <2>2. \A i \in 1..Len(line) : line[i] \in Workers
    BY ElementOfSeq DEF InLine
  <2>3. Len(line) \in Nat
    BY LenProperties DEF InLine
  <2>4. \A i \in 2..Len(line) : work'[line[i]].at = "queued"
    BY <1>0, <1>1, <2>2, <2>3 DEF InLine, Contains
  <2>5. \A w \in Workers : work'[w].at = work[w].at
    BY <1>0, <1>1 DEF InLine
  <2> QED
    BY <1>0, <2>1, <2>4, <2>5 DEF InLine
<1>2. CASE Contains(line, Warmer)
  <2>1. PICK n \in 1..Len(line) : line[n] = Warmer
    BY <1>2 DEF Contains
  <2>2. /\ line' \in Seq(Workers) /\ Len(line') = Len(line) - 1 /\ Len(line) \in Nat
        /\ \A k \in 1..Len(line') : line'[k] = IF k < n THEN line[k] ELSE line[k + 1]
    BY <2>1, OneTaken, LenProperties DEF InLine
  <2> DEFINE was(k) == IF k < n THEN k ELSE k + 1
  <2>3. ASSUME NEW k \in 1..Len(line')
        PROVE  was(k) \in 1..Len(line) /\ line'[k] = line[was(k)] /\ was(k) # n
               /\ line'[k] # Warmer /\ line'[k] \in Workers
    <3>1. was(k) \in 1..Len(line) /\ line'[k] = line[was(k)] /\ was(k) # n
      BY <2>1, <2>2
    <3>2. line[was(k)] # Warmer /\ line[was(k)] \in Workers
      BY <2>1, <3>1, ElementOfSeq DEF InLine
    <3> QED
      BY <3>1, <3>2
  <2>4. ASSUME NEW i \in 1..Len(line'), NEW j \in 1..Len(line'), line'[i] = line'[j] PROVE i = j
    <3>1. was(i) = was(j)
      BY <2>3, <2>4 DEF InLine
    <3> QED
      BY <2>1, <2>2, <3>1
  <2>5. ASSUME NEW v \in Workers PROVE work'[v].at # "idle" <=> Contains(line', v)
    <3>1. CASE v = Warmer
      BY <1>0, <2>3, <3>1 DEF Contains
    <3>2. CASE v # Warmer
      <4>1. ASSUME NEW i \in 1..Len(line), line[i] = v PROVE Contains(line', v)
        <5>1. i # n
          BY <2>1, <3>2, <4>1
        <5>2. CASE i < n
          <6>1. i \in 1..Len(line') /\ line'[i] = v
            BY <2>1, <2>2, <4>1, <5>2
          <6> QED
            BY <6>1 DEF Contains
        <5>3. CASE i > n
          <6>1. i - 1 \in 1..Len(line') /\ ~(i - 1 < n) /\ (i - 1) + 1 = i
            BY <2>1, <2>2, <4>1, <5>3
          <6>2. line'[i - 1] = v
            BY <2>2, <4>1, <6>1
          <6> QED
            BY <6>1, <6>2 DEF Contains
        <5> QED
          BY <2>1, <2>2, <5>1, <5>2, <5>3
      <4>2. ASSUME NEW i \in 1..Len(line'), line'[i] = v PROVE Contains(line, v)
        BY <2>3, <4>2 DEF Contains
      <4>3. Contains(line', v) <=> Contains(line, v)
        BY <4>1, <4>2 DEF Contains
      <4> QED
        BY <1>0, <3>2, <4>3 DEF InLine
    <3> QED
      BY <3>1, <3>2
  <2>6. ASSUME NEW i \in 2..Len(line') PROVE work'[line'[i]].at = "queued"
    <3>1. i \in 1..Len(line') /\ was(i) \in 2..Len(line)
      BY <2>1, <2>2
    <3> QED
      BY <1>0, <2>3, <3>1 DEF InLine
  <2> QED
    BY <1>0, <2>2, <2>4, <2>5, <2>6 DEF InLine
<1> QED
  BY <1>1, <1>2

LEMMA LineKept ==
  ASSUME PipelineInv, InLine, [PipelineNext]_pipelineVars
  PROVE  InLine'
<1> USE DEF PipelineInv
<1>1. CASE NextHalf \/ LeaveCold \/ End \/ RefreshRaises \/ Save \/ UnloadEnds
           \/ (\E what \in {"profile", "bias"} : Learn(what)) \/ UNCHANGED pipelineVars
  <2>1. UNCHANGED <<line, work>> /\ (refresh.at = "warming" => refresh'.at = "warming")
    BY <1>1 DEF NextHalf, LeaveCold, End, RefreshRaises, Save, UnloadEnds, Learn, RefreshFrom,
       pipelineVars
  <2> QED
    BY <2>1, LineStays
<1>2. CASE NextSlot
  <2>1. \A w \in Workers : work'[w].at = work[w].at
    BY <1>2 DEF NextSlot, Moved, WorkRecord
  <2>2. refresh.at = "warming" => refresh'.at = "warming"
    BY <1>2 DEF NextSlot, Moved, RefreshInv
  <2> QED
    BY <1>2, <2>1, <2>2, LineStays DEF NextSlot
<1>3. CASE Publish
  <2>1. \A w \in Workers : work'[w].at = work[w].at
    BY <1>3 DEF Publish, Overtaken, WorkRecord
  <2> QED
    BY <1>3, <2>1, LineStays DEF Publish
<1>4. CASE Warm
  <2>1. ~Contains(line, Warmer)
    BY <1>4 DEF Warm, InLine, Workers
  <2>2. refresh'.at = "warming" /\ Warmer \in Workers
    BY <1>4 DEF Warm, RefreshInv, Workers
  <2>3. PICK new : new.at = "queued" /\ work' = [work EXCEPT ![Warmer] = new]
    BY <1>4 DEF Warm, NoWork
  <2> QED
    BY <1>4, <2>1, <2>2, <2>3, JoinsTheLine DEF Warm
<1>5. CASE Warmed
  <2>1. ~Contains(line, Warmer) /\ UNCHANGED line /\ Warmer \in Workers
        /\ work' = [work EXCEPT ![Warmer] = NoWork] /\ NoWork.at = "idle"
    BY <1>5 DEF Warmed, Workers, NoWork
  <2>2. \A w \in Workers : work'[w].at = work[w].at
    BY <2>1 DEF InLine
  <2>3. work'[Warmer].at = "idle"
    BY <2>1
  <2>4. \A i \in 2..Len(line) : work'[line[i]].at = "queued"
    BY <2>2, ElementOfSeq, LenProperties DEF InLine
  <2> QED
    BY <2>1, <2>2, <2>3, <2>4 DEF InLine
<1>6. CASE Unload
  BY <1>6, WarmerLeaves DEF Unload
<1>7. ASSUME NEW r \in Readers, Ask(r) PROVE InLine'
  <2>1. PICK new : new.at = "queued" /\ work' = [work EXCEPT ![r] = new]
    BY <1>7 DEF Ask, NoWork
  <2>2. r \in Workers /\ r # Warmer
    BY ReadersAssumption DEF Workers
  <2> QED
    BY <1>7, <2>1, <2>2, JoinsTheLine DEF Ask
<1>8. ASSUME NEW w \in Workers, Works(w) \/ BuildRaises(w) PROVE InLine'
  <2>1. CASE Take(w)
    <3>1. \A v \in Workers : v # w => work'[v].at = work[v].at
      BY <2>1 DEF Take
    <3>2. work'[w].at # "idle"
      BY <2>1 DEF Take, WorkRecord
    <3> QED
      BY <2>1, <3>1, <3>2, HeadGoesOn DEF Take
  <2>2. CASE Miss(w)
    <3>1. \A v \in Workers : v # w => work'[v].at = work[v].at
      BY <2>2 DEF Miss
    <3>2. work'[w].at # "idle"
      BY <2>2 DEF Miss, WorkRecord
    <3>3. line # <<>> /\ Head(line) = w
      BY <2>2, HeadHolds DEF Miss
    <3> QED
      BY <2>2, <3>1, <3>2, <3>3, HeadGoesOn DEF Miss
  <2>3. CASE Hit(w) \/ Build(w) \/ BuildRaises(w)
    <3>1. line # <<>> /\ Head(line) = w
      BY <2>3, HeadHolds DEF Hit, Build, BuildRaises
    <3>2. Leaves(w) /\ UNCHANGED refresh
      BY <2>3 DEF Hit, Build, BuildRaises, Answered
    <3> QED
      BY <3>1, <3>2, HeadLeaves
  <2>4. CASE Refused(w)
    BY <2>4, HeadLeaves DEF Refused
  <2> QED
    BY <1>8, <2>1, <2>2, <2>3, <2>4 DEF Works
<1> QED
  BY <1>1, <1>2, <1>3, <1>4, <1>5, <1>6, <1>7, <1>8 DEF PipelineNext, RefreshStep

LEMMA BoundsKept ==
  ASSUME PipelineInv, InBounds, [PipelineNext]_pipelineVars
  PROVE  InBounds'
<1> USE PipelineBounds DEF PipelineInv, Moments, Oldest, Ages, MaxAge
<1>0. 0 \in Moments /\ 1 \in Moments /\ NoWork.started = 0 /\ NoWork.schedule = 0
      /\ \A t \in Moments : Shifted(t) \in Moments
  BY DEF NoWork, Shifted
<1>1. CASE NextHalf \/ Save \/ UnloadEnds \/ LeaveCold \/ End \/ RefreshRaises \/ UNCHANGED pipelineVars
  <2>1. UNCHANGED <<work, learned, house>> /\ cache' \in {cache, NoPipeline}
        /\ refresh'.started \in Moments /\ refresh'.profile \in 0..MaxChanges
        /\ raises' \in 0..MaxRaises /\ saved' \in 0..MaxSaves /\ loaded' = loaded
    BY <1>1 DEF NextHalf, Save, UnloadEnds, LeaveCold, End, RefreshRaises, Raises, pipelineVars,
       NoRefresh, InBounds, RefreshInv
  <2> QED
    BY <2>1 DEF InBounds
<1>2. CASE NextSlot
  <2>1. cache' = NoPipeline \/ cache' \in [started : Moments, age : Ages, schedule : 0..MaxSaves]
    BY <1>0, <1>2 DEF NextSlot, Moved, InBounds
  <2>2. \A w \in Workers : work'[w].started \in Moments /\ work'[w].schedule \in 0..MaxSaves
    BY <1>0, <1>2 DEF NextSlot, Moved, InBounds, WorkRecord
  <2>3. refresh'.started \in Moments /\ refresh'.profile \in 0..MaxChanges
    BY <1>0, <1>2 DEF NextSlot, Moved, RefreshFrom, InBounds, RefreshInv
  <2> QED
    BY <1>2, <2>1, <2>2, <2>3 DEF NextSlot, InBounds
<1>3. CASE Publish
  <2>1. \A w \in Workers : work'[w].started \in Moments /\ work'[w].schedule \in 0..MaxSaves
    <3>1. work' = [w \in Workers |-> Overtaken(w)]
      BY <1>3 DEF Publish
    <3> QED
      BY <3>1 DEF Overtaken, InBounds, WorkRecord
  <2>2. refresh'.started \in Moments /\ refresh'.profile \in 0..MaxChanges
    BY <1>3 DEF Publish, InBounds, RefreshInv
  <2>3. house' \in [profile : 0..MaxChanges, bias : 0..MaxChanges]
    <3>1. \/ house' = [profile |-> refresh.profile, bias |-> learned.bias]
          \/ house' = [house EXCEPT !.profile = refresh.profile]
      BY <1>3 DEF Publish
    <3> QED
      BY <3>1 DEF InBounds, RefreshInv
  <2>4. raises' \in 0..MaxRaises
    <3>1. raises' = raises \/ Raises
      BY <1>3 DEF Publish
    <3> QED
      BY <3>1, PipelineBounds DEF Raises, InBounds
  <2>5. UNCHANGED <<now, learned, saved, line, loaded, lag>> /\ cache' = NoPipeline
    BY <1>3 DEF Publish
  <2> QED
    BY <2>1, <2>2, <2>3, <2>4, <2>5 DEF InBounds
<1>4. CASE Warm
  <2>1. \A w \in Workers : work'[w].started \in Moments /\ work'[w].schedule \in 0..MaxSaves
    BY <1>4 DEF Warm, NoWork, InBounds
  <2>2. refresh'.started \in Moments /\ refresh'.profile \in 0..MaxChanges
    BY <1>4 DEF Warm, InBounds, RefreshInv
  <2> QED
    BY <1>4, <2>1, <2>2 DEF Warm, InBounds
<1>5. CASE Warmed
  <2>1. \A w \in Workers : work'[w].started \in Moments /\ work'[w].schedule \in 0..MaxSaves
    BY <1>5, <1>0 DEF Warmed, InBounds
  <2>2. refresh'.started \in Moments /\ refresh'.profile \in 0..MaxChanges
    BY <1>5 DEF Warmed, InBounds, RefreshInv
  <2> QED
    BY <1>5, <2>1, <2>2 DEF Warmed, InBounds
<1>6. CASE Unload
  <2>1. \A w \in Workers : work'[w].started \in Moments /\ work'[w].schedule \in 0..MaxSaves
    BY <1>6, <1>0 DEF Unload, InBounds
  <2> QED
    BY <1>6, <2>1 DEF Unload, NoRefresh, InBounds
<1>7. ASSUME NEW what \in {"profile", "bias"}, Learn(what) PROVE InBounds'
  <2>1. learned' \in [profile : 0..MaxChanges, bias : 0..MaxChanges]
    BY <1>7 DEF Learn, InBounds
  <2>2. refresh'.started \in Moments /\ refresh'.profile \in 0..MaxChanges
    BY <1>7, <1>0, <2>1 DEF Learn, RefreshFrom, InBounds
  <2> QED
    BY <1>7, <2>1, <2>2 DEF Learn, InBounds
<1>8. ASSUME NEW r \in Readers, Ask(r) PROVE InBounds'
  <2>1. \A w \in Workers : work'[w].started \in Moments /\ work'[w].schedule \in 0..MaxSaves
    BY <1>8 DEF Ask, NoWork, InBounds
  <2> QED
    BY <1>8, <2>1 DEF Ask, InBounds
<1>9. ASSUME NEW w \in Workers, Works(w) \/ BuildRaises(w) PROVE InBounds'
  <2>1. UNCHANGED <<refresh, learned, house, loaded, saved>> /\ raises' \in 0..MaxRaises
    BY <1>9 DEF Works, Take, Hit, Miss, Build, Refused, BuildRaises, Raises, InBounds
  <2>2. \A v \in Workers : work'[v].started \in Moments /\ work'[v].schedule \in 0..MaxSaves
    <3>1. CASE Take(w) \/ Miss(w)
      <4>1. ASSUME NEW v \in Workers
            PROVE  work'[v].started = work[v].started /\ work'[v].schedule \in {work[v].schedule, saved}
        <5>1. work[v] \in WorkRecord /\ work[w] \in WorkRecord
          OBVIOUS
        <5>2. CASE v # w
          BY <3>1, <5>1, <5>2 DEF Take, Miss
        <5>3. CASE v = w /\ Take(w)
          <6>1. work'[w] = [work[w] EXCEPT !.at = "preparing", !.age = 0, !.since = 0]
            BY <5>3 DEF Take
          <6> QED
            BY <5>1, <5>3, <6>1 DEF WorkRecord
        <5>4. CASE v = w /\ Miss(w)
          <6>1. work'[w] = [work[w] EXCEPT !.at = "building", !.schedule = saved, !.fresh = "yes"]
            BY <5>4 DEF Miss
          <6> QED
            BY <5>1, <5>4, <6>1 DEF WorkRecord
        <5> QED
          BY <3>1, <5>2, <5>3, <5>4
      <4> QED
        BY <4>1 DEF InBounds
    <3>2. CASE Hit(w) \/ Build(w) \/ Refused(w) \/ BuildRaises(w)
      <4>1. work' = [work EXCEPT ![w] = NoWork]
        BY <3>2 DEF Hit, Build, Refused, BuildRaises, Answered, Leaves
      <4> QED
        BY <1>0, <4>1 DEF InBounds
    <3> QED
      BY <1>9, <3>1, <3>2 DEF Works
  <2>3. cache' = NoPipeline \/ cache' \in [started : Moments, age : Ages, schedule : 0..MaxSaves]
    <3>1. CASE Build(w)
      BY <3>1 DEF Build, InBounds, WorkRecord
    <3>2. CASE ~Build(w)
      BY <1>9, <3>2 DEF Works, Take, Hit, Miss, Refused, BuildRaises, InBounds
    <3> QED
      BY <3>1, <3>2
  <2> QED
    BY <2>1, <2>2, <2>3 DEF InBounds
<1> QED
  BY <1>1, <1>2, <1>3, <1>4, <1>5, <1>6, <1>7, <1>8, <1>9 DEF PipelineNext, RefreshStep

LEMMA LockInit == PipelineInit => LockInv
<1> SUFFICES ASSUME PipelineInit PROVE LockInv
  OBVIOUS
<1>1. InBounds
  BY PipelineBounds DEF PipelineInit, InBounds, Moments, Oldest, NoRefresh, NoWork
<1>2. InLine
  BY EmptySeq DEF PipelineInit, InLine, Contains, NoWork, Workers
<1> QED
  BY <1>1, <1>2, InitPipeline DEF LockInv

LEMMA LockStep == LockInv /\ [PipelineNext]_pipelineVars => LockInv'
BY NextPipeline, LineKept, BoundsKept DEF LockInv

LEMMA LockTyped == LockInv => PipelineTypeOK
<1> SUFFICES ASSUME LockInv PROVE PipelineTypeOK
  OBVIOUS
<1>1. \A w \in Workers : work[w].at \in {"queued", "preparing", "building"} <=> Contains(line, w)
  BY DEF LockInv, PipelineInv, WorkRecord, InLine
<1>2. \A i \in DOMAIN line : i > 1 => work[line[i]].at = "queued"
  BY LenProperties DEF LockInv, InLine
<1> QED
  BY <1>1, <1>2 DEF LockInv, PipelineInv, PipelineTypeOK, InBounds, WorkRecord, RefreshInv, Stages,
     Moments

(* Every state is of its type; in particular one worker at a time is past  *)
(* the wait for the lock, and nobody waits twice.                          *)
THEOREM PipelineTypeCorrect == PipelineSpec => []PipelineTypeOK
BY LockInit, LockStep, LockTyped, PTL DEF PipelineSpec

-----------------------------------------------------------------------------
(***************************************************************************)
(* DayBands, proved: every band an optimizer plans a day by is damped, for  *)
(* every set of optimizers, any thresholds and deadband, and any bounds.    *)
(***************************************************************************)

LEMMA ConstantFacts ==
  /\ LastDay \in Nat /\ TopRatio \in Nat /\ MaxReloads \in Nat /\ Deadband \in Nat
  /\ DeficitBelow \in Nat /\ SurplusAbove \in Nat /\ DeficitBelow < SurplusAbove
  /\ NotRead \notin Ratios /\ Ratios \subseteq Int /\ NotRead \in Int
  /\ NoBand \notin Bands
BY DayBandsAssumption DEF NotRead, Ratios, NoBand, Bands

(* The classification gives a band. *)
LEMMA ClassifyType ==
  ASSUME NEW reading, NEW held
  PROVE  Classify(reading, held) \in Bands
BY DEF Classify, Demoted, ByRatio, Bands

LEMMA BandsInitType == DayBandsInit => DayBandsTypeOK
BY ConstantFacts DEF DayBandsInit, DayBandsTypeOK, Days, Records, NoBands, NoReading, Uncrossed

LEMMA BandsStepType == DayBandsTypeOK /\ [DayBandsNext]_bandVars => DayBandsTypeOK'
<1> SUFFICES ASSUME DayBandsTypeOK, [DayBandsNext]_bandVars
             PROVE  DayBandsTypeOK'
  OBVIOUS
<1> USE ConstantFacts DEF DayBandsTypeOK
<1>0. NoBands \in Records /\ NoReading \in [ratio : Ratios \cup {NotRead}, demoted : BOOLEAN]
  BY DEF Records, NoBands, NoReading
<1>1. CASE BeginsBands
  BY <1>1 DEF BeginsBands, crossings
<1>2. CASE OptimizersEmit
  <2>1. PICK days \in Covered, reading \in DayReadings, others \in {0, TopRatio} :
          LET emits(p) == p[1] \in days /\ p[2] \in active
              readingOf(p) == IF p = watched THEN reading ELSE [ratio |-> others, full |-> TRUE]
          IN /\ emitted' = [p \in Pairs |->
                              IF emits(p) THEN Classify(readingOf(p), previous[p]) ELSE NoBand]
             /\ read' = IF emits(watched)
                          THEN [ratio |-> reading.ratio, demoted |-> Demoted(reading, previous[watched])]
                          ELSE NoReading
    BY <1>2 DEF OptimizersEmit
  <2>2. emitted' \in Records
    BY <2>1, ClassifyType DEF Records
  <2>3. read' \in [ratio : Ratios \cup {NotRead}, demoted : BOOLEAN]
    BY <2>1, <1>0 DEF DayReadings, Demoted
  <2> QED
    BY <1>2, <2>2, <2>3 DEF OptimizersEmit, crossings
<1>3. CASE OptimizersFail
  BY <1>0, <1>3 DEF OptimizersFail, EndBandRun, crossings
<1>4. CASE RecordsBands
  <2>1. Merged(planned, active) \in Records
    BY DEF Merged, Records
  <2>2. last' \in Bands \cup {NoBand}
    BY <1>4 DEF RecordsBands, NoteBand, Records
  <2>3. crossed' \in [Thresholds -> Ratios \cup {NotRead}]
    BY <1>4 DEF RecordsBands, NoteBand, Uncrossed
  <2> QED
    BY <1>4, <2>1, <2>2, <2>3 DEF RecordsBands
<1>5. CASE EndsBands
  BY <1>0, <1>5 DEF EndsBands, EndBandRun, crossings
<1>6. CASE Midnight
  BY <1>6 DEF Midnight, run_, crossings, Days
<1>7. CASE Reloads
  BY <1>0, <1>7 DEF Reloads, EndBandRun, crossings
<1>8. CASE UNCHANGED bandVars
  BY <1>8 DEF bandVars, run_, crossings
<1> QED
  BY <1>1, <1>2, <1>3, <1>4, <1>5, <1>6, <1>7, <1>8 DEF DayBandsNext

(* Every state is of its type. *)
THEOREM DayBandsTypeCorrect == DayBandsSpec => []DayBandsTypeOK
BY BandsInitType, BandsStepType, PTL DEF DayBandsSpec

----------------------------------------------------------------------------
(* The strengthening.  What the store keeps of the watched pair is its last *)
(* band; a run that has loaded the bands still holds what is kept; and what *)
(* its optimizers emitted was classified against that.                      *)

StoreIsLast == kept[watched] = last

RunHoldsTheStore == bandStage \in {"loop", "placed"} => previous = kept

NothingCrossedUnknown ==
  last = NoBand => crossed["deficit"] = NotRead /\ crossed["surplus"] = NotRead

EmittedByReading ==
  bandStage = "placed" /\ emitted[watched] # NoBand =>
    \E reading \in DayReadings :
      /\ emitted[watched] = Classify(reading, previous[watched])
      /\ read = [ratio |-> reading.ratio, demoted |-> Demoted(reading, previous[watched])]

DayBandsInv ==
  /\ DayBandsTypeOK /\ StoreIsLast /\ RunHoldsTheStore /\ EmittedByReading
  /\ NothingCrossedUnknown /\ BandsAreDamped

(* A band that a ratio takes across a threshold is past it by the deadband. *)
LEMMA ClearlyCrossed ==
  ASSUME NEW reading \in DayReadings, NEW held \in Bands
  PROVE  LET band == Classify(reading, held)
             r == reading.ratio IN
         /\ held # "deficit" /\ band = "deficit" => r <= DeficitBelow - Deadband
         /\ held = "deficit" /\ band # "deficit" => r > DeficitBelow + Deadband
         /\ held # "surplus" /\ band = "surplus" => r >= SurplusAbove + Deadband
         /\ held = "surplus" /\ band # "surplus" /\ ~Demoted(reading, held)
              => r < SurplusAbove - Deadband
<1> DEFINE r == reading.ratio
<1>1. r \in Int
  BY ConstantFacts DEF DayReadings
<1>2. CASE held = "deficit"
  BY <1>1, <1>2, ConstantFacts DEF Classify, Demoted, ByRatio, DeficitUpTo, SurplusFrom, NoBand
<1>3. CASE held = "tight"
  BY <1>1, <1>3, ConstantFacts DEF Classify, Demoted, ByRatio, DeficitUpTo, SurplusFrom, NoBand
<1>4. CASE held = "surplus"
  BY <1>1, <1>4, ConstantFacts DEF Classify, Demoted, ByRatio, DeficitUpTo, SurplusFrom, NoBand
<1> QED
  BY <1>2, <1>3, <1>4 DEF Bands

(* What only a recording can disturb. *)
LEMMA NothingRecorded ==
  ASSUME DayBandsInv, UNCHANGED <<kept, watched, crossings>>
  PROVE  StoreIsLast' /\ NothingCrossedUnknown' /\ BandsAreDamped'
BY DEF DayBandsInv, StoreIsLast, NothingCrossedUnknown, BandsAreDamped, crossings

(* What a recording does to the watched pair. *)
LEMMA RecordingIsDamped ==
  ASSUME DayBandsInv, RecordsBands, DayBandsTypeOK'
  PROVE  StoreIsLast' /\ NothingCrossedUnknown' /\ BandsAreDamped'
<1> USE DEF DayBandsInv, DayBandsTypeOK
<1>1. /\ watched \in Pairs /\ watched' = watched
      /\ kept' = Merged(planned, active)
      /\ previous = kept /\ NoteBand
  BY DEF RecordsBands, RunHoldsTheStore
<1>2. CASE ~Readable(watched, planned, active)
  <2>1. last' = NoBand /\ crossed' = Uncrossed
    BY <1>1, <1>2 DEF NoteBand
  <2>2. kept'[watched] = NoBand
    BY <1>1, <1>2 DEF Merged
  <2>3. NothingCrossedUnknown' /\ BandsAreDamped'
    BY <2>1 DEF NothingCrossedUnknown, BandsAreDamped, Uncrossed, Thresholds
  <2> QED
    BY <1>1, <2>1, <2>2, <2>3 DEF StoreIsLast
<1>3. CASE Readable(watched, planned, active) /\ emitted[watched] = NoBand
  <2>1. last' = last
    BY <1>1, <1>3 DEF NoteBand
  <2>2. crossed' = [t \in Thresholds |-> crossed[t]]
    BY <1>1, <1>3 DEF NoteBand, Crosses
  <2>3. kept'[watched] = last
    BY <1>1, <1>3 DEF Merged, StoreIsLast
  <2>4. crossed'["deficit"] = crossed["deficit"] /\ crossed'["surplus"] = crossed["surplus"]
    BY <2>2 DEF Thresholds
  <2>5. NothingCrossedUnknown' /\ BandsAreDamped'
    BY <2>1, <2>4 DEF NothingCrossedUnknown, BandsAreDamped
  <2> QED
    BY <1>1, <2>1, <2>3, <2>5 DEF StoreIsLast
<1>4. CASE Readable(watched, planned, active) /\ emitted[watched] # NoBand
  <2>1. last' = emitted[watched] /\ emitted[watched] \in Bands
    BY <1>1, <1>4 DEF NoteBand, Records
  <2>2. kept'[watched] = emitted[watched]
    BY <1>1, <1>4 DEF Merged
  <2>3. PICK reading \in DayReadings :
          /\ emitted[watched] = Classify(reading, last)
          /\ read.ratio = reading.ratio /\ read.demoted = Demoted(reading, last)
    BY <1>1, <1>4 DEF RecordsBands, EmittedByReading, StoreIsLast
  <2>4. crossed' = [t \in Thresholds |->
            IF ~Crosses(t) THEN crossed[t]
            ELSE IF t = "surplus" /\ read.demoted THEN NotRead
            ELSE read.ratio]
    BY <1>1, <1>4 DEF NoteBand
  <2>5. /\ crossed'["deficit"] = IF ~Crosses("deficit") THEN crossed["deficit"] ELSE read.ratio
        /\ crossed'["surplus"] = IF ~Crosses("surplus") THEN crossed["surplus"]
                                 ELSE IF read.demoted THEN NotRead ELSE read.ratio
    BY <2>4 DEF Thresholds
  <2>6. CASE last = NoBand
    <3>1. ~Crosses("deficit") /\ ~Crosses("surplus")
      BY <2>6 DEF Crosses
    <3>2. crossed'["deficit"] = NotRead /\ crossed'["surplus"] = NotRead
      BY <2>5, <2>6, <3>1 DEF NothingCrossedUnknown
    <3> QED
      BY <1>1, <2>1, <2>2, <3>2 DEF StoreIsLast, NothingCrossedUnknown, BandsAreDamped
  <2>7. CASE last \in Bands
    <3>1. /\ last # "deficit" /\ last' = "deficit" => read.ratio <= DeficitBelow - Deadband
          /\ last = "deficit" /\ last' # "deficit" => read.ratio > DeficitBelow + Deadband
          /\ last # "surplus" /\ last' = "surplus" => read.ratio >= SurplusAbove + Deadband
          /\ last = "surplus" /\ last' # "surplus" /\ ~read.demoted
               => read.ratio < SurplusAbove - Deadband
      BY <2>1, <2>3, <2>7, ClearlyCrossed
    <3>2. BandsAreDamped'
      BY <2>1, <2>5, <2>7, <3>1, ConstantFacts DEF BandsAreDamped, Crosses
    <3> QED
      BY <1>1, <2>1, <2>2, <3>2, ConstantFacts DEF StoreIsLast, NothingCrossedUnknown
  <2> QED
    BY <2>6, <2>7
<1> QED
  BY <1>2, <1>3, <1>4

----------------------------------------------------------------------------
LEMMA BandsInit == DayBandsInit => DayBandsInv
BY ConstantFacts DEF DayBandsInit, DayBandsInv, DayBandsTypeOK, Days, Records, NoBands,
   NoReading, Uncrossed, Thresholds, StoreIsLast, RunHoldsTheStore, EmittedByReading,
   NothingCrossedUnknown, BandsAreDamped

LEMMA BandsStep == DayBandsInv /\ [DayBandsNext]_bandVars => DayBandsInv'
<1> SUFFICES ASSUME DayBandsInv, [DayBandsNext]_bandVars
             PROVE  DayBandsInv'
  OBVIOUS
<1> USE DEF DayBandsInv
<1>0. DayBandsTypeOK'
  BY BandsStepType
<1>1. CASE BeginsBands
  <2>1. UNCHANGED <<kept, watched, crossings>> /\ RunHoldsTheStore' /\ EmittedByReading'
    BY <1>1 DEF BeginsBands, RunHoldsTheStore, EmittedByReading
  <2> QED
    BY <2>1, <1>0, NothingRecorded
<1>2. CASE OptimizersEmit
  <2>1. UNCHANGED <<kept, watched, crossings>> /\ RunHoldsTheStore'
    BY <1>2 DEF OptimizersEmit, RunHoldsTheStore
  <2>2. EmittedByReading'
    <3>1. PICK days \in Covered, reading \in DayReadings, others \in {0, TopRatio} :
            LET emits(p) == p[1] \in days /\ p[2] \in active
                readingOf(p) == IF p = watched THEN reading ELSE [ratio |-> others, full |-> TRUE]
            IN /\ emitted' = [p \in Pairs |->
                                IF emits(p) THEN Classify(readingOf(p), previous[p]) ELSE NoBand]
               /\ read' = IF emits(watched)
                            THEN [ratio |-> reading.ratio, demoted |-> Demoted(reading, previous[watched])]
                            ELSE NoReading
      BY <1>2 DEF OptimizersEmit
    <3>2. watched \in Pairs /\ watched' = watched /\ previous' = previous
      BY <1>2 DEF OptimizersEmit, DayBandsTypeOK
    <3>3. CASE watched[1] \in days /\ watched[2] \in active
      BY <3>1, <3>2, <3>3 DEF EmittedByReading
    <3>4. CASE ~(watched[1] \in days /\ watched[2] \in active)
      BY <3>1, <3>2, <3>4 DEF EmittedByReading
    <3> QED
      BY <3>3, <3>4
  <2> QED
    BY <2>1, <2>2, <1>0, NothingRecorded
<1>3. CASE OptimizersFail
  <2>1. UNCHANGED <<kept, watched, crossings>> /\ RunHoldsTheStore' /\ EmittedByReading'
    BY <1>3 DEF OptimizersFail, EndBandRun, RunHoldsTheStore, EmittedByReading
  <2> QED
    BY <2>1, <1>0, NothingRecorded
<1>4. CASE RecordsBands
  <2>1. RunHoldsTheStore' /\ EmittedByReading'
    BY <1>4 DEF RecordsBands, RunHoldsTheStore, EmittedByReading
  <2> QED
    BY <1>4, <2>1, <1>0, RecordingIsDamped
<1>5. CASE EndsBands
  <2>1. UNCHANGED <<kept, watched, crossings>> /\ RunHoldsTheStore' /\ EmittedByReading'
    BY <1>5 DEF EndsBands, EndBandRun, RunHoldsTheStore, EmittedByReading
  <2> QED
    BY <2>1, <1>0, NothingRecorded
<1>6. CASE Midnight
  <2>1. UNCHANGED <<kept, watched, crossings>> /\ RunHoldsTheStore' /\ EmittedByReading'
    BY <1>6 DEF Midnight, run_, RunHoldsTheStore, EmittedByReading
  <2> QED
    BY <2>1, <1>0, NothingRecorded
<1>7. CASE Reloads
  <2>1. UNCHANGED <<kept, watched, crossings>> /\ RunHoldsTheStore' /\ EmittedByReading'
    BY <1>7 DEF Reloads, EndBandRun, RunHoldsTheStore, EmittedByReading
  <2> QED
    BY <2>1, <1>0, NothingRecorded
<1>8. CASE UNCHANGED bandVars
  <2>1. UNCHANGED <<kept, watched, crossings>> /\ RunHoldsTheStore' /\ EmittedByReading'
    BY <1>8 DEF bandVars, run_, RunHoldsTheStore, EmittedByReading
  <2> QED
    BY <2>1, <1>0, NothingRecorded
<1> QED
  BY <1>1, <1>2, <1>3, <1>4, <1>5, <1>6, <1>7, <1>8 DEF DayBandsNext

(* A ratio that hovers at a threshold flips no band. *)
THEOREM BandsStayDamped == DayBandsSpec => []BandsAreDamped
<1>1. DayBandsInv => BandsAreDamped
  BY DEF DayBandsInv
<1> QED
  BY <1>1, BandsInit, BandsStep, PTL DEF DayBandsSpec

----------------------------------------------------------------------------
Distance(a, b) == IF a < b THEN b - a ELSE a - b

(* So between two crossings of one threshold the ratio moves by twice the *)
(* deadband.                                                               *)
SwingsAreWide ==
  [][\A t \in Thresholds :
       crossed[t] # NotRead /\ crossed'[t] # NotRead /\ (last = t) # (last' = t)
         => Distance(crossed'[t], crossed[t]) >= 2 * Deadband]_bandVars

(* A band that comes back cost a swing of the ratio. *)
THEOREM BandsReturnBySwings == DayBandsSpec => SwingsAreWide
<1>1. ASSUME DayBandsTypeOK, DayBandsTypeOK', BandsAreDamped, BandsAreDamped',
             NEW t \in Thresholds,
             crossed[t] # NotRead, crossed'[t] # NotRead, (last = t) # (last' = t)
      PROVE  Distance(crossed'[t], crossed[t]) >= 2 * Deadband
  <2>1. crossed[t] \in Int /\ crossed'[t] \in Int
    BY <1>1, ConstantFacts DEF DayBandsTypeOK
  <2>2. CASE t = "deficit"
    BY <1>1, <2>1, <2>2, ConstantFacts DEF BandsAreDamped, Distance
  <2>3. CASE t = "surplus"
    BY <1>1, <2>1, <2>3, ConstantFacts DEF BandsAreDamped, Distance
  <2> QED
    BY <1>1, <2>2, <2>3 DEF Thresholds
<1>2. DayBandsTypeOK /\ DayBandsTypeOK' /\ BandsAreDamped /\ BandsAreDamped' =>
        [\A t \in Thresholds :
           crossed[t] # NotRead /\ crossed'[t] # NotRead /\ (last = t) # (last' = t)
             => Distance(crossed'[t], crossed[t]) >= 2 * Deadband]_bandVars
  BY <1>1
<1> QED
  BY <1>2, DayBandsTypeCorrect, BandsStayDamped, PTL DEF SwingsAreWide

-----------------------------------------------------------------------------
(***************************************************************************)
(* ApplianceExecution, proved: what the memory knows, and with it that an  *)
(* attempt that reports no failure did what it was for, that only runs of  *)
(* Helman's are switched off, and that a refused start is not repeated; for *)
(* any modes, slots and numbers of edits, hands and failures.              *)
(***************************************************************************)

LEMMA ModeFacts ==
  /\ "none" \notin Modes /\ "idle" \notin Modes
  /\ LastSlot \in Nat /\ MaxEdits \in Nat /\ MaxHands \in Nat /\ MaxFaults \in Nat
BY ModesAssumption, BoundsAssumption

LEMMA FingerprintType ==
  ASSUME ApplianceTypeOK, NEW a \in Modes
  PROVE  Fingerprint(a) \in Latches
<1>1. CASE driver = "ev" /\ charge # "on"
  <2>1. charge \in {"off", "unavailable"} /\ limit \in {0, 1}
    BY <1>1 DEF ApplianceTypeOK, ChargeStates
  <2> QED
    BY <1>1, <2>1 DEF Fingerprint, Latches
<1>2. CASE ~(driver = "ev" /\ charge # "on")
  BY <1>2 DEF Fingerprint, Latches
<1> QED
  BY <1>1, <1>2

Memories == [slot : Slots \cup {-1}, sig : Actions, enabled : {"yes", "no"},
             kind : {"none", "noop", "apply", "slot_stop"}, latch : Latches]

(* What each way to end does to the type. *)
LEMMA EndsInType ==
  ASSUME ApplianceTypeOK, act' \in Actions, at' \in Slots
  PROVE  /\ Succeed => /\ memory' \in Memories /\ pc' = "idle" /\ ended' = "ok"
                       /\ touched' \in {"no", "before", "yes"} /\ failing' \in {"yes", "no"}
                       /\ run' \in {"nothing", "started", "stopped"} /\ refused' \in Latches
         /\ Fail => /\ memory' \in Memories /\ pc' = "idle" /\ ended' = "failed"
                    /\ touched' \in {"no", "before", "yes"} /\ failing' \in {"yes", "no"}
                    /\ run' \in {"nothing", "started", "stopped"} /\ refused' \in Latches
         /\ act \in Modes /\ Refuse =>
                    /\ memory' \in Memories /\ pc' = "idle" /\ ended' = "refused"
                    /\ touched' \in {"no", "before", "yes"} /\ failing' \in {"yes", "no"}
                    /\ run' \in {"nothing", "started", "stopped"} /\ refused' \in Latches
<1> USE DEF ApplianceTypeOK, Memories
<1>0. NoLatch \in Latches
  BY DEF Latches
<1>1. ASSUME Succeed
      PROVE  /\ memory' \in Memories /\ pc' = "idle" /\ ended' = "ok"
             /\ touched' \in {"no", "before", "yes"} /\ failing' \in {"yes", "no"}
             /\ run' \in {"nothing", "started", "stopped"} /\ refused' \in Latches
  BY <1>0, <1>1 DEF Succeed, Remember, YesNo
<1>2. ASSUME Fail
      PROVE  /\ memory' \in Memories /\ pc' = "idle" /\ ended' = "failed"
             /\ touched' \in {"no", "before", "yes"} /\ failing' \in {"yes", "no"}
             /\ run' \in {"nothing", "started", "stopped"} /\ refused' \in Latches
  BY <1>0, <1>2 DEF Fail
<1>3. ASSUME act \in Modes, Refuse
      PROVE  /\ memory' \in Memories /\ pc' = "idle" /\ ended' = "refused"
             /\ touched' \in {"no", "before", "yes"} /\ failing' \in {"yes", "no"}
             /\ run' \in {"nothing", "started", "stopped"} /\ refused' \in Latches
  <2>1. Fingerprint(act) \in Latches
    BY <1>3, FingerprintType
  <2> QED
    BY <1>3, <2>1 DEF Refuse, Actions
<1> QED
  BY <1>1, <1>2, <1>3

(* An attempt that starts or sets runs the appliance, one that stops does not. *)
ForItsAct ==
  /\ pc \in {"set", "turnOn", "wait", "select"} => act \in Modes
  /\ pc = "turnOff" => act \notin Modes

LEMMA DecisionInType ==
  ASSUME ApplianceTypeOK, Decide
  PROVE  act' \in Actions /\ at' \in Slots /\ plan' \in [Slots -> Actions]
BY DEF ApplianceTypeOK, Decide, Pruned, Actions

LEMMA ReconcileInType ==
  ASSUME ApplianceTypeOK, Reconcile, UNCHANGED driver
  PROVE  ApplianceTypeOK' /\ ForItsAct'
<1> USE DEF ApplianceTypeOK, ForItsAct, Memories
<1>0. act' \in Actions /\ at' \in Slots /\ plan' \in [Slots -> Actions] /\ pc = "idle"
  BY DecisionInType DEF Reconcile, LeaveAlone, ReadFails, AlreadySo, CallTurnOff, CallSet,
     CallTurnOn, CallSelect, Decide
<1>1. CASE LeaveAlone
  BY <1>0, <1>1 DEF LeaveAlone, Remember, YesNo, Latches, world, history, counters
<1>2. CASE ReadFails
  BY <1>0, <1>2, EndsInType DEF ReadFails, world, counters
<1>3. CASE AlreadySo
  BY <1>0, <1>3, EndsInType DEF AlreadySo, world, counters
<1>4. CASE CallTurnOff
  BY <1>0, <1>4 DEF CallTurnOff, StartCall, Runs, world, counters
<1>5. CASE CallSet
  BY <1>0, <1>5 DEF CallSet, StartCall, Runs, world, counters
<1>6. CASE CallTurnOn
  BY <1>0, <1>6 DEF CallTurnOn, StartCall, Runs, counters
<1>7. CASE CallSelect
  BY <1>0, <1>7 DEF CallSelect, StartCall, Runs, world, counters
<1> QED
  BY <1>1, <1>2, <1>3, <1>4, <1>5, <1>6, <1>7 DEF Reconcile

LEMMA EffectInType ==
  ASSUME ApplianceTypeOK, NEW call, call \in {"set", "select"} => act \in Modes
  PROVE  Effect(call) \/ NoEffect(call) =>
           /\ charge' \in ChargeStates /\ mode' \in Modes /\ order' \in {"on", "none"}
           /\ owned' \in {"yes", "no"}
BY DEF Effect, NoEffect, ApplianceTypeOK, ChargeStates

LEMMA AnswerInType ==
  ASSUME ApplianceTypeOK, ForItsAct, Answer, UNCHANGED driver
  PROVE  ApplianceTypeOK' /\ ForItsAct'
<1> USE DEF ApplianceTypeOK, Memories
<1>0. act' = act /\ at' = at
  BY DEF Answer, TurnedOff, SetDone, TurnedOn, SeenOn, SeenUnavailable, GiveUpWaiting, Selected,
     CallFails, Keep
<1>1. CASE TurnedOff
  BY <1>0, <1>1, EndsInType, EffectInType DEF TurnedOff, ForItsAct, counters
<1>2. CASE SetDone
  BY <1>0, <1>2, EndsInType, EffectInType DEF SetDone, ForItsAct, counters
<1>3. CASE TurnedOn
  BY <1>0, <1>3 DEF TurnedOn, ForItsAct, world, history, counters
<1>4. CASE SeenOn
  <2>1. CASE mode = act
    BY <1>0, <1>4, <2>1, EndsInType DEF SeenOn, ForItsAct, world, counters
  <2>2. CASE mode # act
    BY <1>0, <1>4, <2>2 DEF SeenOn, ForItsAct, world, counters
  <2> QED
    BY <2>1, <2>2
<1>5. CASE SeenUnavailable
  BY <1>0, <1>5, EndsInType DEF SeenUnavailable, ForItsAct, world, counters
<1>6. CASE GiveUpWaiting
  BY <1>0, <1>6, EndsInType DEF GiveUpWaiting, ForItsAct, world, counters
<1>7. CASE Selected
  BY <1>0, <1>7, EndsInType, EffectInType DEF Selected, ForItsAct, counters
<1>8. CASE CallFails
  <2>1. /\ charge' \in ChargeStates /\ mode' \in Modes /\ order' \in {"on", "none"}
        /\ owned' \in {"yes", "no"}
    BY <1>8, EffectInType DEF CallFails, ForItsAct
  <2>2. /\ memory' \in Memories /\ pc' = "idle" /\ ended' \in {"failed", "refused"}
        /\ touched' \in {"no", "before", "yes"} /\ failing' \in {"yes", "no"}
        /\ run' \in {"nothing", "started", "stopped"} /\ refused' \in Latches
    BY <1>0, <1>8, EndsInType DEF CallFails, ForItsAct
  <2>3. faults' \in 0..MaxFaults
    BY <1>8, ModeFacts DEF CallFails
  <2> QED
    BY <1>0, <1>8, <2>1, <2>2, <2>3 DEF CallFails, ForItsAct
<1> QED
  BY <1>1, <1>2, <1>3, <1>4, <1>5, <1>6, <1>7, <1>8 DEF Answer

LEMMA SurroundingsInType ==
  ASSUME ApplianceTypeOK, ForItsAct, UNCHANGED driver,
         ComesOn \/ Advance \/ (\E s \in Slots, a \in Actions : Edit(s, a)) \/ ByHand \/ Forget
  PROVE  ApplianceTypeOK' /\ ForItsAct'
<1> USE ModeFacts DEF ApplianceTypeOK, ForItsAct
<1>1. CASE ComesOn
  BY <1>1 DEF ComesOn, attempt, counters, ChargeStates
<1>2. CASE Advance
  BY <1>2 DEF Advance, world, attempt, history, counters, Slots
<1>3. ASSUME NEW s \in Slots, NEW a \in Actions, Edit(s, a)
      PROVE  ApplianceTypeOK' /\ ForItsAct'
  BY <1>3 DEF Edit, world, attempt, history
<1>4. CASE ByHand
  BY <1>4 DEF ByHand, attempt
<1>5. CASE Forget
  BY <1>5 DEF Forget, world, NoMemory, Actions, Latches
<1> QED
  BY <1>1, <1>2, <1>3, <1>4, <1>5

LEMMA StepInType ==
  ASSUME ApplianceTypeOK, ForItsAct, [ApplianceNext]_applianceVars
  PROVE  ApplianceTypeOK' /\ ForItsAct'
<1>1. CASE ApplianceNext
  BY <1>1, ReconcileInType, AnswerInType, SurroundingsInType DEF ApplianceNext
<1>2. CASE UNCHANGED applianceVars
  BY <1>2 DEF applianceVars, world, attempt, history, counters, ApplianceTypeOK, ForItsAct
<1> QED
  BY <1>1, <1>2

(* Every state is of its type. *)
THEOREM ApplianceTypeCorrect == ApplianceSpec => []ApplianceTypeOK
<1>1. ApplianceInit => ApplianceTypeOK /\ ForItsAct
  BY ModeFacts DEF ApplianceInit, ApplianceTypeOK, ForItsAct, Slots, Actions, ChargeStates,
     NoMemory, Latches
<1> QED
  BY <1>1, StepInType, PTL DEF ApplianceSpec

----------------------------------------------------------------------------
(* The strengthening. *)

(* The memory and the newest run of Helman's, or refusal, are of one mind. *)
MemoryKnows ==
  /\ memory.enabled = "yes" <=> run = "started"
  /\ memory.sig \in Modes => memory.enabled = "yes"
  /\ memory.sig = "idle" => memory.enabled = "no"
  /\ memory.kind = "slot_stop" => memory.enabled = "no"
  /\ memory.sig # "none" => memory.latch = NoLatch
  /\ refused = memory.latch

(* While nobody else touches the appliance, a call under way finds it as    *)
(* the attempt did.                                                         *)
AsDecided ==
  touched # "yes" =>
    /\ pc = "turnOff" => charge = "on"
    /\ pc = "set" => charge # "unavailable"
    /\ pc = "select" => charge = "on"

(* What is remembered as done is done, unless an attempt failed since. *)
DoneIsDone ==
  pc = "idle" /\ touched = "no" /\ failing = "no" /\ memory.sig # "none" =>
    AtRest(memory.sig) \/ InMode(memory.sig)

ApplianceInv ==
  ApplianceTypeOK /\ ForItsAct /\ MemoryKnows /\ AsDecided /\ DoneIsDone /\ MatchesPlan

LEMMA ReconcileKnows ==
  ASSUME ApplianceInv, Reconcile, UNCHANGED driver
  PROVE  MemoryKnows' /\ AsDecided' /\ DoneIsDone' /\ MatchesPlan'
<1> USE ModeFacts DEF ApplianceInv, ApplianceTypeOK
<1>0. act' \in Actions /\ pc = "idle"
  BY DecisionInType DEF Reconcile, LeaveAlone, ReadFails, AlreadySo, CallTurnOff, CallSet,
     CallTurnOn, CallSelect, Decide
<1>1. CASE LeaveAlone
  <2>1. UNCHANGED <<charge, mode, pc, owned, touched, run, failing, refused>>
    BY <1>1 DEF LeaveAlone, world, history
  <2>2. CASE act' = "none" /\ NothingToStop /\ ended' = "ok" /\ UNCHANGED memory
    <3>1. run # "started"
      BY <2>2 DEF NothingToStop, MemoryKnows, NoMemory
    <3> QED
      BY <2>1, <2>2, <3>1 DEF MemoryKnows, AsDecided, DoneIsDone, MatchesPlan, AtRest, InMode, Runs
  <2>3. CASE /\ act' # "none" /\ Applied(act')
             /\ ended' = "ok" /\ memory' = Remember(act', "noop")
    <3>1. /\ memory.sig = act' /\ memory'.sig = act' /\ memory'.latch = NoLatch
          /\ memory'.kind = "noop" /\ memory'.enabled = YesNo(Runs(act'))
      BY <2>3 DEF Applied, Remember
    <3>2. MemoryKnows'
      BY <1>0, <2>1, <2>3, <3>1 DEF MemoryKnows, YesNo, Runs, Actions
    <3> QED
      BY <1>0, <2>1, <2>3, <3>1, <3>2 DEF AsDecided, DoneIsDone, MatchesPlan, AtRest, InMode, Runs
  <2>4. CASE ended' = "refused" /\ UNCHANGED memory
    BY <2>1, <2>4 DEF MemoryKnows, AsDecided, DoneIsDone, MatchesPlan, AtRest, InMode, Runs
  <2> QED
    BY <1>1, <2>2, <2>3, <2>4 DEF LeaveAlone
<1>2. CASE ReadFails
  BY <1>2 DEF ReadFails, Fail, MemoryKnows, AsDecided, DoneIsDone, MatchesPlan
<1>3. CASE AlreadySo
  <2>1. UNCHANGED <<charge, mode, owned>> /\ (AtRest(act') \/ InMode(act')) /\ Succeed
    BY <1>3 DEF AlreadySo, world
  <2> QED
    BY <1>0, <2>1 DEF Succeed, Remember, YesNo, MemoryKnows, AsDecided, DoneIsDone, MatchesPlan,
       AtRest, InMode, Runs, Actions
<1>4. CASE CallTurnOff
  BY <1>4 DEF CallTurnOff, StartCall, world, MemoryKnows, AsDecided, DoneIsDone, MatchesPlan
<1>5. CASE CallSet
  BY <1>5 DEF CallSet, StartCall, world, MemoryKnows, AsDecided, DoneIsDone, MatchesPlan
<1>6. CASE CallTurnOn
  BY <1>6 DEF CallTurnOn, StartCall, MemoryKnows, AsDecided, DoneIsDone, MatchesPlan
<1>7. CASE CallSelect
  BY <1>7 DEF CallSelect, StartCall, world, MemoryKnows, AsDecided, DoneIsDone, MatchesPlan
<1> QED
  BY <1>1, <1>2, <1>3, <1>4, <1>5, <1>6, <1>7 DEF Reconcile

(* What an attempt that succeeds leaves, given that it did its work. *)
LEMMA SuccessKnows ==
  ASSUME ApplianceInv, Succeed, act' = act, pc # "idle",
         touched # "yes" => (~Runs(act) /\ charge' = "off") \/ (Runs(act) /\ charge' = "on" /\ mode' = act)
  PROVE  MemoryKnows' /\ AsDecided' /\ DoneIsDone' /\ MatchesPlan'
<1> USE ModeFacts DEF ApplianceInv, ApplianceTypeOK
<1>1. act \in Actions
  OBVIOUS
<1> QED
  BY <1>1 DEF Succeed, Remember, YesNo, MemoryKnows, AsDecided, DoneIsDone, MatchesPlan,
     AtRest, InMode, Runs, Actions

(* An attempt that fails, or is refused, leaves a memory that knows of it or *)
(* a mark that it does not.                                                  *)
LEMMA FailureKnows ==
  ASSUME ApplianceInv, Fail \/ (act \in Modes /\ Refuse), act' = act
  PROVE  MemoryKnows' /\ AsDecided' /\ DoneIsDone' /\ MatchesPlan'
<1> USE ModeFacts DEF ApplianceInv, ApplianceTypeOK
<1>1. CASE Fail
  BY <1>1 DEF Fail, MemoryKnows, AsDecided, DoneIsDone, MatchesPlan
<1>2. CASE act \in Modes /\ Refuse
  BY <1>2 DEF Refuse, MemoryKnows, AsDecided, DoneIsDone, MatchesPlan
<1> QED
  BY <1>1, <1>2

LEMMA AnswerKnows ==
  ASSUME ApplianceInv, Answer, UNCHANGED driver
  PROVE  MemoryKnows' /\ AsDecided' /\ DoneIsDone' /\ MatchesPlan'
<1> USE DEF ApplianceInv, ForItsAct
<1>0. act' = act /\ at' = at /\ pc # "idle"
  BY DEF Answer, TurnedOff, SetDone, TurnedOn, SeenOn, SeenUnavailable, GiveUpWaiting, Selected,
     CallFails, Keep
<1>1. CASE TurnedOff
  BY <1>0, <1>1, SuccessKnows DEF TurnedOff, Effect, AsDecided, Runs
<1>2. CASE SetDone
  BY <1>0, <1>2, SuccessKnows DEF SetDone, Effect, AsDecided, Runs
<1>3. CASE TurnedOn
  BY <1>0, <1>3 DEF TurnedOn, world, history, MemoryKnows, AsDecided, DoneIsDone, MatchesPlan
<1>4. CASE SeenOn
  <2>1. CASE mode = act
    BY <1>0, <1>4, <2>1, SuccessKnows DEF SeenOn, world, Runs
  <2>2. CASE mode # act
    BY <1>0, <1>4, <2>2 DEF SeenOn, world, MemoryKnows, AsDecided, DoneIsDone, MatchesPlan
  <2> QED
    BY <2>1, <2>2
<1>5. CASE SeenUnavailable
  BY <1>0, <1>5, FailureKnows DEF SeenUnavailable
<1>6. CASE GiveUpWaiting
  BY <1>0, <1>6, FailureKnows DEF GiveUpWaiting
<1>7. CASE Selected
  BY <1>0, <1>7, SuccessKnows DEF Selected, Effect, AsDecided, Runs
<1>8. CASE CallFails
  BY <1>0, <1>8, FailureKnows DEF CallFails
<1> QED
  BY <1>1, <1>2, <1>3, <1>4, <1>5, <1>6, <1>7, <1>8 DEF Answer

LEMMA SurroundingsKnow ==
  ASSUME ApplianceInv,
         ComesOn \/ Advance \/ (\E s \in Slots, a \in Actions : Edit(s, a)) \/ ByHand \/ Forget
  PROVE  MemoryKnows' /\ AsDecided' /\ DoneIsDone' /\ MatchesPlan'
<1> USE DEF ApplianceInv, ForItsAct, MemoryKnows, AsDecided, DoneIsDone, MatchesPlan, AtRest, InMode, Runs
<1>1. CASE ComesOn
  BY <1>1 DEF ComesOn, attempt
<1>2. CASE Advance
  BY <1>2 DEF Advance, world, attempt, history
<1>3. ASSUME NEW s \in Slots, NEW a \in Actions, Edit(s, a)
      PROVE  MemoryKnows' /\ AsDecided' /\ DoneIsDone' /\ MatchesPlan'
  BY <1>3 DEF Edit, world, attempt, history
<1>4. CASE ByHand
  BY <1>4 DEF ByHand, attempt
<1>5. CASE Forget
  BY <1>5, ModeFacts DEF Forget, world, NoMemory
<1> QED
  BY <1>1, <1>2, <1>3, <1>4, <1>5

LEMMA StepKnows ==
  ASSUME ApplianceInv, [ApplianceNext]_applianceVars
  PROVE  ApplianceInv'
<1>1. ApplianceTypeOK' /\ ForItsAct'
  BY StepInType DEF ApplianceInv
<1>2. CASE ApplianceNext
  <2>1. MemoryKnows' /\ AsDecided' /\ DoneIsDone' /\ MatchesPlan'
    BY <1>2, ReconcileKnows, AnswerKnows, SurroundingsKnow DEF ApplianceNext
  <2> QED
    BY <1>1, <2>1 DEF ApplianceInv
<1>3. CASE UNCHANGED applianceVars
  BY <1>1, <1>3 DEF ApplianceInv, applianceVars, world, attempt, history, MemoryKnows, AsDecided,
     DoneIsDone, MatchesPlan, AtRest, InMode
<1> QED
  BY <1>2, <1>3

LEMMA InvFromInit == ApplianceInit => ApplianceInv
BY ModeFacts DEF ApplianceInit, ApplianceInv, ApplianceTypeOK, ForItsAct, Slots, Actions, ChargeStates,
   NoMemory, Latches, MemoryKnows, AsDecided, DoneIsDone, MatchesPlan

LEMMA InvHolds == ApplianceSpec => []ApplianceInv
BY InvFromInit, StepKnows, PTL DEF ApplianceSpec

(* An attempt that reports no failure left the appliance as planned. *)
THEOREM SuccessMatchesPlan == ApplianceSpec => []ApplianceInvariant
<1>1. ApplianceInv => ApplianceInvariant
  BY DEF ApplianceInv, ApplianceInvariant
<1> QED
  BY <1>1, InvHolds, PTL

(* In an empty slot only the memory can tell that a run is Helman's: the    *)
(* last scheduled action is that slot's, and it is none.                    *)
LEMMA EmptySlotHasNoLast ==
  ASSUME slot \in Slots, plan[slot] = "none"
  PROVE  ~Runs(LastScheduled)
<1>1. {s \in 0..slot : Pruned[s] # "none"} = {}
  <2>1. ASSUME NEW s \in 0..slot PROVE Pruned[s] = "none"
    <3>1. s \in Slots /\ s \in Int /\ slot \in Int /\ s <= slot
      BY ModeFacts DEF Slots
    <3>2. CASE s = slot
      BY <3>1, <3>2 DEF Pruned
    <3>3. CASE s + 1 <= slot
      BY <3>1, <3>3 DEF Pruned
    <3> QED
      BY <3>1, <3>2, <3>3
  <2> QED
    BY <2>1
<1> QED
  BY <1>1, ModeFacts DEF LastScheduled, Runs

(* An empty slot switches off only what Helman ran. *)
THEOREM StopsOnlyOwnRuns == ApplianceSpec => OnlyOwnRunsStopped
<1>1. ApplianceInv /\ [ApplianceNext]_applianceVars
        => [pc = "idle" /\ pc' = "turnOff" /\ act' = "none" => run = "started"]_applianceVars
  <2> SUFFICES ASSUME ApplianceInv, ApplianceNext, pc = "idle", pc' = "turnOff", act' = "none"
               PROVE  run = "started"
    BY DEF applianceVars, attempt
  <2>1. CallTurnOff
    BY DEF ApplianceNext, Reconcile, LeaveAlone, ReadFails, AlreadySo, CallSet, CallTurnOn,
       CallSelect, Answer, TurnedOff, SetDone, TurnedOn, SeenOn, SeenUnavailable, GiveUpWaiting,
       Selected, CallFails, ComesOn, Advance, Edit, ByHand, Forget, StartCall, Succeed, Fail, Refuse,
       attempt
  <2>2. ~NothingToStop /\ plan[slot] = "none" /\ slot \in Slots
    BY <2>1 DEF CallTurnOff, Decide, ToApply, ApplianceInv, ApplianceTypeOK
  <2>3. memory # NoMemory /\ memory.enabled # "no"
    BY <2>2, EmptySlotHasNoLast DEF NothingToStop
  <2> QED
    BY <2>3 DEF ApplianceInv, ApplianceTypeOK, MemoryKnows
<1> QED
  BY <1>1, InvHolds, PTL DEF ApplianceSpec, OnlyOwnRunsStopped

(* A refused start is not repeated while nothing about it has changed. *)
THEOREM RefusalsHold == ApplianceSpec => RefusedNotRetried
<1>1. ApplianceInv /\ [ApplianceNext]_applianceVars
        => [pc = "idle" /\ pc' = "turnOn" =>
              refused = NoLatch \/ refused # Fingerprint(act')]_applianceVars
  <2> SUFFICES ASSUME ApplianceInv, ApplianceNext, pc = "idle", pc' = "turnOn"
               PROVE  refused = NoLatch \/ refused # Fingerprint(act')
    BY DEF applianceVars, attempt
  <2>1. CallTurnOn
    BY DEF ApplianceNext, Reconcile, LeaveAlone, ReadFails, AlreadySo, CallSet, CallTurnOff,
       CallSelect, Answer, TurnedOff, SetDone, TurnedOn, SeenOn, SeenUnavailable, GiveUpWaiting,
       Selected, CallFails, ComesOn, Advance, Edit, ByHand, Forget, StartCall, Succeed, Fail, Refuse,
       attempt
  <2>2. ~Latched(act')
    BY <2>1, ModeFacts DEF CallTurnOn, ToApply, Runs
  <2> QED
    BY <2>2 DEF Latched, ApplianceInv, MemoryKnows
<1> QED
  BY <1>1, InvHolds, PTL DEF ApplianceSpec, RefusedNotRetried

-----------------------------------------------------------------------------
(***************************************************************************)
(* The parts together: whichever part a behaviour is of, the state of each *)
(* keeps that part's invariant.                                            *)
(***************************************************************************)

PlanningInv == IInv /\ LockInv /\ DayBandsInv /\ ApplianceInv

LEMMA StartEstablishes == Start => PlanningInv
BY InitEstablishes, LockInit, BandsInit, InvFromInit DEF Start, PlanningInv

LEMMA StepPreserves == PlanningInv /\ [Step]_planningVars => PlanningInv'
<1> SUFFICES ASSUME PlanningInv, [Step]_planningVars PROVE PlanningInv'
  OBVIOUS
<1>1. [Next]_vars /\ [PipelineNext]_pipelineVars /\ [DayBandsNext]_bandVars
        /\ [ApplianceNext]_applianceVars
  BY DEF Step, planningVars
<1> QED
  BY <1>1, StepKeeps, LockStep, BandsStep, StepKnows DEF PlanningInv

(* Every part's state is of its type, no band flips at a hovering ratio,    *)
(* and no attempt reports a success it did not have.                        *)
THEOREM PlanningHolds == PlanningSpec => []PlanningInvariant
<1>1. PlanningInv => PlanningInvariant
  BY LockTyped
     DEF PlanningInv, PlanningInvariant, IInv, DayBandsInv, ApplianceInv, ApplianceInvariant
<1> QED
  BY <1>1, StartEstablishes, StepPreserves, PTL DEF PlanningSpec
=============================================================================
