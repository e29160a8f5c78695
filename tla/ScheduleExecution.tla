-------------------------- MODULE ScheduleExecution --------------------------
(***************************************************************************)
(* The execution switch, the schedule document behind it and the reconcile *)
(* worker: ScheduleService (scheduling/schedule_service.py) composed with   *)
(* ScheduleExecutor (scheduling/schedule_executor.py) and the gate of       *)
(* ScheduleActuator (scheduling/actuation.py).                             *)
(*                                                                         *)
(* Clients call set_execution; a writer (set_slots, an automation run)     *)
(* rewrites the slots; the worker applies the document to the hardware,    *)
(* one attempt at a time, and background requests and waiting enables      *)
(* merge into a single follow-up.  One asyncio event loop runs them all,   *)
(* so an action is what one of them does between two suspension points:    *)
(* waiting for a lock, for the disk, for the hardware or for a waiter.     *)
(*                                                                         *)
(* The document is its execution flag plus a version number of its slots.  *)
(* The locks are FIFO in asyncio; here any waiter may be next, which is    *)
(* more behaviours, and the fairness below is what FIFO guarantees.        *)
(***************************************************************************)
EXTENDS Naturals

CONSTANTS
  Clients,          \* concurrent callers of set_execution
  MaxCalls,         \* bound: calls made in one behaviour
  MaxWrites,        \* bound: slot writes in one behaviour
  HardwareCalls,    \* bound: hardware calls one attempt makes at most
  Faults            \* what can go wrong in an attempt: "failed" (a hardware call
                    \* ends in a ScheduleError), "broken" (any other exception)

Free       == "free"
Writer     == "writer"
Worker     == "worker"
Background == "background"

ASSUME ClientsAssumption == {Free, Writer, Worker, Background} \cap Clients = {}
ASSUME BoundsAssumption  == MaxCalls \in Nat /\ MaxWrites \in Nat /\ HardwareCalls \in Nat
ASSUME FaultsAssumption == Faults \subseteq {"failed", "broken"}

VARIABLES
  flag, slots,      \* the stored document, in memory: execution_enabled, slots version
  disk,             \* execution_enabled as last written to disk
  docLock,          \* holder of ScheduleService._lock
  flagLock,         \* holder of ScheduleService._execution_lock
  generation,       \* _execution_generation
  pc,               \* where each client is inside set_execution
  call,             \* its locals: wanted flag, was_enabled, generation
  reply,            \* what its last call returned or raised
  waiter,           \* the future its enable waits on
  calls,            \* calls made so far
  edit,             \* the writer: "idle", "editing" the document it read, "saving"
  editFlag,         \* the flag in the document the writer read
  executor,         \* "new", "running", "stopping", "down"
  pending,          \* who asked for the pending reconcile; {} when there is none
  worker,           \* what the worker task is doing
  serving,          \* who asked for the attempt being made
  left, failed,     \* hardware calls the attempt has left; whether one failed
  runtime           \* the runtime record, status and memories: "blank" or filled,
                    \* "live" in the present on-period or "stale", from an earlier

(* History, read by the properties only. *)
VARIABLES
  decided,          \* the newest decision about the flag
  enabler,          \* the client whose enable began the present on-period
  ackOff,           \* "yes" from the return of a disable to the next enable
  served,           \* what the attempt that served a client's waiter did
  looked,           \* the slots version the attempt was taken up with, or has read
  outdated          \* "yes" once an on-period began under a running attempt

docVars     == <<flag, slots, disk, docLock>>
clientVars  == <<flagLock, generation, pc, call, reply, waiter, calls>>
writerVars  == <<edit, editFlag>>
workerVars  == <<executor, pending, worker, serving, left, failed>>
history     == <<decided, enabler, ackOff, served, looked, outdated>>
vars        == <<docVars, clientVars, writerVars, workerVars, runtime, history>>

Flags     == {"on", "off"}
DocPlaces == {"saving", "rollSaving", "offSaving"}      \* client holds the document lock
Places    == {"idle", "flag", "decide", "waiting", "get", "rollback", "rollDoc",
              "offDoc", "offGet"} \cup DocPlaces
Ended     == {"none", "done", "refused", "failed", "broken"}
Active    == {"checking", "reading", "pruning", "acting", "calling"}

TypeOK ==
  /\ flag \in Flags /\ disk \in Flags /\ decided \in Flags
  /\ slots \in 0..MaxWrites /\ looked \in 0..MaxWrites
  /\ docLock \in Clients \cup {Free, Writer, Worker}
  /\ flagLock \in Clients \cup {Free}
  /\ generation \in Nat
  /\ pc \in [Clients -> Places]
  /\ call \in [Clients -> [want : Flags, was : Flags, gen : Nat]]
  /\ reply \in [Clients -> [end : Ended, flag : Flags, transitioned : {"yes", "no"}]]
  /\ waiter \in [Clients -> {"none", "waiting", "ok", "failed", "broken", "cancelled"}]
  /\ calls \in 0..MaxCalls
  /\ edit \in {"idle", "editing", "saving"} /\ editFlag \in Flags
  /\ executor \in {"new", "running", "stopping", "down"}
  /\ pending \subseteq Clients \cup {Background}
  /\ serving \subseteq Clients \cup {Background}
  /\ worker \in Active \cup {"idle", "cancelled"}
  /\ left \in 0..HardwareCalls /\ failed \in {"yes", "no"}
  /\ outdated \in {"yes", "no"} /\ runtime \in {"blank", "live", "stale"}
  /\ enabler \in Clients \cup {Free}
  /\ ackOff \in {"yes", "no"}
  /\ served \in [Clients -> {"none", "deferred", "skipped", "applied"}]

NoReply == [end |-> "none", flag |-> "off", transitioned |-> "no"]
Init ==
  /\ flag \in Flags /\ disk = flag /\ decided = flag
  /\ slots = 0 /\ looked = 0
  /\ docLock = Free /\ flagLock = Free
  /\ generation = 0
  /\ pc = [c \in Clients |-> "idle"]
  /\ call = [c \in Clients |-> [want |-> "off", was |-> "off", gen |-> 0]]
  /\ reply = [c \in Clients |-> NoReply]
  /\ waiter = [c \in Clients |-> "none"]
  /\ calls = 0
  /\ edit = "idle" /\ editFlag = "off"
  /\ executor = "new" /\ pending = {} /\ worker = "idle" /\ serving = {}
  /\ left = 0 /\ failed = "no"
  /\ outdated = "no" /\ runtime = "blank"
  /\ enabler = Free /\ ackOff = "no"
  /\ served = [c \in Clients |-> "none"]
-----------------------------------------------------------------------------
(* Helpers. *)

Goto(c, place) == pc' = [pc EXCEPT ![c] = place]

(* set_execution ends. *)
Reply(c, end, on, transitioned) ==
  /\ Goto(c, "idle")
  /\ reply' = [reply EXCEPT ![c] = [end |-> end, flag |-> on, transitioned |-> transitioned]]

(* reset_runtime: an attempt under way is not told. *)
ResetRuntime == runtime' = "blank"

(* request_reconcile: ignored by a stopped executor. *)
RequestReconcile ==
  pending' = IF executor = "running" THEN pending \cup {Background} ELSE pending

(* Faulty variant: a waiting enable replaces the pending request. *)
QueueAndWaitReplaces(c) ==
  IF executor = "running"
    THEN /\ pending' = {c}
         /\ waiter' = [waiter EXCEPT ![c] = "waiting"]
    ELSE /\ waiter' = [waiter EXCEPT ![c] = "cancelled"]
         /\ UNCHANGED pending

(* async_reconcile_and_wait, up to its await.  A stopped executor makes no  *)
(* waiter, and the enable goes on to its except branch at once.             *)
QueueAndWait(c) ==
  IF executor = "running"
    THEN /\ pending' = pending \cup {c}
         /\ waiter' = [waiter EXCEPT ![c] = "waiting"]
    ELSE /\ waiter' = [waiter EXCEPT ![c] = "cancelled"]
         /\ UNCHANGED pending
-----------------------------------------------------------------------------
(* set_execution, up to the decision. *)

Call(c) ==
  /\ pc[c] = "idle" /\ calls < MaxCalls
  /\ calls' = calls + 1
  /\ Goto(c, "flag")
  /\ reply' = [reply EXCEPT ![c] = NoReply]
  /\ served' = [served EXCEPT ![c] = "none"]
  /\ waiter' = [waiter EXCEPT ![c] = "none"]
  /\ \E want \in Flags : call' = [call EXCEPT ![c] = [want |-> want, was |-> "off", gen |-> 0]]
  /\ UNCHANGED <<docVars, flagLock, generation, writerVars, workerVars, runtime,
                 decided, enabler, ackOff, looked, outdated>>

TakeFlagLock(c) ==
  /\ pc[c] = "flag" /\ flagLock = Free
  /\ flagLock' = c
  /\ Goto(c, "decide")
  /\ UNCHANGED <<docVars, generation, call, reply, waiter, calls, writerVars, workerVars,
                 runtime, history>>

(* An enable while the executor is not running: answered if the flag is    *)
(* already on, refused otherwise; nothing is stored.                       *)
DecideNotRunning(c) ==
  /\ pc[c] = "decide" /\ docLock = Free
  /\ call[c].want = "on" /\ executor # "running"
  /\ Reply(c, IF flag = "on" THEN "done" ELSE "refused", flag, "no")
  /\ flagLock' = Free
  /\ UNCHANGED <<docVars, generation, call, waiter, calls, writerVars, workerVars,
                 runtime, history>>

(* An off-to-on enable: the flag is stored, the disk write awaited. *)
DecideEnable(c) ==
  /\ pc[c] = "decide" /\ docLock = Free
  /\ call[c].want = "on" /\ executor = "running" /\ flag = "off"
  /\ flag' = "on" /\ docLock' = c
  /\ call' = [call EXCEPT ![c].was = "off"]
  /\ Goto(c, "saving")
  /\ enabler' = c /\ ackOff' = "no"
  /\ runtime' = IF runtime = "live" THEN "stale" ELSE runtime
  /\ outdated' = IF worker \in {"acting", "calling"} THEN "yes" ELSE outdated
  /\ UNCHANGED <<slots, disk, flagLock, generation, reply, waiter, calls, writerVars,
                 workerVars, decided, served, looked>>

(* Stored: the transition gets its generation, both locks are released and *)
(* the enable joins the reconcile queue.                                   *)
EnableStored(c) ==
  /\ pc[c] = "saving"
  /\ disk' = flag /\ docLock' = Free /\ flagLock' = Free
  /\ generation' = generation + 1
  /\ call' = [call EXCEPT ![c].gen = generation + 1]
  /\ decided' = "on"
  /\ QueueAndWait(c)
  /\ Goto(c, "waiting")
  /\ UNCHANGED <<flag, slots, reply, calls, writerVars, executor, worker, serving, left, failed,
                 runtime, enabler, ackOff, served, looked, outdated>>

(* A repeated enable stores nothing and is no transition. *)
DecideEnableAgain(c) ==
  /\ pc[c] = "decide" /\ docLock = Free
  /\ call[c].want = "on" /\ executor = "running" /\ flag = "on"
  /\ call' = [call EXCEPT ![c].was = "on", ![c].gen = generation]
  /\ flagLock' = Free
  /\ QueueAndWait(c)
  /\ Goto(c, "waiting")
  /\ UNCHANGED <<docVars, generation, reply, calls, writerVars, executor, worker, serving,
                 left, failed, runtime, history>>

(* A disable that finds the flag off only drops the runtime. *)
DecideDisableAgain(c) ==
  /\ pc[c] = "decide" /\ docLock = Free
  /\ call[c].want = "off" /\ flag = "off"
  /\ ResetRuntime
  /\ flagLock' = Free
  /\ Reply(c, "done", "off", "no")
  /\ ackOff' = "yes"
  /\ UNCHANGED <<docVars, generation, call, waiter, calls, writerVars, workerVars,
                 decided, enabler, served, looked, outdated>>

(* A disable: the generation moves and the runtime is dropped before the   *)
(* flag is stored, under the document lock, which is taken anew.           *)
DecideDisable(c) ==
  /\ pc[c] = "decide" /\ docLock = Free
  /\ call[c].want = "off" /\ flag = "on"
  /\ generation' = generation + 1
  /\ decided' = "off"
  /\ ResetRuntime
  /\ Goto(c, "offDoc")
  /\ UNCHANGED <<docVars, flagLock, call, reply, waiter, calls, writerVars, workerVars,
                 enabler, ackOff, served, looked, outdated>>

StoreOff(c) ==                          \* _persist_execution_disabled, for a disable
  /\ pc[c] = "offDoc" /\ docLock = Free
  /\ IF flag = "on"
       THEN flag' = "off" /\ docLock' = c /\ Goto(c, "offSaving")
       ELSE Goto(c, "offGet") /\ UNCHANGED <<flag, docLock>>
  /\ UNCHANGED <<slots, disk, flagLock, generation, call, reply, waiter, calls, writerVars,
                 workerVars, runtime, history>>

(* Faulty variant: the disk write is not awaited and is lost. *)
OffStoredNotOnDisk(c) ==
  /\ pc[c] = "offSaving"
  /\ docLock' = Free
  /\ Goto(c, "offGet")
  /\ UNCHANGED <<flag, slots, disk, flagLock, generation, call, reply, waiter, calls, writerVars,
                 workerVars, runtime, history>>

OffStored(c) ==
  /\ pc[c] = "offSaving"
  /\ disk' = flag /\ docLock' = Free
  /\ Goto(c, "offGet")
  /\ UNCHANGED <<flag, slots, flagLock, generation, call, reply, waiter, calls, writerVars,
                 workerVars, runtime, history>>

DisableReturns(c) ==
  /\ pc[c] = "offGet" /\ docLock = Free
  /\ flagLock' = Free
  /\ Reply(c, "done", flag, "no")
  /\ ackOff' = "yes"
  /\ UNCHANGED <<docVars, generation, call, waiter, calls, writerVars, workerVars,
                 runtime, decided, enabler, served, looked, outdated>>
-----------------------------------------------------------------------------
(* set_execution, after the reconcile an enable waited for. *)

ReconcileSucceeded(c) ==
  /\ pc[c] = "waiting" /\ waiter[c] = "ok"
  /\ Goto(c, "get")
  /\ UNCHANGED <<docVars, flagLock, generation, call, reply, waiter, calls, writerVars,
                 workerVars, runtime, history>>

(* A ScheduleError -- the attempt's, or "unavailable" for a waiter the stop *)
(* cancelled.  Superseded: the outcome is moot.  Else the transition, if    *)
(* this call made one, is to be rolled back.                                *)
ReconcileFailed(c) ==
  /\ pc[c] = "waiting" /\ waiter[c] \in {"failed", "cancelled"}
  /\ \/ call[c].gen # generation /\ Goto(c, "get") /\ UNCHANGED reply
     \/ call[c].gen = generation /\ call[c].was = "off" /\ Goto(c, "rollback") /\ UNCHANGED reply
     \/ call[c].gen = generation /\ call[c].was = "on" /\ Reply(c, "failed", flag, "no")
  /\ UNCHANGED <<docVars, flagLock, generation, call, waiter, calls, writerVars, workerVars,
                 runtime, history>>

(* Any other exception propagates: no branch of set_execution catches it. *)
ReconcileBroke(c) ==
  /\ pc[c] = "waiting" /\ waiter[c] = "broken"
  /\ Reply(c, "broken", flag, "no")
  /\ UNCHANGED <<docVars, flagLock, generation, call, waiter, calls, writerVars, workerVars,
                 runtime, history>>

(* Faulty variant: a newer transition is not looked for. *)
EnableReturnsUnchecked(c) ==
  /\ pc[c] = "get" /\ docLock = Free
  /\ Reply(c, "done", flag, IF flag = "on" /\ call[c].was = "off" THEN "yes" ELSE "no")
  /\ UNCHANGED <<docVars, flagLock, generation, call, waiter, calls, writerVars, workerVars,
                 runtime, history>>

(* The flag is reported as stored; the transition is announced only while  *)
(* it is still the newest.                                                 *)
EnableReturns(c) ==
  /\ pc[c] = "get" /\ docLock = Free
  /\ Reply(c, "done", flag,
           IF flag = "on" /\ call[c].was = "off" /\ call[c].gen = generation
             THEN "yes" ELSE "no")
  /\ UNCHANGED <<docVars, flagLock, generation, call, waiter, calls, writerVars, workerVars,
                 runtime, history>>

(* Faulty variant: a newer decision is rolled back too. *)
RollBackUnchecked(c) ==
  /\ pc[c] = "rollback" /\ flagLock = Free
  /\ flagLock' = c
  /\ generation' = generation + 1
  /\ decided' = "off"
  /\ Goto(c, "rollDoc")
  /\ UNCHANGED <<docVars, call, reply, waiter, calls, writerVars, workerVars, runtime,
                 enabler, ackOff, served, looked, outdated>>

(* _roll_back_failed_enable: a newer decision is left alone; otherwise the *)
(* rollback is a transition of its own.                                    *)
RollBack(c) ==
  /\ pc[c] = "rollback" /\ flagLock = Free
  /\ \/ /\ call[c].gen # generation
        /\ Reply(c, "failed", flag, "no")
        /\ UNCHANGED <<flagLock, generation, decided>>
     \/ /\ call[c].gen = generation
        /\ flagLock' = c
        /\ generation' = generation + 1
        /\ decided' = "off"
        /\ Goto(c, "rollDoc")
        /\ UNCHANGED reply
  /\ UNCHANGED <<docVars, call, waiter, calls, writerVars, workerVars, runtime,
                 enabler, ackOff, served, looked, outdated>>

RollBackStoreOff(c) ==                  \* _persist_execution_disabled, for a rollback
  /\ pc[c] = "rollDoc" /\ docLock = Free
  /\ IF flag = "on"
       THEN /\ flag' = "off" /\ docLock' = c
            /\ Goto(c, "rollSaving")
            /\ UNCHANGED <<flagLock, reply, runtime>>
       ELSE /\ ResetRuntime
            /\ flagLock' = Free
            /\ Reply(c, "failed", flag, "no")
            /\ UNCHANGED <<flag, docLock>>
  /\ UNCHANGED <<slots, disk, generation, call, waiter, calls, writerVars, workerVars, history>>

RollBackStored(c) ==
  /\ pc[c] = "rollSaving"
  /\ disk' = flag /\ docLock' = Free /\ flagLock' = Free
  /\ ResetRuntime
  /\ Reply(c, "failed", flag, "no")
  /\ UNCHANGED <<flag, slots, generation, call, waiter, calls, writerVars, workerVars, history>>
-----------------------------------------------------------------------------
(* The writer: set_slots, persist_automation_result and the automation     *)
(* cleanup all rewrite the document they read under the same lock, keeping *)
(* the flag they found in it, and ask for a reconcile afterwards.          *)

(* Faulty variant: the document is read outside the lock. *)
EditReadsUnlocked ==
  /\ edit = "idle" /\ slots < MaxWrites
  /\ edit' = "editing" /\ editFlag' = flag
  /\ UNCHANGED <<docVars, clientVars, workerVars, runtime, history>>

EditReads ==
  /\ edit = "idle" /\ docLock = Free /\ slots < MaxWrites
  /\ docLock' = Writer
  /\ edit' = "editing" /\ editFlag' = flag
  /\ UNCHANGED <<flag, slots, disk, clientVars, workerVars, runtime, history>>

EditSaves ==
  /\ edit = "editing"
  /\ edit' = "saving"
  /\ flag' = editFlag /\ slots' = slots + 1
  /\ UNCHANGED <<disk, docLock, clientVars, editFlag, workerVars, runtime, history>>

(* Faulty variant: the write asks for no reconcile. *)
EditStoredSilently ==
  /\ edit = "saving"
  /\ edit' = "idle"
  /\ disk' = flag /\ docLock' = Free
  /\ UNCHANGED <<flag, slots, clientVars, editFlag, workerVars, runtime, history>>

EditStored ==
  /\ edit = "saving"
  /\ edit' = "idle"
  /\ disk' = flag /\ docLock' = Free
  /\ RequestReconcile
  /\ UNCHANGED <<flag, slots, clientVars, editFlag, executor, worker, serving, left, failed,
                 runtime, history>>
-----------------------------------------------------------------------------
(* The worker.  An attempt ends by resolving the waiters it serves. *)

EndAttempt(outcome, did) ==
  /\ worker' = "idle" /\ serving' = {}
  /\ waiter' = [c \in Clients |-> IF c \in serving /\ waiter[c] = "waiting"
                                    THEN outcome ELSE waiter[c]]
  /\ served' = [c \in Clients |-> IF c \in serving THEN did ELSE served[c]]

TakeRequest ==                          \* the next turn of _async_run_reconcile_worker
  /\ worker = "idle" /\ pending # {} /\ executor = "running"
  /\ serving' = pending /\ pending' = {}
  /\ worker' = "checking"
  /\ looked' = slots
  /\ UNCHANGED <<docVars, clientVars, writerVars, executor, left, failed, runtime,
                 decided, enabler, ackOff, served, outdated>>

(* The reality check: the plan is executed, or the attempt defers to a re-plan. *)
CheckPasses ==
  /\ worker = "checking"
  /\ worker' = "reading"
  /\ UNCHANGED <<docVars, clientVars, writerVars, executor, pending, serving, left, failed,
                 runtime, history>>

CheckDefers ==
  /\ worker = "checking"
  /\ EndAttempt("ok", "deferred")
  /\ UNCHANGED <<docVars, flagLock, generation, pc, call, reply, calls, writerVars, executor,
                 pending, left, failed, runtime, decided, enabler, ackOff, looked, outdated>>

(* The document is read; if slots have expired it is also stored, quietly, *)
(* and the lock is held until the disk has it.                             *)
ReadPrunes ==
  /\ worker = "reading" /\ docLock = Free
  /\ docLock' = Worker
  /\ worker' = "pruning"
  /\ UNCHANGED <<flag, slots, disk, clientVars, writerVars, executor, pending, serving,
                 left, failed, runtime, history>>

DocumentRead ==
  \/ worker = "reading" /\ docLock = Free /\ UNCHANGED <<disk, docLock>>
  \/ worker = "pruning" /\ docLock' = Free /\ disk' = flag

(* Execution is off: the runtime is dropped and nothing is applied. *)
ReadOff ==
  /\ DocumentRead /\ flag = "off"
  /\ EndAttempt("ok", "skipped")
  /\ runtime' = "blank"
  /\ looked' = slots
  /\ UNCHANGED <<flag, slots, flagLock, generation, pc, call, reply, calls, writerVars,
                 executor, pending, left, failed, decided, enabler, ackOff, outdated>>

(* Execution is on: the attempt has some hardware calls to make. *)
ReadOn ==
  /\ DocumentRead /\ flag = "on"
  /\ worker' = "acting"
  /\ left' \in 0..HardwareCalls /\ failed' = "no"
  /\ outdated' = "no"
  /\ looked' = slots
  /\ UNCHANGED <<flag, slots, clientVars, writerVars, executor, pending, serving, runtime,
                 decided, enabler, ackOff, served>>

(* Faulty variants: the gate is left out; one call too many is made. *)
CallHardwareUngated ==
  /\ worker = "acting" /\ left > 0
  /\ left' = left - 1
  /\ worker' = "calling"
  /\ UNCHANGED <<docVars, clientVars, writerVars, executor, pending, serving, failed, runtime,
                 history>>

CallHardwareOnceMore ==
  /\ worker = "acting" /\ left >= 0
  /\ left' = left - 1
  /\ IF flag = "on"
       THEN worker' = "calling" /\ UNCHANGED failed
       ELSE failed' = "yes" /\ UNCHANGED worker
  /\ UNCHANGED <<docVars, clientVars, writerVars, executor, pending, serving, runtime, history>>

(* ScheduleActuator.async_call: the gate reads the stored flag afresh. *)
CallHardware ==
  /\ worker = "acting" /\ left > 0
  /\ left' = left - 1
  /\ IF flag = "on"
       THEN worker' = "calling" /\ UNCHANGED failed
       ELSE failed' = "yes" /\ UNCHANGED worker
  /\ UNCHANGED <<docVars, clientVars, writerVars, executor, pending, serving, runtime, history>>

(* The call returns, fails or times out; the attempt goes on either way. *)
HardwareAnswers ==
  /\ worker = "calling"
  /\ worker' = "acting"
  /\ failed' \in IF "failed" \in Faults THEN {failed, "yes"} ELSE {failed}
  /\ UNCHANGED <<docVars, clientVars, writerVars, executor, pending, serving, left,
                 runtime, history>>

(* Memories and status go into whatever runtime is current by now. *)
FinishAttempt ==
  /\ worker = "acting" /\ left = 0
  /\ EndAttempt(IF failed = "yes" THEN "failed" ELSE "ok", "applied")
  /\ runtime' = IF outdated = "yes" THEN "stale" ELSE "live"
  /\ UNCHANGED <<docVars, flagLock, generation, pc, call, reply, calls, writerVars, executor,
                 pending, left, failed, decided, enabler, ackOff, looked, outdated>>

(* Faulty variant: the follow-up request goes with the attempt that raised. *)
AttemptBreaksWithFollowUp ==
  /\ "broken" \in Faults
  /\ worker \in {"checking", "reading", "acting"}
  /\ EndAttempt("broken", "none")
  /\ pending' = {}
  /\ UNCHANGED <<docVars, flagLock, generation, pc, call, reply, calls, writerVars, executor,
                 left, failed, runtime, decided, enabler, ackOff, looked, outdated>>

(* An exception that is no ScheduleError, from the check to the last call. *)
AttemptBreaks ==
  /\ "broken" \in Faults
  /\ worker \in {"checking", "reading", "acting"}
  /\ EndAttempt("broken", "none")
  /\ UNCHANGED <<docVars, flagLock, generation, pc, call, reply, calls, writerVars, executor,
                 pending, left, failed, runtime, decided, enabler, ackOff, looked, outdated>>
-----------------------------------------------------------------------------
(* The executor's life: started once Home Assistant has, unloaded for good. *)

Start ==                                \* async_start, with its startup reconcile
  /\ executor = "new"
  /\ executor' = "running"
  /\ pending' = pending \cup {Background}
  /\ UNCHANGED <<docVars, clientVars, writerVars, worker, serving, left, failed,
                 runtime, history>>

Tick ==                                 \* the 30 s interval
  /\ executor = "running"
  /\ pending' = pending \cup {Background}
  /\ UNCHANGED <<docVars, clientVars, writerVars, executor, worker, serving, left, failed,
                 runtime, history>>

(* Faulty variant: the waiters of the pending request are forgotten. *)
UnloadForgetsWaiters ==
  /\ executor \in {"new", "running"}
  /\ executor' = "stopping"
  /\ pending' = {}
  /\ worker' = IF worker \in Active THEN "cancelled" ELSE worker
  /\ UNCHANGED <<docVars, clientVars, writerVars, serving, left, failed, runtime, history>>

(* async_unload: the pending waiters and the worker are cancelled. *)
Unload ==
  /\ executor \in {"new", "running"}
  /\ executor' = "stopping"
  /\ waiter' = [c \in Clients |-> IF c \in pending THEN "cancelled" ELSE waiter[c]]
  /\ pending' = {}
  /\ worker' = IF worker \in Active THEN "cancelled" ELSE worker
  /\ UNCHANGED <<docVars, flagLock, generation, pc, call, reply, calls, writerVars, serving,
                 left, failed, runtime, history>>

WorkerUnwinds ==
  /\ worker = "cancelled"
  /\ EndAttempt("cancelled", "none")
  /\ docLock' = IF docLock = Worker THEN Free ELSE docLock
  /\ UNCHANGED <<flag, slots, disk, flagLock, generation, pc, call, reply, calls, writerVars,
                 executor, pending, left, failed, runtime, decided, enabler, ackOff, looked, outdated>>

Stopped ==
  /\ executor = "stopping" /\ worker = "idle"
  /\ executor' = "down"
  /\ ResetRuntime
  /\ UNCHANGED <<docVars, clientVars, writerVars, pending, worker, serving, left, failed, history>>
-----------------------------------------------------------------------------
SetExecution(c) ==
  \/ TakeFlagLock(c)
  \/ DecideNotRunning(c) \/ DecideEnable(c) \/ EnableStored(c) \/ DecideEnableAgain(c)
  \/ DecideDisableAgain(c) \/ DecideDisable(c) \/ StoreOff(c) \/ OffStored(c) \/ DisableReturns(c)
  \/ ReconcileSucceeded(c) \/ ReconcileFailed(c) \/ ReconcileBroke(c) \/ EnableReturns(c)
  \/ RollBack(c) \/ RollBackStoreOff(c) \/ RollBackStored(c)

Edit == EditReads \/ EditSaves \/ EditStored

Work ==
  \/ TakeRequest \/ CheckPasses \/ CheckDefers \/ ReadPrunes \/ ReadOff \/ ReadOn
  \/ CallHardware \/ HardwareAnswers \/ FinishAttempt \/ AttemptBreaks \/ WorkerUnwinds

Next ==
  \/ \E c \in Clients : Call(c) \/ SetExecution(c)
  \/ Edit \/ Work
  \/ Start \/ Tick \/ Unload \/ Stopped

Spec == Init /\ [][Next]_vars

(* Every task that can run runs; disk writes and hardware calls come back  *)
(* (the actuator gives up after 30 s); a lock's waiters are served in turn,*)
(* so one that is free infinitely often is eventually had.  Nothing makes  *)
(* anybody call, edit, tick or unload.                                     *)
Fairness ==
  /\ \A c \in Clients : SF_vars(SetExecution(c))
  /\ WF_vars(EditSaves) /\ WF_vars(EditStored)
  /\ SF_vars(Work)
  /\ WF_vars(Stopped)

FairSpec == Spec /\ Fairness
-----------------------------------------------------------------------------
(* What the switch and the reconcile queue promise. *)

(* Whenever no transition is under way, the stored flag -- in memory and on *)
(* disk -- is what the newest decision made it: neither a slot edit, which  *)
(* writes back the flag it read, nor a prune, nor a late rollback undoes a  *)
(* decision of set_execution.                                               *)
FlagIsNewestDecision ==
  flagLock = Free => flag = decided /\ disk = decided

(* Once a disable has been answered, the flag stays off, on disk too, until *)
(* the next enable is stored; a restart cannot bring execution back.        *)
AcknowledgedDisableHolds ==
  ackOff = "yes" => flag = "off" /\ disk = "off"

(* Nothing touches the hardware after a disable has been answered, not even *)
(* an attempt that was already under way: the actuator's gate stops it.     *)
NoCallAfterDisable ==
  [][worker = "acting" /\ worker' = "calling" => ackOff = "no"]_vars

(* A failed enable switches execution off only in the on-period it began    *)
(* itself: a newer disable and enable pair is never undone by it.           *)
RollbackUndoesOnlyItsOwn ==
  [][\A c \in Clients :
        pc[c] = "rollDoc" /\ flag = "on" /\ flag' = "off" => enabler = c]_vars

(* set_execution reports a transition only for the enable that made the     *)
(* present on-period, and only when an attempt really tried it: the         *)
(* coordinator plans at once on the strength of it.                         *)
TransitionAnnounced ==
  [][\A c \in Clients :
        reply'[c].transitioned = "yes" /\ reply[c].transitioned = "no" =>
          flag = "on" /\ enabler = c /\ served[c] \in {"deferred", "applied"}]_vars

(* The enable c made came to nothing: its attempt ended in a ScheduleError  *)
(* or was never made.                                                       *)
EnableFailed(c) == call[c].was = "off" /\ waiter[c] \in {"failed", "cancelled"}
ReturnsNow(c)   == pc[c] # "idle" /\ pc'[c] = "idle"

(* An enable whose reconcile failed does not return with the on-period it   *)
(* began still on and still the newest decision, whatever other enables and *)
(* disables overlap it; a repeated enable does not count as a decision.     *)
OnPeriodOver(c) == decided' = "off" \/ enabler # c
FailedEnableIsUndone ==
  [][\A c \in Clients :
        call[c].want = "on" /\ EnableFailed(c) /\ ReturnsNow(c) => OnPeriodOver(c)]_vars

(* Every enable that waits is in the pending request or in the attempt      *)
(* being made, so a stop, a cancelled worker or a merged request never      *)
(* leaves one waiting for a future nobody will resolve.                     *)
WaiterHasServer ==
  \A c \in Clients : waiter[c] = "waiting" =>
    \/ c \in pending /\ executor = "running"
    \/ c \in serving /\ worker # "idle"

(* Every call of set_execution returns. *)
CallsReturn == \A c \in Clients : pc[c] # "idle" ~> pc[c] = "idle"

(* What a write stored is read by an attempt that comes to its end, or one  *)
(* taken up after the write defers or raises, unless the executor goes away.*)
(* An attempt under way that defers, raises or has read the document does   *)
(* not count: the request made behind it must not go with it.               *)
WritesAreLookedAt ==
  \A v \in 1..MaxWrites :
    slots >= v /\ executor = "running" ~> (worker = "idle" /\ looked >= v) \/ executor # "running"
-----------------------------------------------------------------------------
(* Not kept by the code; TLC refutes it (README, "Known limits").           *)

(* While execution is on, what the card shows as executing, and what an     *)
(* attempt takes for already applied, was put there by an attempt of this   *)
(* on-period: a disable drops the runtime.                                  *)
RuntimeOfThisPeriod == flag = "on" => runtime # "stale"
=============================================================================
