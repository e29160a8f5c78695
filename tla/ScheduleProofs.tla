---------------------------- MODULE ScheduleProofs ----------------------------
(***************************************************************************)
(* Proofs about the documents that several tasks rewrite.  For any number  *)
(* of callers, calls, writes and hardware calls: the execution switch      *)
(* keeps to the newest decision, a disable that was answered holds and     *)
(* stops the hardware, a failed enable undoes itself and nothing newer,    *)
(* and no waiting caller is forgotten.  For any horizon, appliances,       *)
(* optimizers and number of runs: the stored plan is of one run, and what  *)
(* the user owns survives it.  For any history, waits and mishaps: no      *)
(* change of the charge power is left for a later event to be read, and an *)
(* energy that is kept for good is that of the stretch as it is kept.      *)
(***************************************************************************)
EXTENDS MCSchedule, WellFoundedInduction, TLAPS

----------------------------------------------------------------------------
(* The execution switch and the worker.                                      *)

(* A client is inside set_execution's flag section; it is past it. *)
FlagPlaces == {"decide", "saving", "offDoc", "offSaving", "offGet", "rollDoc", "rollSaving"}
Enabled    == {"waiting", "get", "rollback"}

(* Who holds a lock is who stands in the section it guards. *)
LocksHeld ==
  /\ \A c \in Clients : flagLock = c <=> pc[c] \in FlagPlaces
  /\ \A c \in Clients : docLock = c <=> pc[c] \in DocPlaces
  /\ docLock = Writer <=> edit # "idle"
  /\ docLock = Worker => worker \in {"pruning", "cancelled"}
  /\ worker = "pruning" => docLock = Worker

(* The disk has the flag but while a client writes it, and a writer still  *)
(* has the flag it read, and a version left to write.                      *)
DocumentSound ==
  /\ docLock \notin Clients => disk = flag
  /\ edit = "editing" => editFlag = flag /\ slots < MaxWrites

(* The flag is the newest decision but while a client is making another. *)
FlagDecided ==
  /\ (\A c \in Clients : pc[c] \notin {"saving", "offDoc", "rollDoc"}) => flag = decided
  /\ \A c \in Clients :
       /\ pc[c] = "saving" => flag = "on" /\ enabler = c
       /\ pc[c] \in {"offDoc", "rollDoc", "offSaving", "rollSaving", "offGet"} => decided = "off"
       /\ pc[c] = "rollDoc" => enabler = c
       /\ pc[c] \in DocPlaces => ackOff = "no"
  /\ ackOff = "yes" => flag = "off"

(* The generation tells an enable that still counts from one that does not. *)
Counts(c) == pc[c] \in Enabled /\ call[c].was = "off" /\ call[c].gen = generation
GenerationTells ==
  \A c \in Clients :
    /\ pc[c] \in Enabled => call[c].gen \in 0..generation
    /\ Counts(c) => enabler = c /\ flag = "on" /\ decided = "on"
    /\ pc[c] \in Enabled /\ call[c].was = "off" /\ call[c].gen # generation =>
         enabler # c \/ decided = "off"
    /\ pc[c] \in {"offDoc", "offSaving", "offGet"} => call[c].want = "off"
    /\ pc[c] = "rollback" => call[c].was = "off"

(* A waiting client is in one request, and what it waited for is known. *)
QueueSound ==
  /\ pending # {} => executor = "running"
  /\ serving # {} => worker # "idle"
  /\ \A c \in Clients :
       /\ waiter[c] = "waiting" <=> c \in pending \/ c \in serving
       /\ ~(c \in pending /\ c \in serving)
       /\ waiter[c] = "waiting" => pc[c] = "waiting"
       /\ pc[c] \in {"flag", "decide", "saving"} => waiter[c] = "none"
       /\ pc[c] = "get" => waiter[c] = "ok" \/ call[c].gen # generation
       /\ Counts(c) /\ waiter[c] = "ok" => served[c] \in {"deferred", "applied"}

ExecutionInv ==
  TypeOK /\ LocksHeld /\ DocumentSound /\ FlagDecided /\ GenerationTells /\ QueueSound
-----------------------------------------------------------------------------
(* The initial state satisfies the invariant. *)
LEMMA ExecutionStarts == Init => ExecutionInv
  BY ClientsAssumption, BoundsAssumption, FaultsAssumption DEF Init, ExecutionInv, TypeOK,
       LocksHeld, DocumentSound, FlagDecided, GenerationTells, Counts, QueueSound,
       NoReply, Flags, Places, DocPlaces, FlagPlaces, Enabled, Ended, Active, Free,
       Writer, Worker, Background

(* A call whose snapshot is renewed is still a call. *)
LEMMA CallRecord ==
  ASSUME NEW r \in [want : Flags, was : Flags, gen : Nat], NEW g \in Nat
  PROVE  /\ [r EXCEPT !.gen = g] \in [want : Flags, was : Flags, gen : Nat]
         /\ [r EXCEPT !.was = "on", !.gen = g] \in [want : Flags, was : Flags, gen : Nat]
  BY DEF Flags

(* Every field stays within its type. *)
LEMMA TypeKept ==
  ASSUME TypeOK, DocumentSound, [Next]_vars
  PROVE  TypeOK'
<1> USE ClientsAssumption, BoundsAssumption, FaultsAssumption DEF Free, Writer, Worker,
     Background, TypeOK, Flags, Places, DocPlaces, Ended, Active, NoReply
<1>1. ASSUME NEW c \in Clients, Call(c) PROVE TypeOK'
  BY <1>1 DEF Call, Goto, NoReply, docVars, writerVars, workerVars
<1>2. ASSUME NEW c \in Clients, TakeFlagLock(c) PROVE TypeOK'
  BY <1>2 DEF TakeFlagLock, Goto, docVars, writerVars, workerVars, history
<1>3. ASSUME NEW c \in Clients, DecideNotRunning(c) PROVE TypeOK'
  BY <1>3 DEF DecideNotRunning, Goto, Reply, docVars, writerVars, workerVars, history
<1>4. ASSUME NEW c \in Clients, DecideEnable(c) PROVE TypeOK'
  BY <1>4 DEF DecideEnable, Goto, writerVars, workerVars
<1>5. ASSUME NEW c \in Clients, EnableStored(c) PROVE TypeOK'
  <2>1. pc' \in [Clients -> Places]
    BY <1>5 DEF EnableStored, Goto
  <2>2. call' \in [Clients -> [want : Flags, was : Flags, gen : Nat]]
    <3>1. call[c] \in [want : Flags, was : Flags, gen : Nat] /\ generation + 1 \in Nat
      OBVIOUS
    <3>2. [call[c] EXCEPT !.gen = generation + 1] \in [want : Flags, was : Flags, gen : Nat]
      BY <3>1, CallRecord
    <3>3. call' = [call EXCEPT ![c] = [call[c] EXCEPT !.gen = generation + 1]]
      BY <1>5 DEF EnableStored
    <3> QED BY <3>2, <3>3
  <2>3. /\ waiter' \in [Clients -> {"none", "waiting", "ok", "failed", "broken", "cancelled"}]
        /\ pending' \subseteq Clients \cup {Background}
    <3>1. CASE executor = "running"
      <4>1. waiter' = [waiter EXCEPT ![c] = "waiting"] /\ pending' = pending \cup {c}
        BY <1>5, <3>1 DEF EnableStored, QueueAndWait
      <4> QED BY <4>1
    <3>2. CASE executor # "running"
      <4>1. waiter' = [waiter EXCEPT ![c] = "cancelled"] /\ pending' = pending
        BY <1>5, <3>2 DEF EnableStored, QueueAndWait
      <4> QED BY <4>1
    <3> QED BY <3>1, <3>2
  <2> QED BY <1>5, <2>1, <2>2, <2>3 DEF EnableStored, writerVars
<1>6. ASSUME NEW c \in Clients, DecideEnableAgain(c) PROVE TypeOK'
  <2>1. pc' \in [Clients -> Places]
    BY <1>6 DEF DecideEnableAgain, Goto
  <2>2. call' \in [Clients -> [want : Flags, was : Flags, gen : Nat]]
    <3>1. call[c] \in [want : Flags, was : Flags, gen : Nat] /\ generation + 1 \in Nat
      OBVIOUS
    <3>2. [call[c] EXCEPT !.was = "on", !.gen = generation] \in [want : Flags, was : Flags, gen : Nat]
      BY <3>1, CallRecord
    <3>3. call' = [call EXCEPT ![c] = [call[c] EXCEPT !.was = "on", !.gen = generation]]
      BY <1>6 DEF DecideEnableAgain
    <3> QED BY <3>2, <3>3
  <2>3. /\ waiter' \in [Clients -> {"none", "waiting", "ok", "failed", "broken", "cancelled"}]
        /\ pending' \subseteq Clients \cup {Background}
    <3>1. CASE executor = "running"
      <4>1. waiter' = [waiter EXCEPT ![c] = "waiting"] /\ pending' = pending \cup {c}
        BY <1>6, <3>1 DEF DecideEnableAgain, QueueAndWait
      <4> QED BY <4>1
    <3>2. CASE executor # "running"
      <4>1. waiter' = [waiter EXCEPT ![c] = "cancelled"] /\ pending' = pending
        BY <1>6, <3>2 DEF DecideEnableAgain, QueueAndWait
      <4> QED BY <4>1
    <3> QED BY <3>1, <3>2
  <2> QED BY <1>6, <2>1, <2>2, <2>3 DEF DecideEnableAgain, docVars, writerVars, history
<1>7. ASSUME NEW c \in Clients, DecideDisableAgain(c) PROVE TypeOK'
  BY <1>7 DEF DecideDisableAgain, Goto, Reply, ResetRuntime, docVars, writerVars,
       workerVars
<1>8. ASSUME NEW c \in Clients, DecideDisable(c) PROVE TypeOK'
  BY <1>8 DEF DecideDisable, Goto, ResetRuntime, docVars, writerVars, workerVars
<1>9. ASSUME NEW c \in Clients, StoreOff(c) PROVE TypeOK'
  BY <1>9 DEF StoreOff, Goto, writerVars, workerVars, history
<1>10. ASSUME NEW c \in Clients, OffStored(c) PROVE TypeOK'
  BY <1>10 DEF OffStored, Goto, writerVars, workerVars, history
<1>11. ASSUME NEW c \in Clients, DisableReturns(c) PROVE TypeOK'
  BY <1>11 DEF DisableReturns, Goto, Reply, docVars, writerVars, workerVars
<1>12. ASSUME NEW c \in Clients, ReconcileSucceeded(c) PROVE TypeOK'
  BY <1>12 DEF ReconcileSucceeded, Goto, docVars, writerVars, workerVars, history
<1>13. ASSUME NEW c \in Clients, ReconcileFailed(c) PROVE TypeOK'
  <2>1. pc' \in [Clients -> Places]
    BY <1>13 DEF ReconcileFailed, Goto, Reply
  <2>2. reply' \in [Clients -> [end : Ended, flag : Flags, transitioned : {"yes", "no"}]]
    <3>1. CASE UNCHANGED reply
      BY <3>1
    <3>2. CASE Reply(c, "failed", flag, "no")
      BY <3>2 DEF Reply
    <3> QED BY <1>13, <3>1, <3>2 DEF ReconcileFailed
  <2> QED BY <1>13, <2>1, <2>2 DEF ReconcileFailed, docVars, writerVars, workerVars,
       history
<1>14. ASSUME NEW c \in Clients, ReconcileBroke(c) PROVE TypeOK'
  BY <1>14 DEF ReconcileBroke, Goto, Reply, docVars, writerVars, workerVars, history
<1>15. ASSUME NEW c \in Clients, EnableReturns(c) PROVE TypeOK'
  BY <1>15 DEF EnableReturns, Goto, Reply, docVars, writerVars, workerVars, history
<1>16. ASSUME NEW c \in Clients, RollBack(c) PROVE TypeOK'
  BY <1>16 DEF RollBack, Goto, Reply, docVars, writerVars, workerVars
<1>17. ASSUME NEW c \in Clients, RollBackStoreOff(c) PROVE TypeOK'
  BY <1>17 DEF RollBackStoreOff, Goto, Reply, ResetRuntime, writerVars, workerVars,
       history
<1>18. ASSUME NEW c \in Clients, RollBackStored(c) PROVE TypeOK'
  BY <1>18 DEF RollBackStored, Goto, Reply, ResetRuntime, writerVars, workerVars,
       history
<1>19. CASE EditReads
  BY <1>19 DEF EditReads, clientVars, workerVars, history
<1>20. CASE EditSaves
  BY <1>20 DEF EditSaves, clientVars, workerVars, history, DocumentSound
<1>21. CASE EditStored
  BY <1>21 DEF EditStored, RequestReconcile, clientVars, history
<1>22. CASE TakeRequest
  BY <1>22 DEF TakeRequest, docVars, clientVars, writerVars
<1>23. CASE CheckPasses
  BY <1>23 DEF CheckPasses, docVars, clientVars, writerVars, history
<1>24. CASE CheckDefers
  BY <1>24 DEF CheckDefers, EndAttempt, docVars, writerVars
<1>25. CASE ReadPrunes
  BY <1>25 DEF ReadPrunes, clientVars, writerVars, history
<1>26. CASE ReadOff
  BY <1>26 DEF ReadOff, EndAttempt, DocumentRead, writerVars
<1>27. CASE ReadOn
  BY <1>27 DEF ReadOn, DocumentRead, clientVars, writerVars
<1>28. CASE CallHardware
  BY <1>28 DEF CallHardware, docVars, clientVars, writerVars, history
<1>29. CASE HardwareAnswers
  BY <1>29 DEF HardwareAnswers, docVars, clientVars, writerVars, history
<1>30. CASE FinishAttempt
  BY <1>30 DEF FinishAttempt, EndAttempt, docVars, writerVars
<1>31. CASE AttemptBreaks
  BY <1>31 DEF AttemptBreaks, EndAttempt, docVars, writerVars
<1>32. CASE WorkerUnwinds
  BY <1>32 DEF WorkerUnwinds, EndAttempt, writerVars
<1>33. CASE Start
  BY <1>33 DEF Start, docVars, clientVars, writerVars, history
<1>34. CASE Tick
  BY <1>34 DEF Tick, docVars, clientVars, writerVars, history
<1>35. CASE Unload
  BY <1>35 DEF Unload, docVars, writerVars, history
<1>36. CASE Stopped
  BY <1>36 DEF Stopped, ResetRuntime, docVars, clientVars, writerVars, history
<1>37. CASE UNCHANGED vars
  BY <1>37 DEF vars, docVars, clientVars, writerVars, workerVars, history
<1> QED
  BY <1>1, <1>2, <1>3, <1>4, <1>5, <1>6, <1>7, <1>8, <1>9, <1>10, <1>11, <1>12, <1>13,
       <1>14, <1>15, <1>16, <1>17, <1>18, <1>19, <1>20, <1>21, <1>22, <1>23, <1>24,
       <1>25, <1>26, <1>27, <1>28, <1>29, <1>30, <1>31, <1>32, <1>33, <1>34, <1>35,
       <1>36, <1>37 DEF Next, SetExecution, Edit, Work

(* A lock is taken on the way into its section and released on the way out. *)
LEMMA LocksKept ==
  ASSUME TypeOK, TypeOK', LocksHeld, [Next]_vars
  PROVE  LocksHeld'
<1> USE ClientsAssumption, BoundsAssumption, FaultsAssumption DEF Free, Writer, Worker,
     Background, TypeOK, DocPlaces, Places, FlagPlaces, Active
<1>1. ASSUME NEW c \in Clients, Call(c) PROVE LocksHeld'
  BY <1>1 DEF Call, Goto, NoReply, docVars, writerVars, workerVars, LocksHeld
<1>2. ASSUME NEW c \in Clients, TakeFlagLock(c) PROVE LocksHeld'
  BY <1>2 DEF TakeFlagLock, Goto, docVars, writerVars, workerVars, history, LocksHeld
<1>3. ASSUME NEW c \in Clients, DecideNotRunning(c) PROVE LocksHeld'
  BY <1>3 DEF DecideNotRunning, Goto, Reply, docVars, writerVars, workerVars, history,
       LocksHeld
<1>4. ASSUME NEW c \in Clients, DecideEnable(c) PROVE LocksHeld'
  BY <1>4 DEF DecideEnable, Goto, writerVars, workerVars, LocksHeld
<1>5. ASSUME NEW c \in Clients, EnableStored(c) PROVE LocksHeld'
  BY <1>5 DEF EnableStored, Goto, QueueAndWait, writerVars, LocksHeld
<1>6. ASSUME NEW c \in Clients, DecideEnableAgain(c) PROVE LocksHeld'
  BY <1>6 DEF DecideEnableAgain, Goto, QueueAndWait, docVars, writerVars, history,
       LocksHeld
<1>7. ASSUME NEW c \in Clients, DecideDisableAgain(c) PROVE LocksHeld'
  BY <1>7 DEF DecideDisableAgain, Goto, Reply, ResetRuntime, docVars, writerVars,
       workerVars, LocksHeld
<1>8. ASSUME NEW c \in Clients, DecideDisable(c) PROVE LocksHeld'
  BY <1>8 DEF DecideDisable, Goto, ResetRuntime, docVars, writerVars, workerVars,
       LocksHeld
<1>9. ASSUME NEW c \in Clients, StoreOff(c) PROVE LocksHeld'
  BY <1>9 DEF StoreOff, Goto, writerVars, workerVars, history, LocksHeld
<1>10. ASSUME NEW c \in Clients, OffStored(c) PROVE LocksHeld'
  BY <1>10 DEF OffStored, Goto, writerVars, workerVars, history, LocksHeld
<1>11. ASSUME NEW c \in Clients, DisableReturns(c) PROVE LocksHeld'
  BY <1>11 DEF DisableReturns, Goto, Reply, docVars, writerVars, workerVars, LocksHeld
<1>12. ASSUME NEW c \in Clients, ReconcileSucceeded(c) PROVE LocksHeld'
  BY <1>12 DEF ReconcileSucceeded, Goto, docVars, writerVars, workerVars, history,
       LocksHeld
<1>13. ASSUME NEW c \in Clients, ReconcileFailed(c) PROVE LocksHeld'
  BY <1>13 DEF ReconcileFailed, Goto, Reply, docVars, writerVars, workerVars, history,
       LocksHeld
<1>14. ASSUME NEW c \in Clients, ReconcileBroke(c) PROVE LocksHeld'
  BY <1>14 DEF ReconcileBroke, Goto, Reply, docVars, writerVars, workerVars, history,
       LocksHeld
<1>15. ASSUME NEW c \in Clients, EnableReturns(c) PROVE LocksHeld'
  BY <1>15 DEF EnableReturns, Goto, Reply, docVars, writerVars, workerVars, history,
       LocksHeld
<1>16. ASSUME NEW c \in Clients, RollBack(c) PROVE LocksHeld'
  BY <1>16 DEF RollBack, Goto, Reply, docVars, writerVars, workerVars, LocksHeld
<1>17. ASSUME NEW c \in Clients, RollBackStoreOff(c) PROVE LocksHeld'
  BY <1>17 DEF RollBackStoreOff, Goto, Reply, ResetRuntime, writerVars, workerVars,
       history, LocksHeld
<1>18. ASSUME NEW c \in Clients, RollBackStored(c) PROVE LocksHeld'
  BY <1>18 DEF RollBackStored, Goto, Reply, ResetRuntime, writerVars, workerVars,
       history, LocksHeld
<1>19. CASE EditReads
  BY <1>19 DEF EditReads, clientVars, workerVars, history, LocksHeld
<1>20. CASE EditSaves
  BY <1>20 DEF EditSaves, clientVars, workerVars, history, LocksHeld
<1>21. CASE EditStored
  BY <1>21 DEF EditStored, RequestReconcile, clientVars, history, LocksHeld
<1>22. CASE TakeRequest
  BY <1>22 DEF TakeRequest, docVars, clientVars, writerVars, LocksHeld
<1>23. CASE CheckPasses
  BY <1>23 DEF CheckPasses, docVars, clientVars, writerVars, history, LocksHeld
<1>24. CASE CheckDefers
  BY <1>24 DEF CheckDefers, EndAttempt, docVars, writerVars, LocksHeld
<1>25. CASE ReadPrunes
  BY <1>25 DEF ReadPrunes, clientVars, writerVars, history, LocksHeld
<1>26. CASE ReadOff
  BY <1>26 DEF ReadOff, EndAttempt, DocumentRead, writerVars, LocksHeld
<1>27. CASE ReadOn
  BY <1>27 DEF ReadOn, DocumentRead, clientVars, writerVars, LocksHeld
<1>28. CASE CallHardware
  BY <1>28 DEF CallHardware, docVars, clientVars, writerVars, history, LocksHeld
<1>29. CASE HardwareAnswers
  BY <1>29 DEF HardwareAnswers, docVars, clientVars, writerVars, history, LocksHeld
<1>30. CASE FinishAttempt
  BY <1>30 DEF FinishAttempt, EndAttempt, docVars, writerVars, LocksHeld
<1>31. CASE AttemptBreaks
  BY <1>31 DEF AttemptBreaks, EndAttempt, docVars, writerVars, LocksHeld
<1>32. CASE WorkerUnwinds
  BY <1>32 DEF WorkerUnwinds, EndAttempt, writerVars, LocksHeld
<1>33. CASE Start
  BY <1>33 DEF Start, docVars, clientVars, writerVars, history, LocksHeld
<1>34. CASE Tick
  BY <1>34 DEF Tick, docVars, clientVars, writerVars, history, LocksHeld
<1>35. CASE Unload
  BY <1>35 DEF Unload, docVars, writerVars, history, LocksHeld
<1>36. CASE Stopped
  BY <1>36 DEF Stopped, ResetRuntime, docVars, clientVars, writerVars, history,
       LocksHeld
<1>37. CASE UNCHANGED vars
  BY <1>37 DEF vars, docVars, clientVars, writerVars, workerVars, history, LocksHeld
<1> QED
  BY <1>1, <1>2, <1>3, <1>4, <1>5, <1>6, <1>7, <1>8, <1>9, <1>10, <1>11, <1>12, <1>13,
       <1>14, <1>15, <1>16, <1>17, <1>18, <1>19, <1>20, <1>21, <1>22, <1>23, <1>24,
       <1>25, <1>26, <1>27, <1>28, <1>29, <1>30, <1>31, <1>32, <1>33, <1>34, <1>35,
       <1>36, <1>37 DEF Next, SetExecution, Edit, Work

(* Whoever changes the flag holds the document lock until the disk has it. *)
LEMMA DocumentKept ==
  ASSUME TypeOK, TypeOK', LocksHeld, DocumentSound, [Next]_vars
  PROVE  DocumentSound'
<1> USE ClientsAssumption, BoundsAssumption, FaultsAssumption DEF Free, Writer, Worker,
     Background, TypeOK, DocPlaces, Places, FlagPlaces, LocksHeld
<1>1. ASSUME NEW c \in Clients, Call(c) PROVE DocumentSound'
  BY <1>1 DEF Call, Goto, NoReply, docVars, writerVars, workerVars, DocumentSound
<1>2. ASSUME NEW c \in Clients, TakeFlagLock(c) PROVE DocumentSound'
  BY <1>2 DEF TakeFlagLock, Goto, docVars, writerVars, workerVars, history,
       DocumentSound
<1>3. ASSUME NEW c \in Clients, DecideNotRunning(c) PROVE DocumentSound'
  BY <1>3 DEF DecideNotRunning, Goto, Reply, docVars, writerVars, workerVars, history,
       DocumentSound
<1>4. ASSUME NEW c \in Clients, DecideEnable(c) PROVE DocumentSound'
  BY <1>4 DEF DecideEnable, Goto, writerVars, workerVars, DocumentSound
<1>5. ASSUME NEW c \in Clients, EnableStored(c) PROVE DocumentSound'
  BY <1>5 DEF EnableStored, Goto, QueueAndWait, writerVars, DocumentSound
<1>6. ASSUME NEW c \in Clients, DecideEnableAgain(c) PROVE DocumentSound'
  BY <1>6 DEF DecideEnableAgain, Goto, QueueAndWait, docVars, writerVars, history,
       DocumentSound
<1>7. ASSUME NEW c \in Clients, DecideDisableAgain(c) PROVE DocumentSound'
  BY <1>7 DEF DecideDisableAgain, Goto, Reply, ResetRuntime, docVars, writerVars,
       workerVars, DocumentSound
<1>8. ASSUME NEW c \in Clients, DecideDisable(c) PROVE DocumentSound'
  BY <1>8 DEF DecideDisable, Goto, ResetRuntime, docVars, writerVars, workerVars,
       DocumentSound
<1>9. ASSUME NEW c \in Clients, StoreOff(c) PROVE DocumentSound'
  BY <1>9 DEF StoreOff, Goto, writerVars, workerVars, history, DocumentSound
<1>10. ASSUME NEW c \in Clients, OffStored(c) PROVE DocumentSound'
  BY <1>10 DEF OffStored, Goto, writerVars, workerVars, history, DocumentSound
<1>11. ASSUME NEW c \in Clients, DisableReturns(c) PROVE DocumentSound'
  BY <1>11 DEF DisableReturns, Goto, Reply, docVars, writerVars, workerVars,
       DocumentSound
<1>12. ASSUME NEW c \in Clients, ReconcileSucceeded(c) PROVE DocumentSound'
  BY <1>12 DEF ReconcileSucceeded, Goto, docVars, writerVars, workerVars, history,
       DocumentSound
<1>13. ASSUME NEW c \in Clients, ReconcileFailed(c) PROVE DocumentSound'
  BY <1>13 DEF ReconcileFailed, Goto, Reply, docVars, writerVars, workerVars, history,
       DocumentSound
<1>14. ASSUME NEW c \in Clients, ReconcileBroke(c) PROVE DocumentSound'
  BY <1>14 DEF ReconcileBroke, Goto, Reply, docVars, writerVars, workerVars, history,
       DocumentSound
<1>15. ASSUME NEW c \in Clients, EnableReturns(c) PROVE DocumentSound'
  BY <1>15 DEF EnableReturns, Goto, Reply, docVars, writerVars, workerVars, history,
       DocumentSound
<1>16. ASSUME NEW c \in Clients, RollBack(c) PROVE DocumentSound'
  BY <1>16 DEF RollBack, Goto, Reply, docVars, writerVars, workerVars, DocumentSound
<1>17. ASSUME NEW c \in Clients, RollBackStoreOff(c) PROVE DocumentSound'
  BY <1>17 DEF RollBackStoreOff, Goto, Reply, ResetRuntime, writerVars, workerVars,
       history, DocumentSound
<1>18. ASSUME NEW c \in Clients, RollBackStored(c) PROVE DocumentSound'
  BY <1>18 DEF RollBackStored, Goto, Reply, ResetRuntime, writerVars, workerVars,
       history, DocumentSound
<1>19. CASE EditReads
  BY <1>19 DEF EditReads, clientVars, workerVars, history, DocumentSound
<1>20. CASE EditSaves
  BY <1>20 DEF EditSaves, clientVars, workerVars, history, DocumentSound
<1>21. CASE EditStored
  BY <1>21 DEF EditStored, RequestReconcile, clientVars, history, DocumentSound
<1>22. CASE TakeRequest
  BY <1>22 DEF TakeRequest, docVars, clientVars, writerVars, DocumentSound
<1>23. CASE CheckPasses
  BY <1>23 DEF CheckPasses, docVars, clientVars, writerVars, history, DocumentSound
<1>24. CASE CheckDefers
  BY <1>24 DEF CheckDefers, EndAttempt, docVars, writerVars, DocumentSound
<1>25. CASE ReadPrunes
  BY <1>25 DEF ReadPrunes, clientVars, writerVars, history, DocumentSound
<1>26. CASE ReadOff
  BY <1>26 DEF ReadOff, EndAttempt, DocumentRead, writerVars, DocumentSound
<1>27. CASE ReadOn
  BY <1>27 DEF ReadOn, DocumentRead, clientVars, writerVars, DocumentSound
<1>28. CASE CallHardware
  BY <1>28 DEF CallHardware, docVars, clientVars, writerVars, history, DocumentSound
<1>29. CASE HardwareAnswers
  BY <1>29 DEF HardwareAnswers, docVars, clientVars, writerVars, history, DocumentSound
<1>30. CASE FinishAttempt
  BY <1>30 DEF FinishAttempt, EndAttempt, docVars, writerVars, DocumentSound
<1>31. CASE AttemptBreaks
  BY <1>31 DEF AttemptBreaks, EndAttempt, docVars, writerVars, DocumentSound
<1>32. CASE WorkerUnwinds
  BY <1>32 DEF WorkerUnwinds, EndAttempt, writerVars, DocumentSound
<1>33. CASE Start
  BY <1>33 DEF Start, docVars, clientVars, writerVars, history, DocumentSound
<1>34. CASE Tick
  BY <1>34 DEF Tick, docVars, clientVars, writerVars, history, DocumentSound
<1>35. CASE Unload
  BY <1>35 DEF Unload, docVars, writerVars, history, DocumentSound
<1>36. CASE Stopped
  BY <1>36 DEF Stopped, ResetRuntime, docVars, clientVars, writerVars, history,
       DocumentSound
<1>37. CASE UNCHANGED vars
  BY <1>37 DEF vars, docVars, clientVars, writerVars, workerVars, history, DocumentSound
<1> QED
  BY <1>1, <1>2, <1>3, <1>4, <1>5, <1>6, <1>7, <1>8, <1>9, <1>10, <1>11, <1>12, <1>13,
       <1>14, <1>15, <1>16, <1>17, <1>18, <1>19, <1>20, <1>21, <1>22, <1>23, <1>24,
       <1>25, <1>26, <1>27, <1>28, <1>29, <1>30, <1>31, <1>32, <1>33, <1>34, <1>35,
       <1>36, <1>37 DEF Next, SetExecution, Edit, Work

(* A decision and the flag it stores are of one section. *)
LEMMA FlagKept ==
  ASSUME TypeOK, TypeOK', LocksHeld, DocumentSound, FlagDecided, GenerationTells, [Next]_vars
  PROVE  FlagDecided'
<1> USE ClientsAssumption, BoundsAssumption, FaultsAssumption DEF Free, Writer, Worker,
     Background, TypeOK, DocPlaces, Places, FlagPlaces, LocksHeld, Flags
<1>1. ASSUME NEW c \in Clients, Call(c) PROVE FlagDecided'
  BY <1>1 DEF Call, Goto, NoReply, docVars, writerVars, workerVars, DocumentSound,
       FlagDecided
<1>2. ASSUME NEW c \in Clients, TakeFlagLock(c) PROVE FlagDecided'
  BY <1>2 DEF TakeFlagLock, Goto, docVars, writerVars, workerVars, history,
       DocumentSound, FlagDecided
<1>3. ASSUME NEW c \in Clients, DecideNotRunning(c) PROVE FlagDecided'
  BY <1>3 DEF DecideNotRunning, Goto, Reply, docVars, writerVars, workerVars, history,
       DocumentSound, FlagDecided
<1>4. ASSUME NEW c \in Clients, DecideEnable(c) PROVE FlagDecided'
  BY <1>4 DEF DecideEnable, Goto, writerVars, workerVars, DocumentSound, FlagDecided
<1>5. ASSUME NEW c \in Clients, EnableStored(c) PROVE FlagDecided'
  BY <1>5 DEF EnableStored, Goto, QueueAndWait, writerVars, DocumentSound, FlagDecided
<1>6. ASSUME NEW c \in Clients, DecideEnableAgain(c) PROVE FlagDecided'
  BY <1>6 DEF DecideEnableAgain, Goto, QueueAndWait, docVars, writerVars, history,
       DocumentSound, FlagDecided
<1>7. ASSUME NEW c \in Clients, DecideDisableAgain(c) PROVE FlagDecided'
  BY <1>7 DEF DecideDisableAgain, Goto, Reply, ResetRuntime, docVars, writerVars,
       workerVars, DocumentSound, FlagDecided
<1>8. ASSUME NEW c \in Clients, DecideDisable(c) PROVE FlagDecided'
  BY <1>8 DEF DecideDisable, Goto, ResetRuntime, docVars, writerVars, workerVars,
       DocumentSound, FlagDecided
<1>9. ASSUME NEW c \in Clients, StoreOff(c) PROVE FlagDecided'
  BY <1>9 DEF StoreOff, Goto, writerVars, workerVars, history, DocumentSound,
       FlagDecided
<1>10. ASSUME NEW c \in Clients, OffStored(c) PROVE FlagDecided'
  BY <1>10 DEF OffStored, Goto, writerVars, workerVars, history, DocumentSound,
       FlagDecided
<1>11. ASSUME NEW c \in Clients, DisableReturns(c) PROVE FlagDecided'
  BY <1>11 DEF DisableReturns, Goto, Reply, docVars, writerVars, workerVars,
       DocumentSound, FlagDecided
<1>12. ASSUME NEW c \in Clients, ReconcileSucceeded(c) PROVE FlagDecided'
  BY <1>12 DEF ReconcileSucceeded, Goto, docVars, writerVars, workerVars, history,
       DocumentSound, FlagDecided
<1>13. ASSUME NEW c \in Clients, ReconcileFailed(c) PROVE FlagDecided'
  BY <1>13 DEF ReconcileFailed, Goto, Reply, docVars, writerVars, workerVars, history,
       DocumentSound, FlagDecided
<1>14. ASSUME NEW c \in Clients, ReconcileBroke(c) PROVE FlagDecided'
  BY <1>14 DEF ReconcileBroke, Goto, Reply, docVars, writerVars, workerVars, history,
       DocumentSound, FlagDecided
<1>15. ASSUME NEW c \in Clients, EnableReturns(c) PROVE FlagDecided'
  BY <1>15 DEF EnableReturns, Goto, Reply, docVars, writerVars, workerVars, history,
       DocumentSound, FlagDecided
<1>16. ASSUME NEW c \in Clients, RollBack(c) PROVE FlagDecided'
  <2>1. CASE call[c].gen # generation
    BY <1>16, <2>1 DEF RollBack, Goto, Reply, docVars, writerVars, workerVars,
         FlagDecided
  <2>2. CASE call[c].gen = generation
    <3>1. /\ pc' = [pc EXCEPT ![c] = "rollDoc"] /\ decided' = "off" /\ flagLock = Free
          /\ UNCHANGED <<flag, enabler, ackOff>>
      BY <1>16, <2>2 DEF RollBack, Goto, docVars
    <3>2. \A d \in Clients : d # c => pc'[d] = pc[d] /\ pc[d] \notin FlagPlaces
      BY <3>1
    <3>3. enabler = c
      BY <1>16, <2>2 DEF RollBack, GenerationTells, Counts, Enabled
    <3> QED BY <3>1, <3>2, <3>3 DEF FlagDecided
  <2> QED BY <2>1, <2>2
<1>17. ASSUME NEW c \in Clients, RollBackStoreOff(c) PROVE FlagDecided'
  BY <1>17 DEF RollBackStoreOff, Goto, Reply, ResetRuntime, writerVars, workerVars,
       history, DocumentSound, FlagDecided
<1>18. ASSUME NEW c \in Clients, RollBackStored(c) PROVE FlagDecided'
  BY <1>18 DEF RollBackStored, Goto, Reply, ResetRuntime, writerVars, workerVars,
       history, DocumentSound, FlagDecided
<1>19. CASE EditReads
  BY <1>19 DEF EditReads, clientVars, workerVars, history, DocumentSound, FlagDecided
<1>20. CASE EditSaves
  BY <1>20 DEF EditSaves, clientVars, workerVars, history, DocumentSound, FlagDecided
<1>21. CASE EditStored
  BY <1>21 DEF EditStored, RequestReconcile, clientVars, history, DocumentSound,
       FlagDecided
<1>22. CASE TakeRequest
  BY <1>22 DEF TakeRequest, docVars, clientVars, writerVars, DocumentSound,
       FlagDecided
<1>23. CASE CheckPasses
  BY <1>23 DEF CheckPasses, docVars, clientVars, writerVars, history, DocumentSound,
       FlagDecided
<1>24. CASE CheckDefers
  BY <1>24 DEF CheckDefers, EndAttempt, docVars, writerVars, DocumentSound, FlagDecided
<1>25. CASE ReadPrunes
  BY <1>25 DEF ReadPrunes, clientVars, writerVars, history, DocumentSound, FlagDecided
<1>26. CASE ReadOff
  BY <1>26 DEF ReadOff, EndAttempt, DocumentRead, writerVars, DocumentSound, FlagDecided
<1>27. CASE ReadOn
  BY <1>27 DEF ReadOn, DocumentRead, clientVars, writerVars, DocumentSound, FlagDecided
<1>28. CASE CallHardware
  BY <1>28 DEF CallHardware, docVars, clientVars, writerVars, history, DocumentSound,
       FlagDecided
<1>29. CASE HardwareAnswers
  BY <1>29 DEF HardwareAnswers, docVars, clientVars, writerVars, history, DocumentSound,
       FlagDecided
<1>30. CASE FinishAttempt
  BY <1>30 DEF FinishAttempt, EndAttempt, docVars, writerVars, DocumentSound,
       FlagDecided
<1>31. CASE AttemptBreaks
  BY <1>31 DEF AttemptBreaks, EndAttempt, docVars, writerVars, DocumentSound,
       FlagDecided
<1>32. CASE WorkerUnwinds
  BY <1>32 DEF WorkerUnwinds, EndAttempt, writerVars, DocumentSound, FlagDecided
<1>33. CASE Start
  BY <1>33 DEF Start, docVars, clientVars, writerVars, history, DocumentSound,
       FlagDecided
<1>34. CASE Tick
  BY <1>34 DEF Tick, docVars, clientVars, writerVars, history, DocumentSound,
       FlagDecided
<1>35. CASE Unload
  BY <1>35 DEF Unload, docVars, writerVars, history, DocumentSound, FlagDecided
<1>36. CASE Stopped
  BY <1>36 DEF Stopped, ResetRuntime, docVars, clientVars, writerVars, history,
       DocumentSound, FlagDecided
<1>37. CASE UNCHANGED vars
  BY <1>37 DEF vars, docVars, clientVars, writerVars, workerVars, history,
       DocumentSound, FlagDecided
<1> QED
  BY <1>1, <1>2, <1>3, <1>4, <1>5, <1>6, <1>7, <1>8, <1>9, <1>10, <1>11, <1>12, <1>13,
       <1>14, <1>15, <1>16, <1>17, <1>18, <1>19, <1>20, <1>21, <1>22, <1>23, <1>24,
       <1>25, <1>26, <1>27, <1>28, <1>29, <1>30, <1>31, <1>32, <1>33, <1>34, <1>35,
       <1>36, <1>37 DEF Next, SetExecution, Edit, Work

(* Every decision moves the generation, so an older enable no longer counts. *)
LEMMA GenerationKept ==
  ASSUME TypeOK, TypeOK', LocksHeld, DocumentSound, FlagDecided, GenerationTells, [Next]_vars
  PROVE  GenerationTells'
<1> USE ClientsAssumption, BoundsAssumption, FaultsAssumption DEF Free, Writer, Worker,
     Background, TypeOK, DocPlaces, Places, FlagPlaces, Enabled, Counts, Flags
<1>1. ASSUME NEW c \in Clients, Call(c) PROVE GenerationTells'
  BY <1>1 DEF Call, Goto, NoReply, docVars, writerVars, workerVars, LocksHeld,
       DocumentSound, FlagDecided, GenerationTells
<1>2. ASSUME NEW c \in Clients, TakeFlagLock(c) PROVE GenerationTells'
  BY <1>2 DEF TakeFlagLock, Goto, docVars, writerVars, workerVars, history, LocksHeld,
       DocumentSound, FlagDecided, GenerationTells
<1>3. ASSUME NEW c \in Clients, DecideNotRunning(c) PROVE GenerationTells'
  BY <1>3 DEF DecideNotRunning, Goto, Reply, docVars, writerVars, workerVars, history,
       LocksHeld, DocumentSound, FlagDecided, GenerationTells
<1>4. ASSUME NEW c \in Clients, DecideEnable(c) PROVE GenerationTells'
  BY <1>4 DEF DecideEnable, Goto, writerVars, workerVars, LocksHeld, DocumentSound,
       FlagDecided, GenerationTells
<1>5. ASSUME NEW c \in Clients, EnableStored(c) PROVE GenerationTells'
  BY <1>5 DEF EnableStored, Goto, QueueAndWait, writerVars, LocksHeld, DocumentSound,
       FlagDecided, GenerationTells
<1>6. ASSUME NEW c \in Clients, DecideEnableAgain(c) PROVE GenerationTells'
  BY <1>6 DEF DecideEnableAgain, Goto, QueueAndWait, docVars, writerVars, history,
       LocksHeld, DocumentSound, FlagDecided, GenerationTells
<1>7. ASSUME NEW c \in Clients, DecideDisableAgain(c) PROVE GenerationTells'
  BY <1>7 DEF DecideDisableAgain, Goto, Reply, ResetRuntime, docVars, writerVars,
       workerVars, LocksHeld, DocumentSound, FlagDecided, GenerationTells
<1>8. ASSUME NEW c \in Clients, DecideDisable(c) PROVE GenerationTells'
  BY <1>8 DEF DecideDisable, Goto, ResetRuntime, docVars, writerVars, workerVars,
       LocksHeld, DocumentSound, FlagDecided, GenerationTells
<1>9. ASSUME NEW c \in Clients, StoreOff(c) PROVE GenerationTells'
  BY <1>9 DEF StoreOff, Goto, writerVars, workerVars, history, LocksHeld, DocumentSound,
       FlagDecided, GenerationTells
<1>10. ASSUME NEW c \in Clients, OffStored(c) PROVE GenerationTells'
  BY <1>10 DEF OffStored, Goto, writerVars, workerVars, history, LocksHeld,
       DocumentSound, FlagDecided, GenerationTells
<1>11. ASSUME NEW c \in Clients, DisableReturns(c) PROVE GenerationTells'
  BY <1>11 DEF DisableReturns, Goto, Reply, docVars, writerVars, workerVars, LocksHeld,
       DocumentSound, FlagDecided, GenerationTells
<1>12. ASSUME NEW c \in Clients, ReconcileSucceeded(c) PROVE GenerationTells'
  BY <1>12 DEF ReconcileSucceeded, Goto, docVars, writerVars, workerVars, history,
       LocksHeld, DocumentSound, FlagDecided, GenerationTells
<1>13. ASSUME NEW c \in Clients, ReconcileFailed(c) PROVE GenerationTells'
  BY <1>13 DEF ReconcileFailed, Goto, Reply, docVars, writerVars, workerVars, history,
       LocksHeld, DocumentSound, FlagDecided, GenerationTells
<1>14. ASSUME NEW c \in Clients, ReconcileBroke(c) PROVE GenerationTells'
  BY <1>14 DEF ReconcileBroke, Goto, Reply, docVars, writerVars, workerVars, history,
       LocksHeld, DocumentSound, FlagDecided, GenerationTells
<1>15. ASSUME NEW c \in Clients, EnableReturns(c) PROVE GenerationTells'
  BY <1>15 DEF EnableReturns, Goto, Reply, docVars, writerVars, workerVars, history,
       LocksHeld, DocumentSound, FlagDecided, GenerationTells
<1>16. ASSUME NEW c \in Clients, RollBack(c) PROVE GenerationTells'
  BY <1>16 DEF RollBack, Goto, Reply, docVars, writerVars, workerVars, LocksHeld,
       DocumentSound, FlagDecided, GenerationTells
<1>17. ASSUME NEW c \in Clients, RollBackStoreOff(c) PROVE GenerationTells'
  BY <1>17 DEF RollBackStoreOff, Goto, Reply, ResetRuntime, writerVars, workerVars,
       history, LocksHeld, DocumentSound, FlagDecided, GenerationTells
<1>18. ASSUME NEW c \in Clients, RollBackStored(c) PROVE GenerationTells'
  BY <1>18 DEF RollBackStored, Goto, Reply, ResetRuntime, writerVars, workerVars,
       history, LocksHeld, DocumentSound, FlagDecided, GenerationTells
<1>19. CASE EditReads
  BY <1>19 DEF EditReads, clientVars, workerVars, history, LocksHeld, DocumentSound,
       FlagDecided, GenerationTells
<1>20. CASE EditSaves
  BY <1>20 DEF EditSaves, clientVars, workerVars, history, LocksHeld, DocumentSound,
       FlagDecided, GenerationTells
<1>21. CASE EditStored
  BY <1>21 DEF EditStored, RequestReconcile, clientVars, history, LocksHeld,
       DocumentSound, FlagDecided, GenerationTells
<1>22. CASE TakeRequest
  BY <1>22 DEF TakeRequest, docVars, clientVars, writerVars, LocksHeld,
       DocumentSound, FlagDecided, GenerationTells
<1>23. CASE CheckPasses
  BY <1>23 DEF CheckPasses, docVars, clientVars, writerVars, history, LocksHeld,
       DocumentSound, FlagDecided, GenerationTells
<1>24. CASE CheckDefers
  BY <1>24 DEF CheckDefers, EndAttempt, docVars, writerVars, LocksHeld, DocumentSound,
       FlagDecided, GenerationTells
<1>25. CASE ReadPrunes
  BY <1>25 DEF ReadPrunes, clientVars, writerVars, history, LocksHeld, DocumentSound,
       FlagDecided, GenerationTells
<1>26. CASE ReadOff
  BY <1>26 DEF ReadOff, EndAttempt, DocumentRead, writerVars, LocksHeld, DocumentSound,
       FlagDecided, GenerationTells
<1>27. CASE ReadOn
  BY <1>27 DEF ReadOn, DocumentRead, clientVars, writerVars, LocksHeld, DocumentSound,
       FlagDecided, GenerationTells
<1>28. CASE CallHardware
  BY <1>28 DEF CallHardware, docVars, clientVars, writerVars, history, LocksHeld,
       DocumentSound, FlagDecided, GenerationTells
<1>29. CASE HardwareAnswers
  BY <1>29 DEF HardwareAnswers, docVars, clientVars, writerVars, history, LocksHeld,
       DocumentSound, FlagDecided, GenerationTells
<1>30. CASE FinishAttempt
  BY <1>30 DEF FinishAttempt, EndAttempt, docVars, writerVars, LocksHeld, DocumentSound,
       FlagDecided, GenerationTells
<1>31. CASE AttemptBreaks
  BY <1>31 DEF AttemptBreaks, EndAttempt, docVars, writerVars, LocksHeld, DocumentSound,
       FlagDecided, GenerationTells
<1>32. CASE WorkerUnwinds
  BY <1>32 DEF WorkerUnwinds, EndAttempt, writerVars, LocksHeld, DocumentSound,
       FlagDecided, GenerationTells
<1>33. CASE Start
  BY <1>33 DEF Start, docVars, clientVars, writerVars, history, LocksHeld,
       DocumentSound, FlagDecided, GenerationTells
<1>34. CASE Tick
  BY <1>34 DEF Tick, docVars, clientVars, writerVars, history, LocksHeld, DocumentSound,
       FlagDecided, GenerationTells
<1>35. CASE Unload
  BY <1>35 DEF Unload, docVars, writerVars, history, LocksHeld, DocumentSound,
       FlagDecided, GenerationTells
<1>36. CASE Stopped
  BY <1>36 DEF Stopped, ResetRuntime, docVars, clientVars, writerVars, history,
       LocksHeld, DocumentSound, FlagDecided, GenerationTells
<1>37. CASE UNCHANGED vars
  BY <1>37 DEF vars, docVars, clientVars, writerVars, workerVars, history, LocksHeld,
       DocumentSound, FlagDecided, GenerationTells
<1> QED
  BY <1>1, <1>2, <1>3, <1>4, <1>5, <1>6, <1>7, <1>8, <1>9, <1>10, <1>11, <1>12, <1>13,
       <1>14, <1>15, <1>16, <1>17, <1>18, <1>19, <1>20, <1>21, <1>22, <1>23, <1>24,
       <1>25, <1>26, <1>27, <1>28, <1>29, <1>30, <1>31, <1>32, <1>33, <1>34, <1>35,
       <1>36, <1>37 DEF Next, SetExecution, Edit, Work

(* A waiter is resolved by the attempt, the stop or the unload that drops it. *)
LEMMA QueueKept ==
  ASSUME TypeOK, TypeOK', LocksHeld, FlagDecided, GenerationTells, QueueSound, [Next]_vars
  PROVE  QueueSound'
<1> USE ClientsAssumption, BoundsAssumption, FaultsAssumption DEF Free, Writer, Worker,
     Background, TypeOK, DocPlaces, Places, FlagPlaces, Enabled, Counts, Active
<1>1. ASSUME NEW c \in Clients, Call(c) PROVE QueueSound'
  BY <1>1 DEF Call, Goto, NoReply, docVars, writerVars, workerVars, LocksHeld,
       FlagDecided, GenerationTells, QueueSound
<1>2. ASSUME NEW c \in Clients, TakeFlagLock(c) PROVE QueueSound'
  BY <1>2 DEF TakeFlagLock, Goto, docVars, writerVars, workerVars, history, LocksHeld,
       FlagDecided, GenerationTells, QueueSound
<1>3. ASSUME NEW c \in Clients, DecideNotRunning(c) PROVE QueueSound'
  BY <1>3 DEF DecideNotRunning, Goto, Reply, docVars, writerVars, workerVars, history,
       LocksHeld, FlagDecided, GenerationTells, QueueSound
<1>4. ASSUME NEW c \in Clients, DecideEnable(c) PROVE QueueSound'
  BY <1>4 DEF DecideEnable, Goto, writerVars, workerVars, LocksHeld, FlagDecided,
       GenerationTells, QueueSound
<1>5. ASSUME NEW c \in Clients, EnableStored(c) PROVE QueueSound'
  BY <1>5 DEF EnableStored, Goto, QueueAndWait, writerVars, LocksHeld, FlagDecided,
       GenerationTells, QueueSound
<1>6. ASSUME NEW c \in Clients, DecideEnableAgain(c) PROVE QueueSound'
  BY <1>6 DEF DecideEnableAgain, Goto, QueueAndWait, docVars, writerVars, history,
       LocksHeld, FlagDecided, GenerationTells, QueueSound
<1>7. ASSUME NEW c \in Clients, DecideDisableAgain(c) PROVE QueueSound'
  BY <1>7 DEF DecideDisableAgain, Goto, Reply, ResetRuntime, docVars, writerVars,
       workerVars, LocksHeld, FlagDecided, GenerationTells, QueueSound
<1>8. ASSUME NEW c \in Clients, DecideDisable(c) PROVE QueueSound'
  BY <1>8 DEF DecideDisable, Goto, ResetRuntime, docVars, writerVars, workerVars,
       LocksHeld, FlagDecided, GenerationTells, QueueSound
<1>9. ASSUME NEW c \in Clients, StoreOff(c) PROVE QueueSound'
  BY <1>9 DEF StoreOff, Goto, writerVars, workerVars, history, LocksHeld, FlagDecided,
       GenerationTells, QueueSound
<1>10. ASSUME NEW c \in Clients, OffStored(c) PROVE QueueSound'
  BY <1>10 DEF OffStored, Goto, writerVars, workerVars, history, LocksHeld, FlagDecided,
       GenerationTells, QueueSound
<1>11. ASSUME NEW c \in Clients, DisableReturns(c) PROVE QueueSound'
  BY <1>11 DEF DisableReturns, Goto, Reply, docVars, writerVars, workerVars, LocksHeld,
       FlagDecided, GenerationTells, QueueSound
<1>12. ASSUME NEW c \in Clients, ReconcileSucceeded(c) PROVE QueueSound'
  BY <1>12 DEF ReconcileSucceeded, Goto, docVars, writerVars, workerVars, history,
       LocksHeld, FlagDecided, GenerationTells, QueueSound
<1>13. ASSUME NEW c \in Clients, ReconcileFailed(c) PROVE QueueSound'
  BY <1>13 DEF ReconcileFailed, Goto, Reply, docVars, writerVars, workerVars, history,
       LocksHeld, FlagDecided, GenerationTells, QueueSound
<1>14. ASSUME NEW c \in Clients, ReconcileBroke(c) PROVE QueueSound'
  BY <1>14 DEF ReconcileBroke, Goto, Reply, docVars, writerVars, workerVars, history,
       LocksHeld, FlagDecided, GenerationTells, QueueSound
<1>15. ASSUME NEW c \in Clients, EnableReturns(c) PROVE QueueSound'
  BY <1>15 DEF EnableReturns, Goto, Reply, docVars, writerVars, workerVars, history,
       LocksHeld, FlagDecided, GenerationTells, QueueSound
<1>16. ASSUME NEW c \in Clients, RollBack(c) PROVE QueueSound'
  BY <1>16 DEF RollBack, Goto, Reply, docVars, writerVars, workerVars, LocksHeld,
       FlagDecided, GenerationTells, QueueSound
<1>17. ASSUME NEW c \in Clients, RollBackStoreOff(c) PROVE QueueSound'
  BY <1>17 DEF RollBackStoreOff, Goto, Reply, ResetRuntime, writerVars, workerVars,
       history, LocksHeld, FlagDecided, GenerationTells, QueueSound
<1>18. ASSUME NEW c \in Clients, RollBackStored(c) PROVE QueueSound'
  BY <1>18 DEF RollBackStored, Goto, Reply, ResetRuntime, writerVars, workerVars,
       history, LocksHeld, FlagDecided, GenerationTells, QueueSound
<1>19. CASE EditReads
  BY <1>19 DEF EditReads, clientVars, workerVars, history, LocksHeld, FlagDecided,
       GenerationTells, QueueSound
<1>20. CASE EditSaves
  BY <1>20 DEF EditSaves, clientVars, workerVars, history, LocksHeld, FlagDecided,
       GenerationTells, QueueSound
<1>21. CASE EditStored
  BY <1>21 DEF EditStored, RequestReconcile, clientVars, history, LocksHeld,
       FlagDecided, GenerationTells, QueueSound
<1>22. CASE TakeRequest
  BY <1>22 DEF TakeRequest, docVars, clientVars, writerVars, LocksHeld,
       FlagDecided, GenerationTells, QueueSound
<1>23. CASE CheckPasses
  BY <1>23 DEF CheckPasses, docVars, clientVars, writerVars, history, LocksHeld,
       FlagDecided, GenerationTells, QueueSound
<1>24. CASE CheckDefers
  BY <1>24 DEF CheckDefers, EndAttempt, docVars, writerVars, LocksHeld, FlagDecided,
       GenerationTells, QueueSound
<1>25. CASE ReadPrunes
  BY <1>25 DEF ReadPrunes, clientVars, writerVars, history, LocksHeld, FlagDecided,
       GenerationTells, QueueSound
<1>26. CASE ReadOff
  BY <1>26 DEF ReadOff, EndAttempt, DocumentRead, writerVars, LocksHeld, FlagDecided,
       GenerationTells, QueueSound
<1>27. CASE ReadOn
  BY <1>27 DEF ReadOn, DocumentRead, clientVars, writerVars, LocksHeld, FlagDecided,
       GenerationTells, QueueSound
<1>28. CASE CallHardware
  BY <1>28 DEF CallHardware, docVars, clientVars, writerVars, history, LocksHeld,
       FlagDecided, GenerationTells, QueueSound
<1>29. CASE HardwareAnswers
  BY <1>29 DEF HardwareAnswers, docVars, clientVars, writerVars, history, LocksHeld,
       FlagDecided, GenerationTells, QueueSound
<1>30. CASE FinishAttempt
  BY <1>30 DEF FinishAttempt, EndAttempt, docVars, writerVars, LocksHeld, FlagDecided,
       GenerationTells, QueueSound
<1>31. CASE AttemptBreaks
  BY <1>31 DEF AttemptBreaks, EndAttempt, docVars, writerVars, LocksHeld, FlagDecided,
       GenerationTells, QueueSound
<1>32. CASE WorkerUnwinds
  BY <1>32 DEF WorkerUnwinds, EndAttempt, writerVars, LocksHeld, FlagDecided,
       GenerationTells, QueueSound
<1>33. CASE Start
  BY <1>33 DEF Start, docVars, clientVars, writerVars, history, LocksHeld, FlagDecided,
       GenerationTells, QueueSound
<1>34. CASE Tick
  BY <1>34 DEF Tick, docVars, clientVars, writerVars, history, LocksHeld, FlagDecided,
       GenerationTells, QueueSound
<1>35. CASE Unload
  BY <1>35 DEF Unload, docVars, writerVars, history, LocksHeld, FlagDecided,
       GenerationTells, QueueSound
<1>36. CASE Stopped
  BY <1>36 DEF Stopped, ResetRuntime, docVars, clientVars, writerVars, history,
       LocksHeld, FlagDecided, GenerationTells, QueueSound
<1>37. CASE UNCHANGED vars
  BY <1>37 DEF vars, docVars, clientVars, writerVars, workerVars, history, LocksHeld,
       FlagDecided, GenerationTells, QueueSound
<1> QED
  BY <1>1, <1>2, <1>3, <1>4, <1>5, <1>6, <1>7, <1>8, <1>9, <1>10, <1>11, <1>12, <1>13,
       <1>14, <1>15, <1>16, <1>17, <1>18, <1>19, <1>20, <1>21, <1>22, <1>23, <1>24,
       <1>25, <1>26, <1>27, <1>28, <1>29, <1>30, <1>31, <1>32, <1>33, <1>34, <1>35,
       <1>36, <1>37 DEF Next, SetExecution, Edit, Work
-----------------------------------------------------------------------------
(* One step of the whole. *)
LEMMA ExecutionGoesOn == ExecutionInv /\ [Next]_vars => ExecutionInv'
<1> SUFFICES ASSUME ExecutionInv, [Next]_vars PROVE ExecutionInv'
  OBVIOUS
<1>1. TypeOK /\ LocksHeld /\ DocumentSound /\ FlagDecided /\ GenerationTells /\ QueueSound
  BY DEF ExecutionInv
<1>2. TypeOK'           BY <1>1, TypeKept
<1>3. LocksHeld'        BY <1>1, <1>2, LocksKept
<1>4. DocumentSound'    BY <1>1, <1>2, DocumentKept
<1>5. FlagDecided'      BY <1>1, <1>2, FlagKept
<1>6. GenerationTells'  BY <1>1, <1>2, GenerationKept
<1>7. QueueSound'       BY <1>1, <1>2, QueueKept
<1> QED BY <1>2, <1>3, <1>4, <1>5, <1>6, <1>7 DEF ExecutionInv

(* The inductive invariant holds in every reachable state. *)
THEOREM ExecutionHolds == Spec => []ExecutionInv
  BY ExecutionStarts, ExecutionGoesOn, PTL DEF Spec

(* Every field of the service, the worker and their callers stays within its *)
(* type.                                                                     *)
THEOREM ExecutionTypeCorrect == Spec => []TypeOK
  BY ExecutionHolds, PTL DEF ExecutionInv

(* Between two transitions the stored flag is what the newest decision made *)
(* it, in memory and on disk.                                               *)
THEOREM NewestDecision == Spec => []FlagIsNewestDecision
<1>1. ExecutionInv => FlagIsNewestDecision
  <2> SUFFICES ASSUME ExecutionInv, flagLock = Free PROVE flag = decided /\ disk = decided
    BY DEF FlagIsNewestDecision
  <2>1. \A c \in Clients : pc[c] \notin FlagPlaces
    BY ClientsAssumption DEF ExecutionInv, LocksHeld, Free, Writer, Worker, Background
  <2>2. flag = decided
    BY <2>1 DEF ExecutionInv, FlagDecided, FlagPlaces
  <2>3. docLock \notin Clients
    BY <2>1 DEF ExecutionInv, LocksHeld, FlagPlaces, DocPlaces
  <2> QED BY <2>2, <2>3 DEF ExecutionInv, DocumentSound
<1> QED BY <1>1, ExecutionHolds, PTL

(* Once a disable has been answered, execution stays off, on disk too, until *)
(* the next enable is stored.                                                *)
THEOREM DisableHolds == Spec => []AcknowledgedDisableHolds
<1>1. ExecutionInv => AcknowledgedDisableHolds
  <2> SUFFICES ASSUME ExecutionInv, ackOff = "yes" PROVE flag = "off" /\ disk = "off"
    BY DEF AcknowledgedDisableHolds
  <2>1. flag = "off"
    BY DEF ExecutionInv, FlagDecided
  <2>2. docLock \notin Clients
    BY DEF ExecutionInv, LocksHeld, FlagDecided
  <2> QED BY <2>1, <2>2 DEF ExecutionInv, DocumentSound
<1> QED BY <1>1, ExecutionHolds, PTL

(* No caller waits for a future that nobody will resolve. *)
THEOREM WaitersServed == Spec => []WaiterHasServer
<1>1. ExecutionInv => WaiterHasServer
  BY DEF ExecutionInv, QueueSound, WaiterHasServer
<1> QED BY <1>1, ExecutionHolds, PTL

(* Only the gate lets an attempt call the hardware, and it asks for the flag. *)
LEMMA OnlyTheGateCalls ==
  ASSUME [Next]_vars, worker = "acting", worker' = "calling" PROVE flag = "on"
<1>1. ASSUME NEW c \in Clients, Call(c) \/ SetExecution(c) PROVE FALSE
  BY <1>1 DEF Call, SetExecution, TakeFlagLock, DecideNotRunning, DecideEnable,
       EnableStored, DecideEnableAgain, DecideDisableAgain, DecideDisable, StoreOff,
       OffStored, DisableReturns, ReconcileSucceeded, ReconcileFailed, ReconcileBroke,
       EnableReturns, RollBack, RollBackStoreOff, RollBackStored, Goto, Reply,
       QueueAndWait, ResetRuntime, docVars, writerVars, workerVars
<1>2. CASE \/ Edit \/ Start \/ Tick \/ Unload \/ Stopped
  BY <1>2 DEF Edit, EditReads, EditSaves, EditStored, Start, Tick, Unload, Stopped,
       ResetRuntime, RequestReconcile, docVars, clientVars, writerVars, workerVars
<1>3. CASE Work
  BY <1>3 DEF Work, TakeRequest, CheckPasses, CheckDefers, ReadPrunes, ReadOff, ReadOn,
       CallHardware, HardwareAnswers, FinishAttempt, AttemptBreaks, WorkerUnwinds,
       EndAttempt, DocumentRead
<1>4. CASE UNCHANGED vars
  BY <1>4 DEF vars, workerVars
<1> QED BY <1>1, <1>2, <1>3, <1>4 DEF Next

(* No hardware call begins once a disable has been answered. *)
THEOREM CallsGated == Spec => NoCallAfterDisable
<1>1. ExecutionInv /\ [Next]_vars => [worker = "acting" /\ worker' = "calling" => ackOff = "no"]_vars
  BY OnlyTheGateCalls DEF ExecutionInv, TypeOK, FlagDecided
<1> QED BY <1>1, ExecutionHolds, PTL DEF Spec, NoCallAfterDisable

(* A rollback switches off only the on-period its own enable began. *)
THEOREM RollbackOwn == Spec => RollbackUndoesOnlyItsOwn
<1>1. ExecutionInv => \A c \in Clients : pc[c] = "rollDoc" => enabler = c
  BY DEF ExecutionInv, FlagDecided
<1>2. ExecutionInv /\ [Next]_vars =>
        [\A c \in Clients : pc[c] = "rollDoc" /\ flag = "on" /\ flag' = "off" => enabler = c]_vars
  BY <1>1
<1> QED BY <1>2, ExecutionHolds, PTL DEF Spec, RollbackUndoesOnlyItsOwn

(* Whoever's call announces a transition made the present on-period, and an *)
(* attempt has tried it.                                                    *)
LEMMA Announced ==
  ASSUME ExecutionInv, [Next]_vars, NEW d \in Clients,
         reply'[d].transitioned = "yes", reply[d].transitioned = "no"
  PROVE  flag = "on" /\ enabler = d /\ served[d] \in {"deferred", "applied"}
<1> DEFINE Goal == flag = "on" /\ enabler = d /\ served[d] \in {"deferred", "applied"}
<1> SUFFICES Goal
  OBVIOUS
<1>a. reply \in [Clients -> [end : Ended, flag : Flags, transitioned : {"yes", "no"}]]
  BY DEF ExecutionInv, TypeOK
<1> HIDE DEF Goal
<1>1. ASSUME NEW c \in Clients, Call(c) PROVE Goal
  BY <1>a, <1>1 DEF Call, Goto, NoReply, docVars, writerVars, workerVars, NoReply
<1>2. ASSUME NEW c \in Clients, TakeFlagLock(c) PROVE Goal
  BY <1>a, <1>2 DEF TakeFlagLock, Goto, docVars, writerVars, workerVars, history
<1>3. ASSUME NEW c \in Clients, DecideNotRunning(c) PROVE Goal
  BY <1>a, <1>3 DEF DecideNotRunning, Goto, Reply, docVars, writerVars, workerVars,
       history
<1>4. ASSUME NEW c \in Clients, DecideEnable(c) PROVE Goal
  BY <1>a, <1>4 DEF DecideEnable, Goto, writerVars, workerVars
<1>5. ASSUME NEW c \in Clients, EnableStored(c) PROVE Goal
  BY <1>a, <1>5 DEF EnableStored, Goto, QueueAndWait, writerVars
<1>6. ASSUME NEW c \in Clients, DecideEnableAgain(c) PROVE Goal
  BY <1>a, <1>6 DEF DecideEnableAgain, Goto, QueueAndWait, docVars, writerVars, history
<1>7. ASSUME NEW c \in Clients, DecideDisableAgain(c) PROVE Goal
  BY <1>a, <1>7 DEF DecideDisableAgain, Goto, Reply, ResetRuntime, docVars, writerVars,
       workerVars
<1>8. ASSUME NEW c \in Clients, DecideDisable(c) PROVE Goal
  BY <1>a, <1>8 DEF DecideDisable, Goto, ResetRuntime, docVars, writerVars, workerVars
<1>9. ASSUME NEW c \in Clients, StoreOff(c) PROVE Goal
  BY <1>a, <1>9 DEF StoreOff, Goto, writerVars, workerVars, history
<1>10. ASSUME NEW c \in Clients, OffStored(c) PROVE Goal
  BY <1>a, <1>10 DEF OffStored, Goto, writerVars, workerVars, history
<1>11. ASSUME NEW c \in Clients, DisableReturns(c) PROVE Goal
  BY <1>a, <1>11 DEF DisableReturns, Goto, Reply, docVars, writerVars, workerVars
<1>12. ASSUME NEW c \in Clients, ReconcileSucceeded(c) PROVE Goal
  BY <1>a, <1>12 DEF ReconcileSucceeded, Goto, docVars, writerVars, workerVars, history
<1>13. ASSUME NEW c \in Clients, ReconcileFailed(c) PROVE Goal
  BY <1>a, <1>13 DEF ReconcileFailed, Goto, Reply, docVars, writerVars, workerVars,
       history
<1>14. ASSUME NEW c \in Clients, ReconcileBroke(c) PROVE Goal
  BY <1>a, <1>14 DEF ReconcileBroke, Goto, Reply, docVars, writerVars, workerVars,
       history
<1>15. ASSUME NEW c \in Clients, EnableReturns(c) PROVE Goal
  BY <1>a, <1>15 DEF EnableReturns, Reply, Goal, ExecutionInv, GenerationTells, QueueSound,
       Counts, Enabled
<1>16. ASSUME NEW c \in Clients, RollBack(c) PROVE Goal
  BY <1>a, <1>16 DEF RollBack, Goto, Reply, docVars, writerVars, workerVars
<1>17. ASSUME NEW c \in Clients, RollBackStoreOff(c) PROVE Goal
  BY <1>a, <1>17 DEF RollBackStoreOff, Goto, Reply, ResetRuntime, writerVars,
       workerVars, history
<1>18. ASSUME NEW c \in Clients, RollBackStored(c) PROVE Goal
  BY <1>a, <1>18 DEF RollBackStored, Goto, Reply, ResetRuntime, writerVars, workerVars,
       history
<1>19. CASE EditReads
  BY <1>a, <1>19 DEF EditReads, clientVars, workerVars, history
<1>20. CASE EditSaves
  BY <1>a, <1>20 DEF EditSaves, clientVars, workerVars, history
<1>21. CASE EditStored
  BY <1>a, <1>21 DEF EditStored, RequestReconcile, clientVars, history
<1>22. CASE TakeRequest
  BY <1>a, <1>22 DEF TakeRequest, docVars, clientVars, writerVars
<1>23. CASE CheckPasses
  BY <1>a, <1>23 DEF CheckPasses, docVars, clientVars, writerVars, history
<1>24. CASE CheckDefers
  BY <1>a, <1>24 DEF CheckDefers, EndAttempt, docVars, writerVars
<1>25. CASE ReadPrunes
  BY <1>a, <1>25 DEF ReadPrunes, clientVars, writerVars, history
<1>26. CASE ReadOff
  BY <1>a, <1>26 DEF ReadOff, EndAttempt, DocumentRead, writerVars
<1>27. CASE ReadOn
  BY <1>a, <1>27 DEF ReadOn, DocumentRead, clientVars, writerVars
<1>28. CASE CallHardware
  BY <1>a, <1>28 DEF CallHardware, docVars, clientVars, writerVars, history
<1>29. CASE HardwareAnswers
  BY <1>a, <1>29 DEF HardwareAnswers, docVars, clientVars, writerVars, history
<1>30. CASE FinishAttempt
  BY <1>a, <1>30 DEF FinishAttempt, EndAttempt, docVars, writerVars
<1>31. CASE AttemptBreaks
  BY <1>a, <1>31 DEF AttemptBreaks, EndAttempt, docVars, writerVars
<1>32. CASE WorkerUnwinds
  BY <1>a, <1>32 DEF WorkerUnwinds, EndAttempt, writerVars
<1>33. CASE Start
  BY <1>a, <1>33 DEF Start, docVars, clientVars, writerVars, history
<1>34. CASE Tick
  BY <1>a, <1>34 DEF Tick, docVars, clientVars, writerVars, history
<1>35. CASE Unload
  BY <1>a, <1>35 DEF Unload, docVars, writerVars, history
<1>36. CASE Stopped
  BY <1>a, <1>36 DEF Stopped, ResetRuntime, docVars, clientVars, writerVars, history
<1>37. CASE UNCHANGED vars
  BY <1>37 DEF vars, docVars, clientVars, writerVars, workerVars, history
<1> QED BY <1>1, <1>2, <1>3, <1>4, <1>5, <1>6, <1>7, <1>8, <1>9, <1>10, <1>11, <1>12,
     <1>13, <1>14, <1>15, <1>16, <1>17, <1>18, <1>19, <1>20, <1>21, <1>22, <1>23, <1>24,
     <1>25, <1>26, <1>27, <1>28, <1>29, <1>30, <1>31, <1>32, <1>33, <1>34, <1>35, <1>36,
     <1>37 DEF Next, SetExecution, Edit, Work

(* A transition is announced by the call that made it, once it was tried. *)
THEOREM AnnouncedOnce == Spec => TransitionAnnounced
<1>1. ExecutionInv /\ [Next]_vars =>
        [\A c \in Clients :
           reply'[c].transitioned = "yes" /\ reply[c].transitioned = "no" =>
             flag = "on" /\ enabler = c /\ served[c] \in {"deferred", "applied"}]_vars
  BY Announced
<1> QED BY <1>1, ExecutionHolds, PTL DEF Spec, TransitionAnnounced

(* A call whose enable came to nothing returns behind the end of its       *)
(* on-period.                                                              *)
LEMMA Undone ==
  ASSUME ExecutionInv, [Next]_vars, NEW d \in Clients,
         call[d].want = "on", EnableFailed(d), ReturnsNow(d)
  PROVE  OnPeriodOver(d)
<1>a. pc \in [Clients -> Places]
  BY DEF ExecutionInv, TypeOK
<1> USE DEF EnableFailed, ReturnsNow, OnPeriodOver, Places, DocPlaces
<1>1. ASSUME NEW c \in Clients, Call(c) PROVE OnPeriodOver(d)
  BY <1>a, <1>1 DEF Call, Goto, NoReply, docVars, writerVars, workerVars, NoReply
<1>2. ASSUME NEW c \in Clients, TakeFlagLock(c) PROVE OnPeriodOver(d)
  BY <1>a, <1>2 DEF TakeFlagLock, Goto, docVars, writerVars, workerVars, history
<1>3. ASSUME NEW c \in Clients, DecideNotRunning(c) PROVE OnPeriodOver(d)
  BY <1>a, <1>3 DEF DecideNotRunning, Goto, Reply, docVars, writerVars, workerVars,
       history, ExecutionInv, FlagDecided, GenerationTells, QueueSound, Enabled
<1>4. ASSUME NEW c \in Clients, DecideEnable(c) PROVE OnPeriodOver(d)
  BY <1>a, <1>4 DEF DecideEnable, Goto, writerVars, workerVars
<1>5. ASSUME NEW c \in Clients, EnableStored(c) PROVE OnPeriodOver(d)
  BY <1>a, <1>5 DEF EnableStored, Goto, QueueAndWait, writerVars
<1>6. ASSUME NEW c \in Clients, DecideEnableAgain(c) PROVE OnPeriodOver(d)
  BY <1>a, <1>6 DEF DecideEnableAgain, Goto, QueueAndWait, docVars, writerVars, history
<1>7. ASSUME NEW c \in Clients, DecideDisableAgain(c) PROVE OnPeriodOver(d)
  BY <1>a, <1>7 DEF DecideDisableAgain, Goto, Reply, ResetRuntime, docVars, writerVars,
       workerVars, ExecutionInv, FlagDecided, GenerationTells, QueueSound, Enabled
<1>8. ASSUME NEW c \in Clients, DecideDisable(c) PROVE OnPeriodOver(d)
  BY <1>a, <1>8 DEF DecideDisable, Goto, ResetRuntime, docVars, writerVars, workerVars
<1>9. ASSUME NEW c \in Clients, StoreOff(c) PROVE OnPeriodOver(d)
  BY <1>a, <1>9 DEF StoreOff, Goto, writerVars, workerVars, history
<1>10. ASSUME NEW c \in Clients, OffStored(c) PROVE OnPeriodOver(d)
  BY <1>a, <1>10 DEF OffStored, Goto, writerVars, workerVars, history
<1>11. ASSUME NEW c \in Clients, DisableReturns(c) PROVE OnPeriodOver(d)
  BY <1>a, <1>11 DEF DisableReturns, Goto, Reply, docVars, writerVars, workerVars, ExecutionInv,
       FlagDecided, GenerationTells, QueueSound, Enabled
<1>12. ASSUME NEW c \in Clients, ReconcileSucceeded(c) PROVE OnPeriodOver(d)
  BY <1>a, <1>12 DEF ReconcileSucceeded, Goto, docVars, writerVars, workerVars, history
<1>13. ASSUME NEW c \in Clients, ReconcileFailed(c) PROVE OnPeriodOver(d)
  BY <1>a, <1>13 DEF ReconcileFailed, Goto, Reply, docVars, writerVars, workerVars,
       history, ExecutionInv, FlagDecided, GenerationTells, QueueSound, Enabled
<1>14. ASSUME NEW c \in Clients, ReconcileBroke(c) PROVE OnPeriodOver(d)
  BY <1>a, <1>14 DEF ReconcileBroke, Goto, Reply, docVars, writerVars, workerVars,
       history
<1>15. ASSUME NEW c \in Clients, EnableReturns(c) PROVE OnPeriodOver(d)
  BY <1>a, <1>15 DEF EnableReturns, Goto, Reply, docVars, writerVars, workerVars,
       history, ExecutionInv, FlagDecided, GenerationTells, QueueSound, Enabled
<1>16. ASSUME NEW c \in Clients, RollBack(c) PROVE OnPeriodOver(d)
  BY <1>a, <1>16 DEF RollBack, Goto, Reply, docVars, writerVars, workerVars, ExecutionInv,
       FlagDecided, GenerationTells, QueueSound, Enabled
<1>17. ASSUME NEW c \in Clients, RollBackStoreOff(c) PROVE OnPeriodOver(d)
  BY <1>a, <1>17 DEF RollBackStoreOff, Goto, Reply, ResetRuntime, writerVars,
       workerVars, history, ExecutionInv, FlagDecided, GenerationTells, QueueSound, Enabled
<1>18. ASSUME NEW c \in Clients, RollBackStored(c) PROVE OnPeriodOver(d)
  BY <1>a, <1>18 DEF RollBackStored, Goto, Reply, ResetRuntime, writerVars, workerVars,
       history, ExecutionInv, FlagDecided, GenerationTells, QueueSound, Enabled
<1>19. CASE EditReads
  BY <1>a, <1>19 DEF EditReads, clientVars, workerVars, history
<1>20. CASE EditSaves
  BY <1>a, <1>20 DEF EditSaves, clientVars, workerVars, history
<1>21. CASE EditStored
  BY <1>a, <1>21 DEF EditStored, RequestReconcile, clientVars, history
<1>22. CASE TakeRequest
  BY <1>a, <1>22 DEF TakeRequest, docVars, clientVars, writerVars
<1>23. CASE CheckPasses
  BY <1>a, <1>23 DEF CheckPasses, docVars, clientVars, writerVars, history
<1>24. CASE CheckDefers
  BY <1>a, <1>24 DEF CheckDefers, EndAttempt, docVars, writerVars
<1>25. CASE ReadPrunes
  BY <1>a, <1>25 DEF ReadPrunes, clientVars, writerVars, history
<1>26. CASE ReadOff
  BY <1>a, <1>26 DEF ReadOff, EndAttempt, DocumentRead, writerVars
<1>27. CASE ReadOn
  BY <1>a, <1>27 DEF ReadOn, DocumentRead, clientVars, writerVars
<1>28. CASE CallHardware
  BY <1>a, <1>28 DEF CallHardware, docVars, clientVars, writerVars, history
<1>29. CASE HardwareAnswers
  BY <1>a, <1>29 DEF HardwareAnswers, docVars, clientVars, writerVars, history
<1>30. CASE FinishAttempt
  BY <1>a, <1>30 DEF FinishAttempt, EndAttempt, docVars, writerVars
<1>31. CASE AttemptBreaks
  BY <1>a, <1>31 DEF AttemptBreaks, EndAttempt, docVars, writerVars
<1>32. CASE WorkerUnwinds
  BY <1>a, <1>32 DEF WorkerUnwinds, EndAttempt, writerVars
<1>33. CASE Start
  BY <1>a, <1>33 DEF Start, docVars, clientVars, writerVars, history
<1>34. CASE Tick
  BY <1>a, <1>34 DEF Tick, docVars, clientVars, writerVars, history
<1>35. CASE Unload
  BY <1>a, <1>35 DEF Unload, docVars, writerVars, history
<1>36. CASE Stopped
  BY <1>a, <1>36 DEF Stopped, ResetRuntime, docVars, clientVars, writerVars, history
<1>37. CASE UNCHANGED vars
  BY <1>37 DEF vars, docVars, clientVars, writerVars, workerVars, history
<1> QED BY <1>1, <1>2, <1>3, <1>4, <1>5, <1>6, <1>7, <1>8, <1>9, <1>10, <1>11, <1>12,
     <1>13, <1>14, <1>15, <1>16, <1>17, <1>18, <1>19, <1>20, <1>21, <1>22, <1>23, <1>24,
     <1>25, <1>26, <1>27, <1>28, <1>29, <1>30, <1>31, <1>32, <1>33, <1>34, <1>35, <1>36,
     <1>37 DEF Next, SetExecution, Edit, Work

(* An enable that failed has not left its own on-period on behind it. *)
THEOREM FailedUndone == Spec => FailedEnableIsUndone
<1>1. ExecutionInv /\ [Next]_vars =>
        [\A c \in Clients :
           call[c].want = "on" /\ EnableFailed(c) /\ ReturnsNow(c) => OnPeriodOver(c)]_vars
  BY Undone
<1> QED BY <1>1, ExecutionHolds, PTL DEF Spec, FailedEnableIsUndone
----------------------------------------------------------------------------
(* The automation run. *)

USE LanesAssumption, AutomationBoundsAssumption

----------------------------------------------------------------------------
(* What the document operators return, position by position. *)

\* Keep (prune, normalize) gives a document that has Nothing where a position is dropped.
LEMMA KeepFacts ==
  ASSUME NEW d \in Documents, NEW S
  PROVE  /\ Keep(d, S) \in Documents
         /\ \A p \in Positions : Keep(d, S)[p] = IF p \in S THEN d[p] ELSE Nothing
BY DEF Keep, Documents, Actions, Owners, Nothing

\* Strip gives a document, without the automation's actions on the lanes.
LEMMA StripFacts ==
  ASSUME NEW d \in Documents, NEW L
  PROVE  /\ Strip(d, L) \in Documents
         /\ \A p \in Positions : Strip(d, L)[p] =
              IF IsAutomationOwned(d[p]) /\ p[2] \in L THEN Nothing ELSE d[p]
BY DEF Strip, Documents, Actions, Owners, Nothing

\* Write gives a document, changed only where the user owns nothing.
LEMMA WriteFacts ==
  ASSUME NEW d \in Documents, NEW lane, NEW S, NEW a \in Actions
  PROVE  /\ Write(d, lane, S, a) \in Documents
         /\ \A p \in Positions : Write(d, lane, S, a)[p] =
              IF p[2] = lane /\ p[1] \in S /\ ~IsUserOwned(d[p]) THEN a ELSE d[p]
BY DEF Write, Documents

\* Patch gives a document, changed in one slot only, to the user's actions or none.
LEMMA PatchFacts ==
  ASSUME NEW d \in Documents, NEW s, NEW L
  PROVE  /\ Patch(d, s, L) \in Documents
         /\ \A p \in Positions : Patch(d, s, L)[p] =
              IF p[1] = s THEN (IF p[2] \in L THEN UserAction ELSE Nothing) ELSE d[p]
BY DEF Patch, Documents, Actions, Owners, Nothing, UserAction

\* Merge gives a document: the user's actions of the baseline, and elsewhere
\* the run's, which become the automation's.
LEMMA MergeFacts ==
  ASSUME NEW d \in Documents, NEW r \in Documents
  PROVE  /\ Merge(d, r) \in Documents
         /\ \A p \in Positions :
              /\ IsUserOwned(d[p]) => Merge(d, r)[p] = d[p]
              /\ ~IsUserOwned(d[p]) /\ r[p] = Nothing => ~IsAutomationOwned(Merge(d, r)[p]) /\ ~IsUserOwned(Merge(d, r)[p])
              /\ ~IsUserOwned(d[p]) /\ r[p] # Nothing => Merge(d, r)[p] = [r[p] EXCEPT !.by = "automation"]
<1>1. \A p \in Positions : p[2] \in Lanes
  BY DEF Positions
<1>2. Strip(d, Lanes) \in Documents
  BY StripFacts
<1>3. \A p \in Positions : Strip(d, Lanes)[p] = IF IsAutomationOwned(d[p]) THEN Nothing ELSE d[p]
  BY <1>1, StripFacts
<1>4. \A p \in Positions : [r[p] EXCEPT !.by = "automation"] \in Actions
  BY DEF Documents, Actions, Owners
<1>5. Merge(d, r) \in Documents
  BY <1>2, <1>4 DEF Merge, Documents
<1>6. \A p \in Positions : Merge(d, r)[p] =
        IF IsUserOwned(d[p]) \/ r[p] = Nothing THEN Strip(d, Lanes)[p]
        ELSE [r[p] EXCEPT !.by = "automation"]
  BY DEF Merge
<1> QED
  BY <1>3, <1>5, <1>6 DEF IsUserOwned, IsAutomationOwned, Nothing

\* Placements and the empty document are what their types say.
LEMMA Constructors ==
  /\ Empty \in Documents
  /\ \A p \in Positions : Empty[p] = Nothing
  /\ Nothing \in Actions /\ UserAction \in Actions
  /\ \A r \in Nat, ph \in Nat : Placement(r, ph) \in Actions
BY DEF Empty, Documents, Actions, Owners, Nothing, UserAction, Placement

----------------------------------------------------------------------------
(* The inductive invariant. *)

\* Nothing is the only action of nobody's, UserAction the only one of the user's.
Plain(d) == \A p \in Positions : /\ d[p].by = "nobody" => d[p] = Nothing
                                 /\ d[p].by = "user" => d[p] = UserAction

\* Where a run has its working copy of the document.
InRun == stage \in {"gathering", "looping", "placed", "persisting", "saving"}

\* What of the working copy the optimizers placed: an inverter action in
\* phase 2; an appliance's in the last appliance phase that began, on the lane
\* of a member.
WorkingPlan ==
  \A p \in Positions : IsAutomationOwned(working[p]) =>
    /\ working[p].run = run
    /\ p[2] = Inverter => working[p].phase = 2
    /\ p[2] # Inverter => /\ p[2] \in MemberLanes
                          /\ working[p].phase = IF phase = 3 THEN 3 ELSE 1

\* The user's actions are in the working copy, as they are in the document.
Carried == \A p \in Positions : IsUserOwned(doc[p]) => working[p] = doc[p]

Control ==
  /\ at <= now
  /\ config = "off" => stage = "idle"
  /\ stage \in {"placed", "persisting", "saving"} => phase = 3

RunInv == InRun => Carried /\ WorkingPlan

AutomationInv ==
  /\ AutomationTypeOK
  /\ Control
  /\ Plain(doc) /\ Plain(working)
  /\ PlanIsOfOneRun
  /\ OffMeansNoPlan
  /\ RunInv

\* A document that is another one with some positions dropped.
Within(d, e) == \A p \in Positions : d[p] = e[p] \/ d[p] = Nothing

NoPlan(d) == \A p \in Positions : ~IsAutomationOwned(d[p])

\* Dropping positions keeps every invariant of a single document.
LEMMA WithinKeeps ==
  ASSUME NEW d, NEW e, Within(d, e)
  PROVE  /\ Plain(e) => Plain(d)
         /\ \A r \in Nat : IsPlan(e, r) => IsPlan(d, r)
         /\ NoPlan(e) => NoPlan(d)
BY DEF Within, Plain, IsPlan, NoPlan, Nothing, IsAutomationOwned

\* Pruning only drops actions whose slot ended or whose appliance no longer
\* accepts them.
LEMMA PrunedFacts ==
  ASSUME AutomationTypeOK, NEW time \in Slots
  PROVE  /\ Pruned(time) \in Documents
         /\ Within(Pruned(time), doc)
         /\ \A p \in Positions : Pruned(time)[p] # doc[p] =>
              p[1] < time \/ (p[2] # Inverter /\ p[2] \notin live)
<1>1. doc \in Documents /\ live \subseteq Lanes
  BY DEF AutomationTypeOK
<1>2. \A p \in Positions : p[1] \in Slots /\ p[2] \in Lanes /\ p = <<p[1], p[2]>>
  BY DEF Positions
<1>3. \A p \in Positions : ~(p[1] < time) => p[1] >= time
  BY <1>2 DEF Slots
<1>4. \A p \in Positions : p \in Accepted(live \cap Appliances) <=> p[2] \in (live \cap Appliances) \cup {Inverter}
  BY <1>2 DEF Accepted
<1>5. \A p \in Positions : Pruned(time)[p] =
        IF p[2] \in (live \cap Appliances) \cup {Inverter} /\ p[1] >= time THEN doc[p] ELSE Nothing
  <2> DEFINE S == Accepted(live \cap Appliances) \cap {p \in Positions : p[1] >= time}
  <2>1. \A p \in Positions : p \in S <=> p[2] \in (live \cap Appliances) \cup {Inverter} /\ p[1] >= time
    BY <1>4
  <2>2. Pruned(time) = Keep(doc, S)
    BY DEF Pruned
  <2> HIDE DEF S
  <2>3. \A p \in Positions : Keep(doc, S)[p] = IF p \in S THEN doc[p] ELSE Nothing
    BY <1>1, KeepFacts
  <2> QED BY <2>1, <2>2, <2>3
<1>6. Pruned(time) \in Documents
  BY <1>1, KeepFacts DEF Pruned
<1>7. Within(Pruned(time), doc)
  BY <1>5 DEF Within
<1>8. ASSUME NEW p \in Positions, Pruned(time)[p] # doc[p]
      PROVE  p[1] < time \/ (p[2] # Inverter /\ p[2] \notin live)
  <2>1. p[2] \in Appliances \cup {Inverter}
    BY <1>2 DEF Lanes
  <2>2. p[2] \notin (live \cap Appliances) \cup {Inverter} \/ ~(p[1] >= time)
    BY <1>5, <1>8
  <2> QED BY <1>3, <2>1, <2>2
<1> QED
  BY <1>6, <1>7, <1>8

\* The document a normalization leaves.
LEMMA NormalizedFacts ==
  ASSUME NEW d \in Documents, NEW lanes
  PROVE  /\ Keep(d, Accepted(lanes)) \in Documents
         /\ Within(Keep(d, Accepted(lanes)), d)
         /\ \A p \in Positions : Keep(d, Accepted(lanes))[p] # d[p] => p[2] # Inverter /\ p[2] \notin lanes
<1>1. \A p \in Positions : p \in Accepted(lanes) <=> p[2] \in lanes \cup {Inverter}
  BY DEF Accepted, Positions
<1> QED
  BY <1>1, KeepFacts DEF Within

\* Stripping every lane leaves no plan.
LEMMA StrippedFacts ==
  ASSUME NEW d \in Documents
  PROVE  /\ Strip(d, Lanes) \in Documents
         /\ Within(Strip(d, Lanes), d)
         /\ NoPlan(Strip(d, Lanes))
         /\ \A p \in Positions : IsUserOwned(d[p]) => Strip(d, Lanes)[p] = d[p]
<1>1. \A p \in Positions : p[2] \in Lanes
  BY DEF Positions
<1> QED
  BY <1>1, StripFacts DEF Within, NoPlan, IsAutomationOwned, IsUserOwned, Nothing

----------------------------------------------------------------------------
(* Every step keeps the invariant. *)

(* The empty document of the initial states satisfies the invariant. *)
LEMMA AutomationStarts == AutomationInit => AutomationInv
<1> SUFFICES ASSUME AutomationInit PROVE AutomationInv
  OBVIOUS
<1>1. AutomationTypeOK
  BY Constructors DEF AutomationInit, AutomationTypeOK, Stages, Slots, Lanes
<1>2. Control
  BY DEF AutomationInit, Control
<1>3. /\ \A p \in Positions : doc[p] = Nothing /\ working[p] = Nothing
  BY Constructors DEF AutomationInit
<1>4. Plain(doc) /\ Plain(working) /\ PlanIsOfOneRun /\ OffMeansNoPlan
  BY <1>3 DEF Plain, PlanIsOfOneRun, IsPlan, OffMeansNoPlan, IsAutomationOwned, Nothing
<1>5. RunInv
  BY DEF AutomationInit, RunInv, InRun
<1> QED
  BY <1>1, <1>2, <1>4, <1>5 DEF AutomationInv

\* A step that leaves both documents alone, and only moves between phases 1
\* and 2 while in the loop, keeps what is said of them.
LEMMA DocumentsAlone ==
  ASSUME AutomationInv, AutomationTypeOK', Control',
         doc' = doc, working' = working, run' = run, completed' = completed,
         config' = config, InRun' => InRun,
         phase' = phase \/ (phase = 1 /\ phase' = 2)
  PROVE  AutomationInv'
<1>1. Plain(doc)' /\ Plain(working)' /\ PlanIsOfOneRun' /\ OffMeansNoPlan'
  BY DEF AutomationInv, Plain, PlanIsOfOneRun, IsPlan, OffMeansNoPlan
<1>2. ASSUME InRun' PROVE Carried' /\ WorkingPlan'
  <2>1. Carried /\ WorkingPlan
    BY <1>2 DEF AutomationInv, RunInv
  <2>2. Carried'
    BY <2>1 DEF Carried
  <2>3. WorkingPlan'
    BY <2>1 DEF WorkingPlan
  <2> QED BY <2>2, <2>3
<1> QED
  BY <1>1, <1>2 DEF AutomationInv, RunInv

\* A step that ends a run, or is none of a run's, and leaves a sound document.
LEMMA RunOver ==
  ASSUME AutomationTypeOK', Control', ~InRun', working' = Empty \/ working' = working, Plain(working),
         Plain(doc'), IsPlan(doc', completed'), config' = "off" => NoPlan(doc')
  PROVE  AutomationInv'
<1>1. Plain(working')
  BY Constructors DEF Plain, Nothing
<1>2. PlanIsOfOneRun' /\ OffMeansNoPlan'
  BY DEF PlanIsOfOneRun, IsPlan, OffMeansNoPlan, NoPlan
<1> QED
  BY <1>1, <1>2 DEF AutomationInv, RunInv, Plain

\* A document with positions dropped is as sound as it was.
LEMMA StillSound ==
  ASSUME AutomationInv, NEW d, Within(d, doc)
  PROVE  Plain(d) /\ IsPlan(d, completed) /\ (config = "off" => NoPlan(d))
<1>1. completed \in Nat
  BY DEF AutomationInv, AutomationTypeOK
<1>2. config = "off" => NoPlan(doc)
  BY DEF AutomationInv, OffMeansNoPlan, NoPlan
<1> QED
  BY <1>1, <1>2, WithinKeeps DEF AutomationInv, PlanIsOfOneRun

\* What a step may do to the user's actions and to the plan.
UserKept ==
  \A p \in Positions :
    /\ IsUserOwned(doc'[p]) => doc[p] = doc'[p]
    /\ IsUserOwned(doc[p]) /\ ~IsUserOwned(doc'[p]) =>
         /\ doc'[p] = Nothing
         /\ p[1] < now \/ (p[2] # Inverter /\ p[2] \notin live)

PlanReconciled ==
  (\E p \in Positions : IsAutomationOwned(doc'[p]) /\ doc'[p] # doc[p]) => reconcile' = "asked"

\* The merge stores exactly this run's plan around the user's actions, or
\* leaves the document as it is.
LEMMA MergedKeeps ==
  ASSUME AutomationInv, stage \in {"persisting", "saving"}, NEW registry, Merged(doc, registry)
  PROVE  /\ doc' \in Documents /\ Plain(doc') /\ IsPlan(doc', completed')
         /\ completed' \in 0..run /\ reconcile' \in {"asked", "none"}
         /\ UserKept /\ PlanReconciled
<1>1. /\ doc \in Documents /\ working \in Documents /\ run \in Nat /\ completed \in 0..run
      /\ reconcile \in {"asked", "none"}
  BY DEF AutomationInv, AutomationTypeOK
<1>2. /\ Plain(doc) /\ Plain(working) /\ Carried /\ WorkingPlan /\ phase = 3
      /\ IsPlan(doc, completed)
  BY DEF AutomationInv, RunInv, InRun, Control, PlanIsOfOneRun
<1>3. CASE doc' = doc /\ UNCHANGED <<reconcile, completed>>
  <2>1. UserKept /\ PlanReconciled
    BY <1>3 DEF UserKept, PlanReconciled
  <2> QED BY <1>1, <1>2, <1>3, <2>1
<1>4. CASE /\ StrictlyValid(working, registry)
           /\ doc' = Keep(Merge(doc, working), Accepted(registry))
           /\ reconcile' = Asked(doc', doc)
           /\ completed' = run
  <2> DEFINE M == Merge(doc, working)
  <2>0. /\ M \in Documents
        /\ \A p \in Positions :
             /\ IsUserOwned(doc[p]) => M[p] = doc[p]
             /\ ~IsUserOwned(doc[p]) /\ working[p] # Nothing =>
                  M[p] = [working[p] EXCEPT !.by = "automation"]
    BY <1>1, MergeFacts
  <2>1. M \in Documents
    BY <2>0
  <2>2. doc' \in Documents /\ Within(doc', M)
    BY <1>4, <2>1, NormalizedFacts
  <2>3. \A p \in Positions : M[p] # doc'[p] => p[2] # Inverter /\ p[2] \notin registry
    BY <1>4, <2>1, NormalizedFacts
  <2>4. ASSUME NEW p \in Positions, IsUserOwned(doc[p]) PROVE doc'[p] = doc[p]
    <3>0. working[p] = doc[p]
      BY <1>2, <2>4 DEF Carried
    <3>1. working[p] = doc[p] /\ M[p] = doc[p]
      BY <2>4, <2>0, <3>0
    <3>2. working[p] # Nothing
      BY <2>4, <3>1 DEF IsUserOwned, Nothing
    <3>3. p[2] = Inverter \/ p[2] \in registry
      BY <1>4, <3>2 DEF StrictlyValid
    <3> QED BY <2>3, <3>1, <3>3
  <2>5. ASSUME NEW p \in Positions, ~IsUserOwned(doc[p]), working[p] = Nothing PROVE M[p] = Nothing
    <3>1. M[p] = Strip(doc, Lanes)[p]
      BY <2>5 DEF Merge
    <3>2. p[2] \in Lanes
      BY DEF Positions
    <3>3. doc[p].by \in Owners
      BY <1>1 DEF Documents, Actions
    <3> QED BY <1>1, <1>2, <2>5, <3>1, <3>2, <3>3, StripFacts DEF IsUserOwned, IsAutomationOwned, Owners, Plain
  <2>6. ASSUME NEW p \in Positions, ~IsUserOwned(doc[p]), working[p] # Nothing
        PROVE  /\ M[p].by = "automation"
               /\ M[p].run # 0 => /\ M[p].run = run
                                  /\ M[p].phase = IF p[2] = Inverter THEN 2 ELSE 3
    <3>1. M[p] = [working[p] EXCEPT !.by = "automation"]
      BY <2>6, <2>0
    <3>2. working[p] \in Actions
      BY <1>1 DEF Documents
    <3>3. M[p].by = "automation" /\ M[p].run = working[p].run /\ M[p].phase = working[p].phase
      BY <3>1, <3>2 DEF Actions
    <3>4. CASE working[p].by = "automation"
      BY <1>2, <3>3, <3>4 DEF WorkingPlan, IsAutomationOwned
    <3>5. CASE working[p].by # "automation"
      <4>1. working[p] = UserAction
        BY <1>2, <2>6, <3>2, <3>5 DEF Plain, Actions, Owners
      <4> QED BY <3>3, <4>1 DEF UserAction
    <3> QED BY <3>4, <3>5
  <2> HIDE DEF M
  <2>7. \A p \in Positions : \/ IsUserOwned(doc[p]) /\ doc'[p] = doc[p]
                             \/ ~IsUserOwned(doc[p]) /\ doc'[p] = Nothing
                             \/ ~IsUserOwned(doc[p]) /\ doc'[p] = M[p] /\ working[p] # Nothing
    BY <2>2, <2>4, <2>5 DEF Within
  <2>8. Plain(doc')
    BY <1>2, <2>6, <2>7 DEF Plain, Nothing
  <2>9. IsPlan(doc', completed')
    BY <1>4, <2>6, <2>7 DEF IsPlan, IsAutomationOwned, IsUserOwned, Nothing
  <2>10. UserKept
    BY <2>6, <2>7 DEF UserKept, IsUserOwned, Nothing
  <2>11. PlanReconciled
    BY <1>4 DEF PlanReconciled, Asked
  <2>12. completed' \in 0..run /\ reconcile' \in {"asked", "none"}
    BY <1>1, <1>4 DEF Asked
  <2> QED BY <2>2, <2>8, <2>9, <2>10, <2>11, <2>12
<1> QED
  BY <1>3, <1>4 DEF Merged

\* What every step does: it keeps the invariant, the user's actions unless the
\* user edits them, and a plan it changes is reconciled.
StepGood == AutomationInv' /\ (edits' # edits \/ UserKept) /\ PlanReconciled

(* A step that leaves the document alone is a good one for both action properties. *)
LEMMA SameDocument ==
  ASSUME doc' = doc
  PROVE  UserKept /\ PlanReconciled
BY DEF UserKept, PlanReconciled

\* A step that only drops what may be dropped keeps the user's actions.
LEMMA DroppedGood ==
  ASSUME Within(doc', doc), Plain(doc),
         \A p \in Positions : doc'[p] # doc[p] =>
           p[1] < now \/ (p[2] # Inverter /\ p[2] \notin live) \/ ~IsUserOwned(doc[p])
  PROVE  UserKept /\ PlanReconciled
<1>1. UserKept
  BY DEF Within, UserKept, IsUserOwned, Nothing
<1>2. PlanReconciled
  BY DEF Within, PlanReconciled, IsAutomationOwned, Nothing
<1> QED BY <1>1, <1>2

\* The steps that leave the document and the working copy alone.
LEMMA QuietSteps ==
  ASSUME AutomationInv, \/ Gathered \/ EndPhase1 \/ EndLoop \/ Record
               \/ RefreshRegistry \/ Flip \/ SlotElapses \/ TakeReconcile \/ UNCHANGED automationVars
  PROVE  StepGood
<1> USE DEF world, place, records, counters
<1>1. /\ doc' = doc /\ working' = working /\ run' = run /\ completed' = completed
      /\ config' = config /\ at' = at
  BY DEF Gathered, EndPhase1, EndLoop, Record, RefreshRegistry, Flip, SlotElapses, TakeReconcile, automationVars
<1>2. /\ InRun' => InRun
      /\ phase' = phase \/ (phase = 1 /\ phase' = 2)
  BY DEF Gathered, EndPhase1, EndLoop, Record, RefreshRegistry, Flip, SlotElapses, TakeReconcile, automationVars, InRun
<1>3. AutomationTypeOK'
  <2>1. CASE Gathered       BY <2>1 DEF AutomationInv, AutomationTypeOK, Stages, Gathered
  <2>2. CASE EndPhase1      BY <2>2 DEF AutomationInv, AutomationTypeOK, EndPhase1
  <2>3. CASE EndLoop        BY <2>3 DEF AutomationInv, AutomationTypeOK, Stages, EndLoop
  <2>4. CASE Record         BY <2>4 DEF AutomationInv, AutomationTypeOK, Stages, Record
  <2>5. CASE RefreshRegistry  BY <2>5 DEF AutomationInv, AutomationTypeOK, RefreshRegistry
  <2>6. CASE Flip           BY <2>6 DEF AutomationInv, AutomationTypeOK, Flip
  <2>7. CASE SlotElapses           BY <2>7 DEF AutomationInv, AutomationTypeOK, SlotElapses, Slots
  <2>8. CASE TakeReconcile  BY <2>8 DEF AutomationInv, AutomationTypeOK, TakeReconcile
  <2>9. CASE UNCHANGED automationVars BY <2>9 DEF AutomationInv, AutomationTypeOK, automationVars
  <2> QED BY <2>1, <2>2, <2>3, <2>4, <2>5, <2>6, <2>7, <2>8, <2>9
<1>4. Control'
  <2>1. at \in Slots /\ now \in Slots
    BY DEF AutomationInv, AutomationTypeOK
  <2>2. at <= now'
    BY <1>1, <2>1 DEF AutomationInv, Control, Gathered, EndPhase1, EndLoop, Record, RefreshRegistry, Flip, SlotElapses, TakeReconcile, automationVars, Slots
  <2>3. config = "off" => stage' = "idle"
    BY DEF AutomationInv, Control, Gathered, EndPhase1, EndLoop, Record, RefreshRegistry, Flip, SlotElapses, TakeReconcile, automationVars
  <2>4. stage' \in {"placed", "persisting", "saving"} => phase' = 3
    BY DEF AutomationInv, Control, Gathered, EndPhase1, EndLoop, Record, RefreshRegistry, Flip, SlotElapses, TakeReconcile, automationVars
  <2> QED BY <1>1, <2>2, <2>3, <2>4 DEF Control
<1>5. AutomationInv'
  BY <1>1, <1>2, <1>3, <1>4, DocumentsAlone
<1> QED
  BY <1>1, <1>5, SameDocument DEF StepGood

\* The steps of the loop that place actions or clear lanes.
LEMMA LoopSteps ==
  ASSUME AutomationInv, PlaceAppliance \/ PlaceSystem \/ EndPhase2
  PROVE  StepGood
<1> USE DEF world, place, records, counters
<1>1. /\ doc' = doc /\ stage = "looping" /\ stage' = "looping" /\ at' = at /\ now' = now /\ config' = config
      /\ UNCHANGED <<live, known, run, reconcile, bands, explained, completed, edits, flips, restarts>>
  BY DEF PlaceAppliance, PlaceSystem, EndPhase2
<1>2. Carried /\ WorkingPlan /\ Plain(working) /\ working \in Documents /\ run \in Nat /\ Len(Members) \in Nat
  BY <1>1 DEF AutomationInv, RunInv, InRun, AutomationTypeOK
<1>3. /\ working' \in Documents /\ Plain(working')
      /\ Carried' /\ WorkingPlan'
      /\ phase' \in 1..3 /\ next' \in Nat \ {0}
  <2>1. CASE PlaceAppliance
    <3>1. PICK picked \in SUBSET (at..LastSlot) :
            working' = Write(working, Members[next], picked, Placement(run, phase))
      BY <2>1 DEF PlaceAppliance
    <3>2. /\ next \in 1..Len(Members) /\ phase \in {1, 3} /\ phase' = phase /\ next' = next + 1
      BY <1>2, <2>1 DEF PlaceAppliance, AutomationInv, AutomationTypeOK
    <3>3. Members[next] \in Appliances /\ Members[next] # Inverter /\ Members[next] \in MemberLanes
      BY <3>2 DEF MemberLanes
    <3> DEFINE a == Placement(run, phase)
    <3>4. a \in Actions /\ a.by = "automation" /\ a.run = run /\ a.phase = phase
      BY <1>2, <3>2, Constructors DEF Placement
    <3> HIDE DEF a
    <3>5. /\ working' \in Documents
          /\ \A p \in Positions : working'[p] =
               IF p[2] = Members[next] /\ p[1] \in picked /\ ~IsUserOwned(working[p]) THEN a ELSE working[p]
      BY <1>2, <3>1, <3>4, WriteFacts DEF a
    <3>6. Plain(working')
      BY <1>2, <3>4, <3>5 DEF Plain
    <3>7. Carried'
      BY <1>1, <1>2, <3>5 DEF Carried
    <3>8. WorkingPlan'
      BY <1>1, <1>2, <3>2, <3>3, <3>4, <3>5 DEF WorkingPlan
    <3> QED BY <3>2, <3>5, <3>6, <3>7, <3>8 DEF AutomationInv, AutomationTypeOK
  <2>2. CASE PlaceSystem
    <3>1. PICK picked \in SUBSET (at..LastSlot) :
            working' = Write(working, Inverter, picked, Placement(run, 2))
      BY <2>2 DEF PlaceSystem
    <3>2. phase = 2 /\ phase' = phase /\ next' = next + 1 /\ next \in Nat \ {0}
      BY <2>2 DEF PlaceSystem, AutomationInv, AutomationTypeOK
    <3> DEFINE a == Placement(run, 2)
    <3>3. a \in Actions /\ a.by = "automation" /\ a.run = run /\ a.phase = 2
      BY <1>2, Constructors DEF Placement
    <3> HIDE DEF a
    <3>4. /\ working' \in Documents
          /\ \A p \in Positions : working'[p] =
               IF p[2] = Inverter /\ p[1] \in picked /\ ~IsUserOwned(working[p]) THEN a ELSE working[p]
      BY <1>2, <3>1, <3>3, WriteFacts DEF a
    <3>5. Plain(working')
      BY <1>2, <3>3, <3>4 DEF Plain
    <3>6. Carried'
      BY <1>1, <1>2, <3>4 DEF Carried
    <3>7. WorkingPlan'
      BY <1>1, <1>2, <3>2, <3>3, <3>4 DEF WorkingPlan
    <3> QED BY <3>2, <3>4, <3>5, <3>6, <3>7
  <2>3. CASE EndPhase2
    <3>1. working' = Strip(working, MemberLanes) /\ phase' = 3 /\ next' = 1
      BY <2>3 DEF EndPhase2
    <3>2. /\ working' \in Documents
          /\ \A p \in Positions : working'[p] =
               IF IsAutomationOwned(working[p]) /\ p[2] \in MemberLanes THEN Nothing ELSE working[p]
      BY <1>2, <3>1, StripFacts
    <3>3. Plain(working')
      BY <1>2, <3>2 DEF Plain, Nothing
    <3>4. Carried'
      BY <1>1, <1>2, <3>2 DEF Carried, IsAutomationOwned, IsUserOwned
    <3>5. WorkingPlan'
      BY <1>1, <1>2, <3>1, <3>2 DEF WorkingPlan, IsAutomationOwned, Nothing
    <3> QED BY <3>1, <3>2, <3>3, <3>4, <3>5
  <2> QED BY <2>1, <2>2, <2>3
<1>4. AutomationTypeOK'
  BY <1>1, <1>3 DEF AutomationInv, AutomationTypeOK
<1>5. Control'
  BY <1>1 DEF AutomationInv, Control
<1>6. Plain(doc)' /\ Plain(working)' /\ PlanIsOfOneRun' /\ OffMeansNoPlan' /\ RunInv'
  BY <1>1, <1>3 DEF AutomationInv, Plain, PlanIsOfOneRun, IsPlan, OffMeansNoPlan, RunInv
<1> QED
  BY <1>1, <1>4, <1>5, <1>6, SameDocument DEF StepGood, AutomationInv

\* A reader and a run's first step store what they pruned at the present time.
LEMMA PrunedGood ==
  ASSUME AutomationInv, NEW time \in Slots, time <= now, doc' = Pruned(time)
  PROVE  /\ doc' \in Documents /\ Within(doc', doc)
         /\ Plain(doc') /\ IsPlan(doc', completed) /\ (config = "off" => NoPlan(doc'))
         /\ UserKept /\ PlanReconciled
<1>1. AutomationTypeOK /\ now \in Slots
  BY DEF AutomationInv, AutomationTypeOK
<1>2. doc' \in Documents /\ Within(doc', doc)
  BY <1>1, PrunedFacts
<1>3. \A p \in Positions : doc'[p] # doc[p] => p[1] < time \/ (p[2] # Inverter /\ p[2] \notin live)
  BY <1>1, PrunedFacts
<1>4. \A p \in Positions : p[1] < time => p[1] < now
  BY <1>1 DEF Positions, Slots
<1>5. UserKept /\ PlanReconciled
  BY <1>2, <1>3, <1>4, DroppedGood DEF AutomationInv
<1> QED
  BY <1>2, <1>5, StillSound

(* A run begins: the working copy is the pruned document, all plans stripped. *)
LEMMA BeginStep ==
  ASSUME AutomationInv, Begin
  PROVE  StepGood
<1>1. /\ now \in Slots /\ config = "on" /\ run \in Nat /\ completed \in 0..run
      /\ phase \in 1..3 /\ now <= now
  BY DEF AutomationInv, AutomationTypeOK, Begin, Slots
<1>2. /\ doc' = Pruned(now) /\ working' = Strip(doc', Lanes)
      /\ run' = run + 1 /\ at' = now /\ now' = now /\ stage' = "gathering"
      /\ config' = config /\ completed' = completed /\ phase' = phase
      /\ known' = live \cap Appliances
      /\ UNCHANGED <<live, next, bands, explained, reconcile, edits, flips, restarts>>
  BY DEF Begin, records, counters
<1>3. /\ doc' \in Documents /\ Within(doc', doc) /\ Plain(doc') /\ IsPlan(doc', completed)
      /\ UserKept /\ PlanReconciled
  BY <1>1, <1>2, PrunedGood
<1>4. /\ working' \in Documents /\ Within(working', doc') /\ NoPlan(working')
      /\ \A p \in Positions : IsUserOwned(doc'[p]) => working'[p] = doc'[p]
  BY <1>2, <1>3, StrippedFacts
<1>5. Plain(working')
  BY <1>3, <1>4, WithinKeeps
<1>6. AutomationTypeOK'
  BY <1>1, <1>2, <1>3, <1>4 DEF AutomationInv, AutomationTypeOK, Stages, Begin
<1>7. Control'
  BY <1>1, <1>2 DEF Control, AutomationInv
<1>8. Plain(doc)' /\ Plain(working)' /\ PlanIsOfOneRun' /\ OffMeansNoPlan'
  BY <1>1, <1>2, <1>3, <1>5 DEF Plain, PlanIsOfOneRun, IsPlan, OffMeansNoPlan
<1>9. RunInv'
  BY <1>4 DEF RunInv, Carried, WorkingPlan, NoPlan
<1> QED
  BY <1>3, <1>6, <1>7, <1>8, <1>9 DEF StepGood, AutomationInv

(* With automation off, a run strips the stored document itself. *)
LEMMA CleanupStep ==
  ASSUME AutomationInv, BeginCleanup
  PROVE  StepGood
<1>1. /\ AutomationTypeOK /\ now \in Slots /\ now <= now /\ config = "off" /\ stage = "idle" /\ run \in Nat
      /\ completed \in 0..run /\ completed \in Nat
  BY DEF AutomationInv, AutomationTypeOK, BeginCleanup, Slots
<1>2. /\ doc' = Strip(Pruned(now), Lanes) /\ run' = run + 1 /\ run' \in 0..MaxRuns
      /\ reconcile' \in {"asked", "none"} /\ known' = live \cap Appliances
      /\ UNCHANGED <<stage, at, working, phase, next, now, config, completed>>
      /\ UNCHANGED <<live, bands, explained, edits, flips, restarts>>
  BY <1>1 DEF BeginCleanup, place, records, counters, Asked, AutomationTypeOK
<1>3. /\ Pruned(now) \in Documents /\ Within(Pruned(now), doc)
      /\ \A p \in Positions : Pruned(now)[p] # doc[p] =>
           p[1] < now \/ (p[2] # Inverter /\ p[2] \notin live)
  BY <1>1, PrunedFacts
<1>4. /\ doc' \in Documents /\ Within(doc', Pruned(now)) /\ NoPlan(doc')
      /\ \A p \in Positions : IsUserOwned(Pruned(now)[p]) => doc'[p] = Pruned(now)[p]
  BY <1>2, <1>3, StrippedFacts
<1>5. Within(doc', doc)
  BY <1>3, <1>4 DEF Within
<1>6. Plain(doc') /\ IsPlan(doc', completed)
  BY <1>5, StillSound
<1>7. UserKept /\ PlanReconciled
  BY <1>3, <1>4, <1>5, DroppedGood DEF AutomationInv
<1>8. AutomationTypeOK'
  BY <1>1, <1>2, <1>4 DEF AutomationTypeOK
<1>9. Control' /\ ~InRun'
  BY <1>1, <1>2 DEF AutomationInv, Control, InRun
<1>10. AutomationInv'
  BY <1>2, <1>4, <1>6, <1>8, <1>9, RunOver DEF AutomationInv
<1> QED
  BY <1>7, <1>10 DEF StepGood

\* The steps that end a run with nothing stored.
LEMMA FailSteps ==
  ASSUME AutomationInv, NotGathered \/ LoopFails
  PROVE  StepGood
<1>1. /\ doc' = doc /\ working' = Empty /\ stage' = "idle" /\ phase' = 1 /\ next' = 1
      /\ UNCHANGED <<now, live, known, config, at, run, bands, explained, reconcile, completed>>
      /\ UNCHANGED <<edits, flips, restarts>>
  BY DEF NotGathered, LoopFails, EndRun, world, records, counters
<1>2. AutomationTypeOK'
  BY <1>1, Constructors DEF AutomationInv, AutomationTypeOK, Stages
<1>3. Control' /\ ~InRun'
  BY <1>1 DEF AutomationInv, Control, InRun
<1>4. Within(doc', doc)
  BY <1>1 DEF Within
<1>5. Plain(doc') /\ IsPlan(doc', completed) /\ (config = "off" => NoPlan(doc'))
  BY <1>4, StillSound
<1>6. AutomationInv'
  BY <1>1, <1>2, <1>3, <1>5, RunOver DEF AutomationInv
<1> QED
  BY <1>1, <1>6, SameDocument DEF StepGood

(* The two persisting steps that merge, with or without a prune saved before. *)
LEMMA PersistSteps ==
  ASSUME AutomationInv, Persist \/ PersistAfterSave
  PROVE  StepGood
<1>1. /\ stage \in {"persisting", "saving"}
      /\ \E registry : Merged(doc, registry)
      /\ known' \subseteq Appliances
      /\ working' = Empty /\ stage' = "idle" /\ phase' = 1 /\ next' = 1
      /\ UNCHANGED <<now, live, config, at, run, bands, explained, edits, flips, restarts>>
  BY DEF Persist, PersistAfterSave, Merged, EndRun, world, records, counters, AutomationInv, AutomationTypeOK
<1>2. /\ doc' \in Documents /\ Plain(doc') /\ IsPlan(doc', completed')
      /\ completed' \in 0..run /\ reconcile' \in {"asked", "none"}
      /\ UserKept /\ PlanReconciled
  BY <1>1, MergedKeeps
<1>3. config = "on"
  BY <1>1 DEF AutomationInv, AutomationTypeOK, Control
<1>4. AutomationTypeOK'
  BY <1>1, <1>2, Constructors DEF AutomationInv, AutomationTypeOK, Stages
<1>5. Control' /\ ~InRun'
  BY <1>1 DEF AutomationInv, Control, InRun
<1>6. AutomationInv'
  BY <1>1, <1>2, <1>3, <1>4, <1>5, RunOver DEF AutomationInv
<1> QED
  BY <1>2, <1>6 DEF StepGood

(* The prune that is saved before the merge; the run keeps the lock. *)
LEMMA PersistPrunesStep ==
  ASSUME AutomationInv, PersistPrunes
  PROVE  StepGood
<1>1. /\ at \in Slots /\ at <= now /\ stage = "persisting"
  BY DEF AutomationInv, AutomationTypeOK, Control, PersistPrunes
<1>2. /\ doc' = Pruned(at) /\ known' = live \cap Appliances /\ stage' = "saving"
      /\ UNCHANGED <<now, live, config, at, working, phase, next, run, bands, explained>>
      /\ UNCHANGED <<reconcile, completed, edits, flips, restarts>>
  BY DEF PersistPrunes, records, counters
<1>3. /\ doc' \in Documents /\ Within(doc', doc)
      /\ Plain(doc') /\ IsPlan(doc', completed) /\ (config = "off" => NoPlan(doc'))
      /\ UserKept /\ PlanReconciled
  BY <1>1, <1>2, PrunedGood
<1>4. Carried /\ WorkingPlan
  BY <1>1 DEF AutomationInv, RunInv, InRun
<1>5. Carried' /\ WorkingPlan'
  <2>1. Carried'
    BY <1>2, <1>3, <1>4 DEF Carried, Within, IsUserOwned, Nothing
  <2>2. WorkingPlan'
    BY <1>2, <1>4 DEF WorkingPlan
  <2> QED BY <2>1, <2>2
<1>6. AutomationTypeOK'
  BY <1>2, <1>3 DEF AutomationInv, AutomationTypeOK, Stages
<1>7. Control'
  BY <1>1, <1>2 DEF AutomationInv, Control
<1>8. Plain(doc)' /\ Plain(working)' /\ PlanIsOfOneRun' /\ OffMeansNoPlan' /\ RunInv'
  BY <1>2, <1>3, <1>5 DEF AutomationInv, Plain, PlanIsOfOneRun, IsPlan, OffMeansNoPlan, NoPlan, RunInv
<1> QED
  BY <1>3, <1>6, <1>7, <1>8 DEF StepGood, AutomationInv

(* A reader stores what it pruned. *)
LEMMA ReadStep ==
  ASSUME AutomationInv, Read
  PROVE  StepGood
<1>1. now \in Slots /\ now <= now /\ stage = "idle"
  BY DEF AutomationInv, AutomationTypeOK, Read, Slots
<1>2. /\ doc' = Pruned(now) /\ known' = live \cap Appliances
      /\ UNCHANGED <<now, live, config, stage, at, working, phase, next, run, bands, explained>>
      /\ UNCHANGED <<reconcile, completed, edits, flips, restarts>>
  BY DEF Read, place, records, counters
<1>3. /\ doc' \in Documents
      /\ Plain(doc') /\ IsPlan(doc', completed) /\ (config = "off" => NoPlan(doc'))
      /\ UserKept /\ PlanReconciled
  BY <1>1, <1>2, PrunedGood
<1>4. AutomationTypeOK'
  BY <1>2, <1>3 DEF AutomationInv, AutomationTypeOK
<1>5. Control' /\ ~InRun'
  BY <1>1, <1>2 DEF AutomationInv, Control, InRun
<1>6. AutomationInv'
  BY <1>2, <1>3, <1>4, <1>5, RunOver DEF AutomationInv
<1> QED
  BY <1>3, <1>6 DEF StepGood

(* A user edit patches one slot of the pruned document. *)
LEMMA EditStep ==
  ASSUME AutomationInv, UserEdits
  PROVE  StepGood
<1>1. AutomationTypeOK /\ now \in Slots /\ stage = "idle" /\ completed \in Nat /\ edits \in Nat
  BY DEF AutomationInv, AutomationTypeOK, UserEdits
<1>2. /\ known' = live \cap Appliances /\ edits' = edits + 1 /\ edits' \in 0..MaxEdits
      /\ \E slot \in now..LastSlot, lanes \in SUBSET (known' \cup (live \cap {Inverter})) :
           doc' = Patch(Pruned(now), slot, lanes)
      /\ reconcile' \in {"asked", "none"}
      /\ UNCHANGED <<now, live, config, stage, at, working, phase, next, run, bands, explained>>
      /\ UNCHANGED <<completed, flips, restarts>>
  BY <1>1 DEF UserEdits, place, records, Asked, AutomationTypeOK
<1>3. PICK slot, lanes : doc' = Patch(Pruned(now), slot, lanes)
  BY <1>2
<1>4. Pruned(now) \in Documents /\ Within(Pruned(now), doc)
  BY <1>1, PrunedFacts
<1>5. /\ doc' \in Documents
      /\ \A p \in Positions : \/ doc'[p] = UserAction \/ doc'[p] = Nothing
                              \/ doc'[p] = doc[p]
  BY <1>3, <1>4, PatchFacts DEF Within
<1>6. /\ Plain(doc) /\ IsPlan(doc, completed) /\ (config = "off" => NoPlan(doc))
  BY <1>4, WithinKeeps DEF AutomationInv, PlanIsOfOneRun, OffMeansNoPlan, NoPlan
<1>7. Plain(doc') /\ IsPlan(doc', completed) /\ (config = "off" => NoPlan(doc'))
  BY <1>5, <1>6 DEF Plain, IsPlan, NoPlan, IsAutomationOwned, Nothing, UserAction
<1>8. PlanReconciled
  BY <1>5 DEF PlanReconciled, IsAutomationOwned, Nothing, UserAction
<1>9. AutomationTypeOK'
  BY <1>1, <1>2, <1>5 DEF AutomationTypeOK
<1>10. Control' /\ ~InRun'
  BY <1>1, <1>2 DEF AutomationInv, Control, InRun
<1>11. AutomationInv'
  BY <1>2, <1>7, <1>9, <1>10, RunOver DEF AutomationInv
<1>12. edits' # edits
  BY <1>1, <1>2
<1> QED
  BY <1>8, <1>11, <1>12 DEF StepGood

(* A restart or config reload, with its normalization and its cleanup. *)
LEMMA RestartStep ==
  ASSUME AutomationInv, Restart
  PROVE  StepGood
<1> DEFINE N == Keep(doc, Accepted(known'))
           P == Keep(N, (now..LastSlot) \X Lanes)
<1>1. AutomationTypeOK /\ now \in Slots /\ doc \in Documents /\ completed \in Nat
  BY DEF AutomationInv, AutomationTypeOK
<1>2. /\ known' \in {live \cap Appliances, Appliances}
      /\ config' \in {"on", "off"}
      /\ doc' = IF config' = "off" THEN Strip(P, Lanes) ELSE N
      /\ working' = Empty /\ stage' = "idle" /\ phase' = 1 /\ next' = 1 /\ at' = now
      /\ explained' = 0 /\ reconcile' = "asked" /\ restarts' \in 0..MaxRestarts
      /\ UNCHANGED <<now, live, run, bands, completed, edits, flips>>
  BY <1>1 DEF Restart, EndRun, AutomationTypeOK
<1>3. /\ N \in Documents /\ Within(N, doc)
      /\ \A p \in Positions : N[p] # doc[p] => p[2] # Inverter /\ p[2] \notin known'
  BY <1>1, NormalizedFacts
<1> HIDE DEF N
<1>4. /\ P \in Documents
      /\ \A p \in Positions : P[p] = IF p \in (now..LastSlot) \X Lanes THEN N[p] ELSE Nothing
  BY <1>3, KeepFacts
<1> HIDE DEF P
<1>5. \A p \in Positions : p \notin (now..LastSlot) \X Lanes => p[1] < now
  BY <1>1 DEF Positions, Slots
<1>6. Within(P, doc) /\ \A p \in Positions : P[p] # N[p] => p[1] < now
  BY <1>3, <1>4, <1>5 DEF Within
<1>7. /\ Strip(P, Lanes) \in Documents /\ Within(Strip(P, Lanes), P) /\ NoPlan(Strip(P, Lanes))
      /\ \A p \in Positions : IsUserOwned(P[p]) => Strip(P, Lanes)[p] = P[p]
  BY <1>4, StrippedFacts
<1>8. doc' \in Documents /\ Within(doc', doc)
  BY <1>2, <1>3, <1>6, <1>7 DEF Within
<1>9. Plain(doc') /\ IsPlan(doc', completed) /\ (config' = "off" => NoPlan(doc'))
  BY <1>2, <1>7, <1>8, StillSound
<1>10. ASSUME NEW p \in Positions, doc'[p] # doc[p]
       PROVE  p[1] < now \/ (p[2] # Inverter /\ p[2] \notin live) \/ ~IsUserOwned(doc[p])
  <2>1. p[2] \in Appliances \cup {Inverter}
    BY DEF Positions, Lanes
  <2>2. CASE N[p] # doc[p]
    BY <1>2, <1>3, <2>1, <2>2
  <2>3. CASE N[p] = doc[p] /\ P[p] # N[p]
    BY <1>6, <2>3
  <2>4. CASE N[p] = doc[p] /\ P[p] = N[p]
    BY <1>2, <1>7, <1>10, <2>4
  <2> QED BY <2>2, <2>3, <2>4
<1>11. UserKept /\ PlanReconciled
  BY <1>8, <1>10, DroppedGood DEF AutomationInv
<1>12. AutomationTypeOK'
  BY <1>1, <1>2, <1>8, Constructors DEF AutomationTypeOK, Stages
<1>13. Control' /\ ~InRun'
  BY <1>1, <1>2 DEF Control, InRun, Slots
<1>14. AutomationInv'
  BY <1>2, <1>9, <1>12, <1>13, RunOver DEF AutomationInv
<1> QED
  BY <1>11, <1>14 DEF StepGood

(* Every step keeps the invariant and is a good one for the action properties. *)
LEMMA AutomationGoesOn == AutomationInv /\ [AutomationNext]_automationVars => StepGood
BY QuietSteps, LoopSteps, BeginStep, CleanupStep, FailSteps, PersistSteps, PersistPrunesStep,
   ReadStep, EditStep, RestartStep DEF AutomationNext, Run, Others

----------------------------------------------------------------------------
(* The results. *)

(* The inductive invariant holds in every reachable state. *)
THEOREM AutomationHolds == AutomationSpec => []AutomationInv
<1>1. AutomationInv /\ [AutomationNext]_automationVars => AutomationInv'
  BY AutomationGoesOn DEF StepGood
<1> QED BY AutomationStarts, <1>1, PTL DEF AutomationSpec

(* The documents, the places of a run and the records stay within their types. *)
THEOREM AutomationTypeCorrect == AutomationSpec => []AutomationTypeOK
BY AutomationHolds, PTL DEF AutomationInv

(* Whatever fails, restarts or is lost between, the plan in the document is *)
(* wholly of the newest completed run, and of its final phases.             *)
THEOREM PlanOfOneRun == AutomationSpec => []PlanIsOfOneRun
BY AutomationHolds, PTL DEF AutomationInv

(* While automation is off, nothing of a plan is left in the document. *)
THEOREM NoPlanWhenOff == AutomationSpec => []OffMeansNoPlan
BY AutomationHolds, PTL DEF AutomationInv

(* A run never reaches the merge with a user's action changed. *)
THEOREM NoConflict == AutomationSpec => []MergeNeverConflicts
<1>1. AutomationInv => MergeNeverConflicts
  BY DEF AutomationInv, RunInv, InRun, Carried, MergeNeverConflicts, Conflict
<1> QED BY <1>1, AutomationHolds, PTL

(* No run, reader or restart adds, changes or drops an action of the user's *)
(* that is neither over nor refused by its appliance.                       *)
THEOREM UserSurvives == AutomationSpec => UserActionsSurvive
<1>1. AutomationInv /\ [AutomationNext]_automationVars => [edits' # edits \/ UserKept]_automationVars
  BY AutomationGoesOn DEF StepGood
<1>2. AutomationInv /\ [AutomationNext]_automationVars =>
        [\/ edits' # edits
         \/ \A p \in Positions :
              /\ IsUserOwned(doc'[p]) => doc[p] = doc'[p]
              /\ IsUserOwned(doc[p]) /\ ~IsUserOwned(doc'[p]) =>
                   /\ doc'[p] = Nothing
                   /\ p[1] < now \/ (p[2] # Inverter /\ p[2] \notin live)]_automationVars
  BY <1>1 DEF UserKept
<1> QED BY <1>2, AutomationHolds, PTL DEF AutomationSpec, UserActionsSurvive

(* A step that puts a plan into the document leaves a reconcile asked for. *)
THEOREM PlanChangesReconciled == AutomationSpec => ChangesAreReconciled
<1>1. AutomationInv /\ [AutomationNext]_automationVars =>
        [(\E p \in Positions : IsAutomationOwned(doc'[p]) /\ doc'[p] # doc[p]) => reconcile' = "asked"]_automationVars
  BY AutomationGoesOn DEF StepGood, PlanReconciled
<1> QED BY <1>1, AutomationHolds, PTL DEF AutomationSpec, ChangesAreReconciled
----------------------------------------------------------------------------
(* The charging ledger: who is to read what the power did last.              *)

\* The power's last change was at m.
LastChange(m) == m \in DOMAIN power /\ \A t \in DOMAIN power : t <= m

\* The tasks at the lock, and what each is to read up to.
QueueStands ==
  /\ queue \in Seq(LedgerTasks)
  /\ \A i, j \in 1..Len(queue) : queue[i] = queue[j] => i = j
  /\ \A p \in LedgerTasks : (\E i \in 1..Len(queue) : queue[i] = p) <=> doing[p] \notin {"idle", "breathing"}
  /\ \A i, j \in 1..Len(queue) :
       i < j /\ doing[queue[i]] = "reading" /\ doing[queue[j]] = "reading" => asOf[queue[i]] <= asOf[queue[j]]

\* A change that no read has seen is one a task is still to read.
ChangeIsToBeRead ==
  missed = "no" => \A m \in DOMAIN power : LastChange(m) =>
    \/ m <= ledger.cursor
    \/ changeAgain = TRUE
    \/ \E p \in LedgerTasks : doing[p] = "reading" /\ m <= asOf[p]

\* What is kept of a charger, read as far as a moment that has been.
Shaped(l) ==
  /\ l = [segments |-> l.segments, cursor |-> l.cursor, liveSince |-> l.liveSince, before |-> l.before,
          done |-> l.done]
  /\ l.cursor \in Int /\ l.cursor <= instant

LedgerInv ==
  /\ instant \in Nat /\ DOMAIN power \subseteq 0..instant /\ (\E m \in DOMAIN power : LastChange(m))
  /\ Shaped(ledger) /\ Shaped(stored)
  /\ doing \in [LedgerTasks -> {"idle", "reading", "settling", "breathing", "backfilling", "dating"}]
  /\ asOf \in [LedgerTasks -> Nat]
  /\ \A p \in LedgerTasks : doing[p] = "reading" => ledger.cursor <= asOf[p] /\ asOf[p] <= instant
  /\ changeAgain \in BOOLEAN /\ (changeAgain = TRUE => doing["change"] # "idle")
  /\ doing["change"] # "breathing"
  /\ QueueStands /\ ChangeIsToBeRead

LEMMA LatestIs ==
  ASSUME NEW m, LastChange(m), DOMAIN power \subseteq Nat
  PROVE  Max(DOMAIN power) = m
<1>1. \A x \in DOMAIN power : (\A y \in DOMAIN power : x >= y) => x = m
  BY DEF LastChange
<1>2. m \in DOMAIN power /\ \A y \in DOMAIN power : m >= y
  BY DEF LastChange
<1> QED
  BY <1>1, <1>2 DEF Max

LEMMA LatestExists ==
  ASSUME NEW S, S # {}, NEW n \in Nat, S \subseteq 0..n
  PROVE  \E m \in S : \A t \in S : t <= m
<1> DEFINE back == {k \in Nat : n - k \in S}
<1>1. back \in SUBSET Nat /\ back # {}
  <2>1. PICK t \in S : TRUE
    OBVIOUS
  <2>2. n - t \in Nat /\ n - (n - t) = t
    OBVIOUS
  <2> QED
    BY <2>2
<1>2. \E x \in back : \A y \in back : ~(<<y, x>> \in OpToRel(<, Nat))
  BY <1>1, WFMin, NatLessThanWellFounded
<1>3. PICK k \in back : \A other \in back : ~(other < k)
  BY <1>1, <1>2 DEF OpToRel
<1>4. n - k \in S
  OBVIOUS
<1>5. ASSUME NEW t \in S PROVE t <= n - k
  <2>1. n - t \in Nat /\ n - (n - t) = t
    OBVIOUS
  <2>2. n - t \in back
    BY <2>1
  <2>3. ~(n - t < k) /\ k \in Nat /\ t \in Int
    BY <1>3, <2>2
  <2> QED
    BY <2>1, <2>3
<1> QED
  BY <1>4, <1>5

LEMMA LedgerStarts == LedgerInit => LedgerInv
<1> SUFFICES ASSUME LedgerInit PROVE LedgerInv
  OBVIOUS
<1>1. SetUp \in Nat /\ instant = SetUp /\ DOMAIN power \subseteq 0..SetUp /\ DOMAIN power # {}
  BY LedgerAssumption, HistoriesAssumption DEF LedgerInit, SetUp
<1>2. \E m \in DOMAIN power : LastChange(m)
  BY <1>1, LatestExists DEF LastChange
<1>3. Shaped(ledger) /\ Shaped(stored) /\ ledger.cursor <= SetUp
  BY <1>1 DEF LedgerInit, NoLedger, Never, Shaped
<1>4. QueueStands
  BY DEF LedgerInit, QueueStands, LedgerTasks
<1>5. "tick" \in LedgerTasks /\ doing["tick"] = "reading" /\ asOf["tick"] = SetUp
      /\ "change" \in LedgerTasks /\ doing["change"] = "idle" /\ changeAgain = FALSE
      /\ asOf \in [LedgerTasks -> Nat] /\ \A p \in LedgerTasks : asOf[p] = SetUp
      /\ doing \in [LedgerTasks -> {"idle", "reading", "settling", "breathing", "backfilling", "dating"}]
  BY <1>1 DEF LedgerInit, LedgerTasks
<1>6. ChangeIsToBeRead
  BY <1>1, <1>5 DEF ChangeIsToBeRead
<1>7. instant \in Nat /\ DOMAIN power \subseteq 0..instant
  BY <1>1
<1>8. \A p \in LedgerTasks : doing[p] = "reading" => ledger.cursor <= asOf[p] /\ asOf[p] <= instant
  BY <1>1, <1>3, <1>5
<1>9. changeAgain \in BOOLEAN /\ (changeAgain = TRUE => doing["change"] # "idle") /\ doing["change"] # "breathing"
  BY <1>5
<1> QED
  BY <1>2, <1>3, <1>4, <1>5, <1>6, <1>7, <1>8, <1>9 DEF LedgerInv

(* A task goes to the end of the queue; if it is to read, with the newest time *)
(* of all.                                                                    *)
LEMMA BeginningQueues ==
  ASSUME LedgerInv, NEW p \in LedgerTasks, doing[p] \in {"idle", "breathing"},
         NEW w \in {"reading", "backfilling"}, doing' = [doing EXCEPT ![p] = w], queue' = Append(queue, p),
         asOf' = IF w = "reading" THEN [asOf EXCEPT ![p] = instant] ELSE asOf
  PROVE  /\ doing' \in [LedgerTasks -> {"idle", "reading", "settling", "breathing", "backfilling", "dating"}]
         /\ asOf' \in [LedgerTasks -> Nat]
         /\ doing'[p] = w /\ (w = "reading" => asOf'[p] = instant)
         /\ \A q \in LedgerTasks \ {p} : doing'[q] = doing[q] /\ asOf'[q] = asOf[q]
         /\ QueueStands'
<1>1. /\ doing' \in [LedgerTasks -> {"idle", "reading", "settling", "breathing", "backfilling", "dating"}]
      /\ asOf' \in [LedgerTasks -> Nat]
      /\ doing'[p] = w /\ (w = "reading" => asOf'[p] = instant)
      /\ \A q \in LedgerTasks \ {p} : doing'[q] = doing[q] /\ asOf'[q] = asOf[q]
  BY DEF LedgerInv
<1>2. queue \in Seq(LedgerTasks) /\ Len(queue) \in Nat /\ queue' = Append(queue, p)
  BY DEF LedgerInv, QueueStands
<1>3. /\ queue' \in Seq(LedgerTasks) /\ Len(queue') = Len(queue) + 1 /\ queue'[Len(queue) + 1] = p
      /\ \A i \in 1..Len(queue) : queue'[i] = queue[i] /\ queue[i] \in LedgerTasks
  BY <1>2
<1>4. \A i \in 1..Len(queue) : queue[i] # p
  BY DEF LedgerInv, QueueStands
<1>5. QueueStands'
  <2>1. \A i, j \in 1..Len(queue') : queue'[i] = queue'[j] => i = j
    BY <1>2, <1>3, <1>4 DEF LedgerInv, QueueStands
  <2>2. ASSUME NEW q \in LedgerTasks
        PROVE  (\E i \in 1..Len(queue') : queue'[i] = q) <=> doing'[q] \notin {"idle", "breathing"}
    <3>1. CASE q = p
      BY <1>1, <1>2, <1>3, <3>1
    <3>2. CASE q # p
      <4>1. (\E i \in 1..Len(queue') : queue'[i] = q) <=> (\E i \in 1..Len(queue) : queue[i] = q)
        BY <1>2, <1>3, <3>2
      <4> QED
        BY <1>1, <3>2, <4>1 DEF LedgerInv, QueueStands
    <3> QED
      BY <3>1, <3>2
  <2>3. ASSUME NEW i \in 1..Len(queue'), NEW j \in 1..Len(queue'), i < j,
               doing'[queue'[i]] = "reading", doing'[queue'[j]] = "reading"
        PROVE  asOf'[queue'[i]] <= asOf'[queue'[j]]
    <3>1. i \in 1..Len(queue) /\ queue'[i] = queue[i] /\ queue[i] # p /\ queue[i] \in LedgerTasks
      BY <1>2, <1>3, <1>4, <2>3
    <3>2. doing[queue[i]] = "reading" /\ asOf'[queue'[i]] = asOf[queue[i]] /\ asOf[queue[i]] <= instant
      BY <1>1, <2>3, <3>1 DEF LedgerInv
    <3>3. CASE j = Len(queue) + 1
      <4>1. queue'[j] = p /\ w = "reading"
        BY <1>1, <1>3, <2>3, <3>3
      <4>2. asOf'[queue'[j]] = instant
        BY <1>1, <4>1
      <4> QED
        BY <3>2, <4>2
    <3>4. CASE j # Len(queue) + 1
      <4>1. j \in 1..Len(queue) /\ queue'[j] = queue[j] /\ queue[j] # p /\ queue[j] \in LedgerTasks
        BY <1>2, <1>3, <1>4, <3>4
      <4>2. doing[queue[j]] = "reading" /\ asOf'[queue'[j]] = asOf[queue[j]]
        BY <1>1, <2>3, <4>1
      <4> QED
        BY <2>3, <3>1, <3>2, <4>1, <4>2 DEF LedgerInv, QueueStands
    <3> QED
      BY <3>3, <3>4
  <2> QED
    BY <1>3, <2>1, <2>2, <2>3 DEF QueueStands
<1> QED
  BY <1>1, <1>5

(* The queue as it was, and nobody in it reads what it did not.              *)
LEMMA TheSameQueue ==
  ASSUME LedgerInv, queue' = queue,
         \A q \in LedgerTasks : /\ doing'[q] \in {"idle", "breathing"} <=> doing[q] \in {"idle", "breathing"}
                                /\ doing'[q] = "reading" => doing[q] = "reading" /\ asOf'[q] = asOf[q]
  PROVE  QueueStands'
<1>1. queue \in Seq(LedgerTasks) /\ \A i \in 1..Len(queue) : queue[i] \in LedgerTasks
  BY DEF LedgerInv, QueueStands
<1>2. \A i, j \in 1..Len(queue) :
        i < j /\ doing'[queue[i]] = "reading" /\ doing'[queue[j]] = "reading" => asOf'[queue[i]] <= asOf'[queue[j]]
  BY <1>1 DEF LedgerInv, QueueStands
<1>3. \A q \in LedgerTasks : (\E i \in 1..Len(queue) : queue[i] = q) <=> doing'[q] \notin {"idle", "breathing"}
  BY DEF LedgerInv, QueueStands
<1> QED
  BY <1>1, <1>2, <1>3 DEF LedgerInv, QueueStands

(* What waits behind the task that has the lock.                             *)
LEMMA TheRestOfTheQueue ==
  ASSUME LedgerInv, NEW p \in LedgerTasks, HoldsLock(p)
  PROVE  LET rest == Tail(queue) IN
         /\ rest \in Seq(LedgerTasks) /\ Len(rest) \in Nat
         /\ \A i \in 1..Len(rest) : rest[i] \in LedgerTasks /\ rest[i] # p
         /\ \A i, j \in 1..Len(rest) : rest[i] = rest[j] => i = j
         /\ \A q \in LedgerTasks \ {p} :
              (\E i \in 1..Len(rest) : rest[i] = q) <=> doing[q] \notin {"idle", "breathing"}
         /\ \A i, j \in 1..Len(rest) :
              i < j /\ doing[rest[i]] = "reading" /\ doing[rest[j]] = "reading" => asOf[rest[i]] <= asOf[rest[j]]
         /\ \A i \in 1..Len(rest) : doing[rest[i]] = "reading" => asOf[rest[i]] <= instant
<1> DEFINE rest == Tail(queue)
<1>1. /\ doing \in [LedgerTasks -> {"idle", "reading", "settling", "breathing", "backfilling", "dating"}]
      /\ asOf \in [LedgerTasks -> Nat] /\ instant \in Nat /\ SetUp \in Nat
      /\ QueueStands /\ queue \in Seq(LedgerTasks) /\ queue # <<>> /\ Len(queue) \in Nat
  <2>1. SetUp \in Nat
    BY LedgerAssumption DEF SetUp
  <2>2. QueueStands /\ queue # <<>>
    BY DEF LedgerInv, HoldsLock
  <2>3. queue \in Seq(LedgerTasks) /\ Len(queue) \in Nat
    BY <2>2 DEF QueueStands
  <2> QED
    BY <2>1, <2>2, <2>3 DEF LedgerInv
<1>2. /\ rest \in Seq(LedgerTasks) /\ Len(rest) = Len(queue) - 1 /\ Len(queue) >= 1 /\ queue[1] = p
      /\ \A i \in 1..Len(rest) : rest[i] = queue[i + 1] /\ rest[i] \in LedgerTasks /\ i + 1 \in 1..Len(queue)
  BY <1>1 DEF HoldsLock
<1>3. \A i \in 1..Len(rest) : rest[i] # p
  <2>1. SUFFICES ASSUME NEW i \in 1..Len(rest), rest[i] = p PROVE FALSE
    OBVIOUS
  <2>2. queue[i + 1] = queue[1] /\ i + 1 \in 1..Len(queue) /\ 1 \in 1..Len(queue) /\ i + 1 # 1
    BY <1>1, <1>2, <2>1
  <2> QED
    BY <1>1, <2>2 DEF QueueStands
<1>4. \A i, j \in 1..Len(rest) : rest[i] = rest[j] => i = j
  <2>1. SUFFICES ASSUME NEW i \in 1..Len(rest), NEW j \in 1..Len(rest), rest[i] = rest[j] PROVE i = j
    OBVIOUS
  <2>2. i + 1 = j + 1
    BY <1>1, <1>2, <2>1 DEF QueueStands
  <2> QED
    BY <2>2
<1>5. ASSUME NEW q \in LedgerTasks, q # p
      PROVE  (\E i \in 1..Len(rest) : rest[i] = q) <=> (\E i \in 1..Len(queue) : queue[i] = q)
  <2>1. ASSUME NEW i \in 1..Len(queue), queue[i] = q PROVE \E j \in 1..Len(rest) : rest[j] = q
    <3>1. i # 1 /\ i - 1 \in 1..Len(rest) /\ (i - 1) + 1 = i
      BY <1>1, <1>2, <1>5, <2>1
    <3> QED
      BY <1>2, <2>1, <3>1
  <2> QED
    BY <1>2, <2>1
<1>6. ASSUME NEW i \in 1..Len(rest), NEW j \in 1..Len(rest), i < j,
             doing[rest[i]] = "reading", doing[rest[j]] = "reading"
      PROVE  asOf[rest[i]] <= asOf[rest[j]]
  <2>1. i + 1 \in 1..Len(queue) /\ j + 1 \in 1..Len(queue) /\ i + 1 < j + 1
        /\ queue[i + 1] = rest[i] /\ queue[j + 1] = rest[j]
    BY <1>2, <1>6
  <2> QED
    BY <1>1, <1>6, <2>1 DEF QueueStands
<1>7. \A i \in 1..Len(rest) : doing[rest[i]] = "reading" => asOf[rest[i]] <= instant
  BY <1>2 DEF LedgerInv
<1>8. \A q \in LedgerTasks \ {p} :
        (\E i \in 1..Len(rest) : rest[i] = q) <=> doing[q] \notin {"idle", "breathing"}
  <2>1. SUFFICES ASSUME NEW q \in LedgerTasks, q # p
                 PROVE  (\E i \in 1..Len(rest) : rest[i] = q) <=> doing[q] \notin {"idle", "breathing"}
    OBVIOUS
  <2>2. (\E i \in 1..Len(queue) : queue[i] = q) <=> doing[q] \notin {"idle", "breathing"}
    BY <1>1 DEF QueueStands
  <2> HIDE DEF rest
  <2> QED
    BY <1>5, <2>1, <2>2
<1>9. Len(rest) \in Nat
  BY <1>2
<1>10. \A i, j \in 1..Len(rest) :
         i < j /\ doing[rest[i]] = "reading" /\ doing[rest[j]] = "reading" => asOf[rest[i]] <= asOf[rest[j]]
  <2> HIDE DEF rest
  <2> QED
    BY <1>6
<1> HIDE DEF rest
<1>11. /\ rest \in Seq(LedgerTasks) /\ Len(rest) \in Nat
       /\ \A i \in 1..Len(rest) : rest[i] \in LedgerTasks /\ rest[i] # p
  BY <1>2, <1>3, <1>9
<1> QED
  BY <1>4, <1>7, <1>8, <1>10, <1>11 DEF rest

(* A task leaves the queue with nothing to read.                             *)
LEMMA LeavingQueues ==
  ASSUME LedgerInv, NEW p \in LedgerTasks, HoldsLock(p), NEW w \in {"idle", "breathing"},
         doing' = [doing EXCEPT ![p] = w], queue' = Tail(queue), asOf' = [asOf EXCEPT ![p] = SetUp]
  PROVE  /\ doing' \in [LedgerTasks -> {"idle", "reading", "settling", "breathing", "backfilling", "dating"}]
         /\ asOf' \in [LedgerTasks -> Nat]
         /\ \A q \in LedgerTasks \ {p} : doing'[q] = doing[q] /\ asOf'[q] = asOf[q]
         /\ doing'[p] = w
         /\ QueueStands'
<1> DEFINE rest == Tail(queue)
<1>1. SetUp \in Nat
  BY LedgerAssumption DEF SetUp
<1>2. /\ doing' \in [LedgerTasks -> {"idle", "reading", "settling", "breathing", "backfilling", "dating"}]
      /\ asOf' \in [LedgerTasks -> Nat]
      /\ \A q \in LedgerTasks \ {p} : doing'[q] = doing[q] /\ asOf'[q] = asOf[q]
      /\ doing'[p] = w
  BY <1>1 DEF LedgerInv
<1>3. /\ rest \in Seq(LedgerTasks) /\ Len(rest) \in Nat
      /\ \A i \in 1..Len(rest) : rest[i] \in LedgerTasks /\ rest[i] # p
      /\ \A i, j \in 1..Len(rest) : rest[i] = rest[j] => i = j
      /\ \A q \in LedgerTasks \ {p} :
           (\E i \in 1..Len(rest) : rest[i] = q) <=> doing[q] \notin {"idle", "breathing"}
      /\ \A i, j \in 1..Len(rest) :
           i < j /\ doing[rest[i]] = "reading" /\ doing[rest[j]] = "reading" => asOf[rest[i]] <= asOf[rest[j]]
  BY TheRestOfTheQueue
<1> HIDE DEF rest
<1>4. queue' = rest
  BY DEF rest
<1>5. ASSUME NEW q \in LedgerTasks
      PROVE  (\E i \in 1..Len(queue') : queue'[i] = q) <=> doing'[q] \notin {"idle", "breathing"}
  <2>1. CASE q = p
    BY <1>2, <1>3, <1>4, <2>1
  <2>2. CASE q # p
    <3>1. (\E i \in 1..Len(rest) : rest[i] = q) <=> doing[q] \notin {"idle", "breathing"}
      BY <1>3, <2>2
    <3> QED
      BY <1>2, <1>4, <2>2, <3>1
  <2> QED
    BY <2>1, <2>2
<1>6. ASSUME NEW i \in 1..Len(queue'), NEW j \in 1..Len(queue'), i < j,
             doing'[queue'[i]] = "reading", doing'[queue'[j]] = "reading"
      PROVE  asOf'[queue'[i]] <= asOf'[queue'[j]]
  <2>1. i \in 1..Len(rest) /\ j \in 1..Len(rest) /\ rest[i] \in LedgerTasks \ {p} /\ rest[j] \in LedgerTasks \ {p}
        /\ queue'[i] = rest[i] /\ queue'[j] = rest[j]
    BY <1>3, <1>4, <1>6
  <2>2. doing[rest[i]] = "reading" /\ doing[rest[j]] = "reading"
    BY <1>2, <1>6, <2>1
  <2>3. asOf[rest[i]] <= asOf[rest[j]]
    BY <1>3, <1>6, <2>1, <2>2
  <2> QED
    BY <1>2, <2>1, <2>3
<1>7. QueueStands'
  <2>1. queue' \in Seq(LedgerTasks) /\ \A i, j \in 1..Len(queue') : queue'[i] = queue'[j] => i = j
    BY <1>3, <1>4
  <2> QED
    BY <1>5, <1>6, <2>1 DEF QueueStands
<1> QED
  BY <1>2, <1>7

(* The task that has the lock leaves it, to the end of the queue or for good. *)
LEMMA LettingGoQueues ==
  ASSUME LedgerInv, NEW p \in LedgerTasks, HoldsLock(p), LetsGo(p)
  PROVE  /\ doing' \in [LedgerTasks -> {"idle", "reading", "settling", "breathing", "backfilling", "dating"}]
         /\ asOf' \in [LedgerTasks -> Nat]
         /\ \A q \in LedgerTasks \ {p} : doing'[q] = doing[q] /\ asOf'[q] = asOf[q]
         /\ IF p = "change" /\ changeAgain THEN doing'[p] = "reading" /\ asOf'[p] = instant
            ELSE doing'[p] = IF p = "tick" THEN "breathing" ELSE "idle"
         /\ changeAgain' = (changeAgain /\ p # "change")
         /\ QueueStands'
<1> DEFINE rest == Tail(queue)
           again == p = "change" /\ changeAgain
<1>1. /\ doing \in [LedgerTasks -> {"idle", "reading", "settling", "breathing", "backfilling", "dating"}]
      /\ asOf \in [LedgerTasks -> Nat] /\ instant \in Nat
  BY DEF LedgerInv
<1>2. /\ rest \in Seq(LedgerTasks) /\ Len(rest) \in Nat
      /\ \A i \in 1..Len(rest) : rest[i] \in LedgerTasks /\ rest[i] # p
      /\ \A i, j \in 1..Len(rest) : rest[i] = rest[j] => i = j
      /\ \A q \in LedgerTasks \ {p} :
           (\E i \in 1..Len(rest) : rest[i] = q) <=> doing[q] \notin {"idle", "breathing"}
      /\ \A i, j \in 1..Len(rest) :
           i < j /\ doing[rest[i]] = "reading" /\ doing[rest[j]] = "reading" => asOf[rest[i]] <= asOf[rest[j]]
      /\ \A i \in 1..Len(rest) : doing[rest[i]] = "reading" => asOf[rest[i]] <= instant
  BY TheRestOfTheQueue
<1>3. changeAgain' = (changeAgain /\ p # "change")
  BY DEF LetsGo
<1>4. CASE again
  <2>1. /\ doing' = [doing EXCEPT ![p] = "reading"] /\ asOf' = [asOf EXCEPT ![p] = instant]
        /\ queue' = Append(rest, p)
    BY <1>4 DEF LetsGo
  <2> HIDE DEF rest
  <2>2. /\ doing' \in [LedgerTasks -> {"idle", "reading", "settling", "breathing", "backfilling", "dating"}]
        /\ asOf' \in [LedgerTasks -> Nat]
        /\ \A q \in LedgerTasks \ {p} : doing'[q] = doing[q] /\ asOf'[q] = asOf[q]
        /\ doing'[p] = "reading" /\ asOf'[p] = instant
    BY <1>1, <2>1
  <2>3. /\ queue' \in Seq(LedgerTasks) /\ Len(queue') = Len(rest) + 1 /\ queue'[Len(rest) + 1] = p
        /\ \A i \in 1..Len(rest) : queue'[i] = rest[i]
        /\ Len(rest) \in Nat
    BY <1>2, <2>1
  <2>4. \A i, j \in 1..Len(queue') : queue'[i] = queue'[j] => i = j
    BY <1>2, <2>3
  <2>5. ASSUME NEW q \in LedgerTasks
        PROVE  (\E i \in 1..Len(queue') : queue'[i] = q) <=> doing'[q] \notin {"idle", "breathing"}
    <3>1. CASE q = p
      BY <2>2, <2>3, <3>1
    <3>2. CASE q # p
      <4>1. (\E i \in 1..Len(queue') : queue'[i] = q) <=> (\E i \in 1..Len(rest) : rest[i] = q)
        BY <2>3, <3>2
      <4> QED
        BY <1>2, <2>2, <3>2, <4>1
    <3> QED
      BY <3>1, <3>2
  <2>6. ASSUME NEW i \in 1..Len(queue'), NEW j \in 1..Len(queue'), i < j,
               doing'[queue'[i]] = "reading", doing'[queue'[j]] = "reading"
        PROVE  asOf'[queue'[i]] <= asOf'[queue'[j]]
    <3>1. i \in 1..Len(rest) /\ queue'[i] = rest[i] /\ rest[i] # p /\ rest[i] \in LedgerTasks
      BY <1>2, <2>3, <2>6
    <3>2. doing[rest[i]] = "reading" /\ asOf'[queue'[i]] = asOf[rest[i]] /\ asOf[rest[i]] <= instant
      BY <1>2, <2>2, <2>6, <3>1
    <3>3. CASE j = Len(rest) + 1
      BY <2>2, <2>3, <3>2, <3>3
    <3>4. CASE j # Len(rest) + 1
      <4>1. j \in 1..Len(rest) /\ queue'[j] = rest[j] /\ rest[j] # p /\ rest[j] \in LedgerTasks
        BY <1>2, <2>3, <3>4
      <4> QED
        BY <1>2, <2>2, <2>6, <3>1, <3>2, <4>1
    <3> QED
      BY <3>3, <3>4
  <2>7. QueueStands'
    BY <2>3, <2>4, <2>5, <2>6 DEF QueueStands
  <2> QED
    BY <1>3, <1>4, <2>2, <2>7
<1>5. CASE ~again
  <2> DEFINE w == IF p = "tick" THEN "breathing" ELSE "idle"
  <2>1. doing' = [doing EXCEPT ![p] = w] /\ queue' = Tail(queue) /\ asOf' = [asOf EXCEPT ![p] = SetUp]
    BY <1>5 DEF LetsGo
  <2>2. w \in {"idle", "breathing"}
    OBVIOUS
  <2> HIDE DEF w
  <2>3. /\ doing' \in [LedgerTasks -> {"idle", "reading", "settling", "breathing", "backfilling", "dating"}]
        /\ asOf' \in [LedgerTasks -> Nat]
        /\ \A q \in LedgerTasks \ {p} : doing'[q] = doing[q] /\ asOf'[q] = asOf[q]
        /\ doing'[p] = w
        /\ QueueStands'
    BY <2>1, <2>2, LeavingQueues
  <2> QED
    BY <1>3, <1>5, <2>3 DEF w
<1> QED
  BY <1>4, <1>5

(* Nothing is asked of a change that a read has seen.                        *)
LEMMA NothingNewToRead ==
  ASSUME LedgerInv, UNCHANGED power, missed' = missed \/ missed' = "yes", ledger.cursor <= ledger'.cursor,
         ledger'.cursor \in Int, changeAgain' = changeAgain,
         \A q \in LedgerTasks : doing[q] = "reading" => doing'[q] = "reading" /\ asOf'[q] = asOf[q]
  PROVE  ChangeIsToBeRead'
<1> SUFFICES ASSUME missed' = "no", NEW m \in DOMAIN power, LastChange(m)'
             PROVE  \/ m <= ledger'.cursor
                    \/ changeAgain' = TRUE
                    \/ \E p \in LedgerTasks : doing'[p] = "reading" /\ m <= asOf'[p]
  BY DEF ChangeIsToBeRead
<1>1. LastChange(m) /\ missed = "no" /\ m \in Int /\ ledger.cursor \in Int
  BY DEF LastChange, LedgerInv, Shaped
<1>2. CASE m <= ledger.cursor
  BY <1>1, <1>2
<1>3. CASE changeAgain = TRUE
  BY <1>3
<1>4. CASE \E p \in LedgerTasks : doing[p] = "reading" /\ m <= asOf[p]
  BY <1>4
<1> QED
  BY <1>1, <1>2, <1>3, <1>4 DEF LedgerInv, ChangeIsToBeRead

LEMMA AReadFolds ==
  ASSUME LedgerInv, NEW p \in LedgerTasks, LiveRead(p)
  PROVE  LedgerInv'
<1>1. /\ HoldsLock(p) /\ doing[p] = "reading"
      /\ UNCHANGED <<instant, power, stored, queue, asOf, changeAgain>>
      /\ doing' = [doing EXCEPT ![p] = "settling"]
      /\ missed' = (IF Max(DOMAIN power) <= asOf[p] THEN "no" ELSE missed)
  BY DEF LiveRead
<1>2. /\ doing' \in [LedgerTasks -> {"idle", "reading", "settling", "breathing", "backfilling", "dating"}]
      /\ doing'[p] = "settling" /\ \A q \in LedgerTasks \ {p} : doing'[q] = doing[q]
  BY <1>1 DEF LedgerInv
<1>3. asOf[p] \in Nat /\ asOf[p] <= instant /\ ledger.cursor <= asOf[p] /\ instant \in Nat
  BY <1>1 DEF LedgerInv
<1>4. Shaped(Seeded(asOf[p]))
  BY DEF LedgerInv, Shaped, Seeded
<1>5. ledger'.cursor = asOf[p] /\ Shaped(ledger)'
  <2> DEFINE l == Seeded(asOf[p])
             runs == ChargingRuns(WithLive(ReadStates(ReadStart(l), asOf[p])), asOf[p])
             s == ByStart(Closed(FoldRuns(l.segments, runs, asOf[p], TRUE)))
  <2>1. ledger' = [l EXCEPT !.segments = s, !.cursor = asOf[p]]
    BY DEF LiveRead
  <2> HIDE DEF l, s
  <2>2. ledger' = [segments |-> s, cursor |-> asOf[p], liveSince |-> l.liveSince, before |-> l.before, done |-> l.done]
    BY <1>4, <2>1 DEF Shaped, l
  <2> QED
    BY <1>1, <1>3, <2>2 DEF Shaped
<1>6. queue[1] = p /\ 1 \in 1..Len(queue)
  BY <1>1 DEF HoldsLock, LedgerInv, QueueStands
<1>7. ASSUME NEW q \in LedgerTasks, doing'[q] = "reading" PROVE asOf[p] <= asOf'[q] /\ asOf'[q] <= instant
  <2>1. q # p /\ doing[q] = "reading" /\ asOf'[q] = asOf[q]
    BY <1>1, <1>2, <1>7
  <2>2. PICK j \in 1..Len(queue) : queue[j] = q
    BY <2>1 DEF LedgerInv, QueueStands
  <2>3. 1 < j
    BY <1>6, <2>1, <2>2
  <2> QED
    BY <1>1, <1>6, <2>1, <2>2, <2>3 DEF LedgerInv, QueueStands
<1>8. QueueStands'
  <2>1. \A q \in LedgerTasks : /\ doing'[q] \in {"idle", "breathing"} <=> doing[q] \in {"idle", "breathing"}
                               /\ doing'[q] = "reading" => doing[q] = "reading" /\ asOf'[q] = asOf[q]
    BY <1>1, <1>2
  <2> QED
    BY <1>1, <2>1, TheSameQueue
<1>9. ChangeIsToBeRead'
  <2> SUFFICES ASSUME missed' = "no", NEW m \in DOMAIN power, LastChange(m)'
               PROVE  \/ m <= ledger'.cursor
                      \/ changeAgain' = TRUE
                      \/ \E q \in LedgerTasks : doing'[q] = "reading" /\ m <= asOf'[q]
    BY <1>1 DEF ChangeIsToBeRead
  <2>1. LastChange(m) /\ m \in Int /\ DOMAIN power \subseteq Nat /\ ledger.cursor \in Int
    BY <1>1 DEF LastChange, LedgerInv, Shaped
  <2>2. Max(DOMAIN power) = m
    BY <2>1, LatestIs
  <2>3. CASE m <= asOf[p]
    BY <1>5, <2>3
  <2>4. CASE ~(m <= asOf[p])
    <3>1. missed = "no" /\ ~(m <= ledger.cursor)
      BY <1>1, <1>3, <2>1, <2>2, <2>4
    <3>2. changeAgain = TRUE \/ \E q \in LedgerTasks : doing[q] = "reading" /\ m <= asOf[q]
      BY <2>1, <3>1 DEF LedgerInv, ChangeIsToBeRead
    <3>3. \A q \in LedgerTasks : m <= asOf[q] => q # p
      BY <2>4
    <3> QED
      BY <1>1, <1>2, <3>2, <3>3
  <2> QED
    BY <2>3, <2>4
<1>10. (\E m \in DOMAIN power : LastChange(m))'
  BY <1>1 DEF LedgerInv, LastChange
<1> QED
  BY <1>1, <1>2, <1>5, <1>7, <1>8, <1>9, <1>10 DEF LedgerInv, Shaped

(* A task lets go of the lock, whatever it has made of the segments.         *)
LEMMA LettingGoKeeps ==
  ASSUME LedgerInv, NEW p \in LedgerTasks, HoldsLock(p), doing[p] # "reading" \/ missed' = "yes",
         missed' = missed \/ missed' = "yes", LetsGo(p), UNCHANGED <<instant, power, stored>>,
         Shaped(ledger'), ledger'.cursor = ledger.cursor
  PROVE  LedgerInv'
<1>1. /\ doing' \in [LedgerTasks -> {"idle", "reading", "settling", "breathing", "backfilling", "dating"}]
      /\ asOf' \in [LedgerTasks -> Nat]
      /\ \A q \in LedgerTasks \ {p} : doing'[q] = doing[q] /\ asOf'[q] = asOf[q]
      /\ IF p = "change" /\ changeAgain THEN doing'[p] = "reading" /\ asOf'[p] = instant
         ELSE doing'[p] = IF p = "tick" THEN "breathing" ELSE "idle"
      /\ changeAgain' = (changeAgain /\ p # "change")
      /\ QueueStands'
  BY LettingGoQueues
<1>2. Shaped(ledger)' /\ Shaped(stored)'
  BY DEF LedgerInv, Shaped
<1>3. (\E m \in DOMAIN power : LastChange(m))'
  BY DEF LedgerInv, LastChange
<1>4. ASSUME NEW q \in LedgerTasks, doing'[q] = "reading" PROVE ledger'.cursor <= asOf'[q] /\ asOf'[q] <= instant'
  BY <1>1, <1>4 DEF LedgerInv, Shaped
<1>5. changeAgain' \in BOOLEAN /\ (changeAgain' = TRUE => doing'["change"] # "idle") /\ doing'["change"] # "breathing"
      /\ "change" \in LedgerTasks
  BY <1>1 DEF LedgerInv, LedgerTasks
<1>6. ChangeIsToBeRead'
  <2> SUFFICES ASSUME missed' = "no", NEW m \in DOMAIN power, LastChange(m)'
               PROVE  \/ m <= ledger'.cursor
                      \/ changeAgain' = TRUE
                      \/ \E q \in LedgerTasks : doing'[q] = "reading" /\ m <= asOf'[q]
    BY DEF ChangeIsToBeRead
  <2>1. LastChange(m) /\ missed = "no" /\ m \in Nat /\ m <= instant /\ doing[p] # "reading"
    BY DEF LastChange, LedgerInv
  <2>2. CASE m <= ledger.cursor
    BY <2>2
  <2>3. CASE changeAgain = TRUE
    <3>1. CASE p = "change"
      BY <1>1, <2>1, <2>3, <3>1
    <3>2. CASE p # "change"
      BY <1>1, <2>3, <3>2
    <3> QED
      BY <3>1, <3>2
  <2>4. CASE \E q \in LedgerTasks : doing[q] = "reading" /\ m <= asOf[q]
    BY <1>1, <2>1, <2>4
  <2> QED
    BY <2>1, <2>2, <2>3, <2>4 DEF LedgerInv, ChangeIsToBeRead
<1> QED
  BY <1>1, <1>2, <1>3, <1>4, <1>5, <1>6 DEF LedgerInv

(* Setup reads once more, from what was kept.                                *)
LEMMA SettingUpKeeps ==
  ASSUME LedgerInv, NEW kept, Shaped(kept), SetUpAgain(kept), instant' \in Nat, instant <= instant',
         DOMAIN power' \subseteq 0..instant', DOMAIN power' # {}
  PROVE  LedgerInv'
<1>1. /\ ledger' = kept /\ stored' = kept /\ queue' = <<"tick">> /\ changeAgain' = FALSE /\ missed' = "yes"
      /\ doing' = [p \in LedgerTasks |-> IF p = "tick" THEN "reading" ELSE "idle"]
      /\ asOf' = [p \in LedgerTasks |-> IF p = "tick" THEN instant' ELSE SetUp]
  BY DEF SetUpAgain
<1>2. SetUp \in Nat /\ instant \in Nat
  BY LedgerAssumption DEF SetUp, LedgerInv
<1>3. Shaped(ledger)' /\ Shaped(stored)'
  BY <1>1, <1>2 DEF Shaped
<1>4. (\E m \in DOMAIN power : LastChange(m))'
  BY LatestExists DEF LastChange
<1>5. QueueStands'
  BY <1>1 DEF QueueStands, LedgerTasks
<1>6. /\ doing' \in [LedgerTasks -> {"idle", "reading", "settling", "breathing", "backfilling", "dating"}]
      /\ asOf' \in [LedgerTasks -> Nat]
      /\ \A p \in LedgerTasks : doing'[p] = "reading" => asOf'[p] = instant'
      /\ doing'["change"] = "idle"
  BY <1>1, <1>2 DEF LedgerTasks
<1>7. ledger'.cursor <= instant'
  BY <1>3 DEF Shaped
<1>8. ChangeIsToBeRead'
  BY <1>1 DEF ChangeIsToBeRead
<1>9. (\A p \in LedgerTasks : doing[p] = "reading" => ledger.cursor <= asOf[p] /\ asOf[p] <= instant)'
  BY <1>6, <1>7
<1>10. (/\ changeAgain \in BOOLEAN /\ (changeAgain = TRUE => doing["change"] # "idle")
        /\ doing["change"] # "breathing")'
  BY <1>1, <1>6
<1> QED
  BY <1>3, <1>4, <1>5, <1>6, <1>8, <1>9, <1>10 DEF LedgerInv

(* A task that was not at the lock waits for it.                             *)
LEMMA QueueingKeeps ==
  ASSUME LedgerInv, NEW p \in LedgerTasks, doing[p] \in {"idle", "breathing"},
         NEW w \in {"reading", "backfilling"}, doing' = [doing EXCEPT ![p] = w], queue' = Append(queue, p),
         asOf' = IF w = "reading" THEN [asOf EXCEPT ![p] = instant] ELSE asOf,
         UNCHANGED <<instant, ledger, stored, changeAgain>>, missed' = missed,
         DOMAIN power' \subseteq 0..instant, (\E m \in DOMAIN power : LastChange(m))', ChangeIsToBeRead'
  PROVE  LedgerInv'
<1>1. /\ doing' \in [LedgerTasks -> {"idle", "reading", "settling", "breathing", "backfilling", "dating"}]
      /\ asOf' \in [LedgerTasks -> Nat]
      /\ doing'[p] = w /\ (w = "reading" => asOf'[p] = instant)
      /\ \A q \in LedgerTasks \ {p} : doing'[q] = doing[q] /\ asOf'[q] = asOf[q]
      /\ QueueStands'
  BY BeginningQueues
<1>2. Shaped(ledger)' /\ Shaped(stored)' /\ instant' = instant /\ instant \in Nat
  BY DEF LedgerInv, Shaped
<1>3. (\A q \in LedgerTasks : doing[q] = "reading" => ledger.cursor <= asOf[q] /\ asOf[q] <= instant)'
  BY <1>1 DEF LedgerInv, Shaped
<1>4. (/\ changeAgain \in BOOLEAN /\ (changeAgain = TRUE => doing["change"] # "idle")
       /\ doing["change"] # "breathing")' /\ "change" \in LedgerTasks
  BY <1>1 DEF LedgerInv, LedgerTasks
<1> QED
  BY <1>1, <1>2, <1>3, <1>4 DEF LedgerInv

LEMMA CrossingKeeps ==
  ASSUME LedgerInv, PowerCrosses
  PROVE  LedgerInv'
<1>1. UNCHANGED <<instant, ledger, stored, missed>> /\ instant \notin DOMAIN power /\ Heard
  BY DEF PowerCrosses
<1>2. DOMAIN power' = {instant} \cup DOMAIN power
  <2>1. PICK is \in {"charging", "standby", "gap"} : power' = Became(is, instant)
    BY DEF PowerCrosses
  <2> QED
    BY <2>1 DEF Became
<1>3. instant \in Nat /\ DOMAIN power \subseteq 0..instant /\ Shaped(ledger) /\ Shaped(stored)
  BY DEF LedgerInv
<1>4. DOMAIN power' \subseteq 0..instant /\ LastChange(instant)'
      /\ \A m \in DOMAIN power' : LastChange(m)' => m = instant
  BY <1>1, <1>2, <1>3 DEF LastChange
<1>5. (\E m \in DOMAIN power : LastChange(m))' /\ "change" \in LedgerTasks
  <2>1. instant \in DOMAIN power'
    BY <1>2
  <2>2. \E m \in DOMAIN power' : LastChange(m)'
    BY <1>1, <1>4, <2>1 DEF LastChange
  <2> QED
    BY <2>2 DEF LedgerTasks
<1>6. CASE doing["change"] = "idle"
  <2>1. doing' = [doing EXCEPT !["change"] = "reading"] /\ asOf' = [asOf EXCEPT !["change"] = instant]
        /\ queue' = Append(queue, "change") /\ changeAgain' = changeAgain
    BY <1>1, <1>6 DEF Heard, Begins
  <2>2. doing'["change"] = "reading" /\ asOf'["change"] = instant
    BY <1>5, <2>1 DEF LedgerInv
  <2>3. ChangeIsToBeRead'
    <3>1. instant <= asOf'["change"]
      BY <1>3, <2>2
    <3> QED
      BY <1>4, <1>5, <2>2, <3>1 DEF ChangeIsToBeRead
  <2> QED
    BY <1>1, <1>4, <1>5, <1>6, <2>1, <2>3, QueueingKeeps
<1>7. CASE doing["change"] # "idle"
  <2>1. changeAgain' = TRUE /\ UNCHANGED <<doing, asOf, queue>>
    BY <1>1, <1>7 DEF Heard
  <2>2. ChangeIsToBeRead' /\ QueueStands'
    BY <2>1 DEF ChangeIsToBeRead, LedgerInv, QueueStands
  <2>3. Shaped(ledger)' /\ Shaped(stored)'
    BY <1>1, <1>3 DEF Shaped
  <2>4. (\A q \in LedgerTasks : doing[q] = "reading" => ledger.cursor <= asOf[q] /\ asOf[q] <= instant)'
    BY <1>1, <2>1 DEF LedgerInv
  <2> QED
    BY <1>1, <1>3, <1>4, <1>5, <1>7, <2>1, <2>2, <2>3, <2>4 DEF LedgerInv
<1> QED
  BY <1>6, <1>7

(* Of the older days, a task reads without moving the cursor.                *)
LEMMA OlderDaysKeep ==
  ASSUME LedgerInv, Backfill \/ NoOlderDay \/ BackfillDay \/ BackfillMeasured \/ BackfillFails
  PROVE  LedgerInv'
<1>1. "tick" \in LedgerTasks /\ Shaped(ledger) /\ Shaped(stored) /\ instant \in Nat
      /\ doing \in [LedgerTasks -> {"idle", "reading", "settling", "breathing", "backfilling", "dating"}]
      /\ asOf \in [LedgerTasks -> Nat]
  BY DEF LedgerTasks, LedgerInv
<1>2. CASE Backfill
  <2>1. /\ doing["tick"] = "breathing"
        /\ UNCHANGED <<instant, power, ledger, stored, asOf, changeAgain, missed>>
    BY <1>2 DEF Backfill
  <2>2. (\E m \in DOMAIN power : LastChange(m))'
    BY <2>1 DEF LedgerInv, LastChange
  <2>3. CASE doing' = [doing EXCEPT !["tick"] = "idle"] /\ UNCHANGED queue
    <3>1. /\ doing'["tick"] = "idle" /\ \A q \in LedgerTasks \ {"tick"} : doing'[q] = doing[q]
          /\ doing' \in [LedgerTasks -> {"idle", "reading", "settling", "breathing", "backfilling", "dating"}]
      BY <1>1, <2>3
    <3>2. \A q \in LedgerTasks : (doing'[q] \in {"idle", "breathing"} <=> doing[q] \in {"idle", "breathing"})
                                 /\ (doing'[q] = "reading" <=> doing[q] = "reading")
      BY <2>1, <3>1
    <3>3. QueueStands'
      BY <2>1, <2>3, <3>2, TheSameQueue
    <3>4. ChangeIsToBeRead'
      BY <1>1, <2>1, <3>2, NothingNewToRead DEF Shaped
    <3>5. (/\ changeAgain \in BOOLEAN /\ (changeAgain = TRUE => doing["change"] # "idle")
           /\ doing["change"] # "breathing")'
      BY <2>1, <3>1 DEF LedgerInv, LedgerTasks
    <3> QED
      BY <1>1, <2>1, <2>2, <3>1, <3>2, <3>3, <3>4, <3>5 DEF LedgerInv, Shaped
  <2>4. CASE doing' = [doing EXCEPT !["tick"] = "backfilling"] /\ queue' = Append(queue, "tick")
    <3>1. \A q \in LedgerTasks : doing[q] = "reading" => doing'[q] = "reading"
      BY <1>1, <2>1, <2>4
    <3>2. ChangeIsToBeRead'
      BY <1>1, <2>1, <3>1, NothingNewToRead DEF Shaped
    <3>3. DOMAIN power' \subseteq 0..instant
      BY <2>1 DEF LedgerInv
    <3> DEFINE w == "backfilling"
    <3>4. w \in {"reading", "backfilling"} /\ doing' = [doing EXCEPT !["tick"] = w]
          /\ asOf' = (IF w = "reading" THEN [asOf EXCEPT !["tick"] = instant] ELSE asOf)
      BY <2>1, <2>4
    <3> HIDE DEF w
    <3> QED
      BY <1>1, <2>1, <2>2, <2>4, <3>2, <3>3, <3>4, QueueingKeeps
  <2> QED
    BY <1>2, <2>3, <2>4 DEF Backfill
<1>3. CASE NoOlderDay
  <2>1. /\ HoldsLock("tick") /\ doing["tick"] = "backfilling" /\ LetsGo("tick")
        /\ ledger' = [ledger EXCEPT !.done = TRUE] /\ UNCHANGED <<instant, power, stored, missed>>
    BY <1>3 DEF NoOlderDay
  <2>2. Shaped(ledger') /\ ledger'.cursor = ledger.cursor
    BY <1>1, <2>1 DEF Shaped
  <2> QED
    BY <1>1, <2>1, <2>2, LettingGoKeeps
<1>4. CASE BackfillDay
  <2>1. /\ HoldsLock("tick") /\ doing["tick"] = "backfilling"
        /\ doing' = [doing EXCEPT !["tick"] = "dating"] /\ asOf' = [asOf EXCEPT !["tick"] = instant]
        /\ UNCHANGED <<instant, power, stored, queue, changeAgain, missed>>
        /\ \E s : ledger' = [ledger EXCEPT !.segments = s]
    BY <1>4 DEF BackfillDay
  <2>2. Shaped(ledger)' /\ Shaped(stored)' /\ ledger'.cursor = ledger.cursor
    BY <1>1, <2>1 DEF Shaped
  <2>3. /\ \A q \in LedgerTasks : /\ doing'[q] \in {"idle", "breathing"} <=> doing[q] \in {"idle", "breathing"}
                                  /\ doing'[q] = "reading" <=> doing[q] = "reading"
                                  /\ doing'[q] = "idle" <=> doing[q] = "idle"
                                  /\ doing'[q] = "breathing" <=> doing[q] = "breathing"
                                  /\ doing[q] = "reading" => asOf'[q] = asOf[q]
        /\ doing' \in [LedgerTasks -> {"idle", "reading", "settling", "breathing", "backfilling", "dating"}]
        /\ asOf' \in [LedgerTasks -> Nat]
    BY <1>1, <2>1
  <2>4. QueueStands'
    BY <2>1, <2>3, TheSameQueue
  <2>5. ChangeIsToBeRead'
    BY <1>1, <2>1, <2>2, <2>3, NothingNewToRead DEF Shaped
  <2>6. (\E m \in DOMAIN power : LastChange(m))'
    BY <2>1 DEF LedgerInv, LastChange
  <2>7. (/\ changeAgain \in BOOLEAN /\ (changeAgain = TRUE => doing["change"] # "idle")
         /\ doing["change"] # "breathing")'
    BY <2>1, <2>3 DEF LedgerInv, LedgerTasks
  <2> QED
    BY <1>1, <2>1, <2>2, <2>3, <2>4, <2>5, <2>6, <2>7 DEF LedgerInv
<1>5. CASE BackfillMeasured
  <2>1. /\ HoldsLock("tick") /\ doing["tick"] = "dating" /\ LetsGo("tick")
        /\ UNCHANGED <<instant, power, stored, missed>>
        /\ \E s, b : ledger' = [ledger EXCEPT !.segments = s, !.before = b]
    BY <1>5 DEF BackfillMeasured
  <2>2. Shaped(ledger') /\ ledger'.cursor = ledger.cursor
    BY <1>1, <2>1 DEF Shaped
  <2> QED
    BY <1>1, <2>1, <2>2, LettingGoKeeps
<1>6. CASE BackfillFails
  <2>1. /\ HoldsLock("tick") /\ doing["tick"] # "reading"
        /\ doing' = [doing EXCEPT !["tick"] = "idle"] /\ queue' = Tail(queue)
        /\ asOf' = [asOf EXCEPT !["tick"] = SetUp]
        /\ UNCHANGED <<instant, power, ledger, stored, changeAgain, missed>>
    BY <1>6 DEF BackfillFails
  <2> DEFINE w == "idle"
  <2>2. w \in {"idle", "breathing"} /\ doing' = [doing EXCEPT !["tick"] = w]
    BY <2>1
  <2> HIDE DEF w
  <2>3. /\ doing' \in [LedgerTasks -> {"idle", "reading", "settling", "breathing", "backfilling", "dating"}]
        /\ asOf' \in [LedgerTasks -> Nat]
        /\ \A q \in LedgerTasks \ {"tick"} : doing'[q] = doing[q] /\ asOf'[q] = asOf[q]
        /\ doing'["tick"] = w
        /\ QueueStands'
    BY <1>1, <2>1, <2>2, LeavingQueues
  <2>4. \A q \in LedgerTasks : /\ doing'[q] = "reading" <=> doing[q] = "reading"
                               /\ doing[q] = "reading" => asOf'[q] = asOf[q]
    BY <2>1, <2>3 DEF w
  <2>5. ChangeIsToBeRead'
    BY <1>1, <2>1, <2>4, NothingNewToRead DEF Shaped
  <2>6. (\E m \in DOMAIN power : LastChange(m))' /\ Shaped(ledger)' /\ Shaped(stored)'
    BY <1>1, <2>1 DEF LedgerInv, LastChange, Shaped
  <2>7. (/\ changeAgain \in BOOLEAN /\ (changeAgain = TRUE => doing["change"] # "idle")
         /\ doing["change"] # "breathing")'
    BY <2>1, <2>3 DEF LedgerInv, LedgerTasks
  <2> QED
    BY <1>1, <2>1, <2>3, <2>4, <2>5, <2>6, <2>7 DEF LedgerInv
<1> QED
  BY <1>2, <1>3, <1>4, <1>5, <1>6

LEMMA TasksKeep ==
  ASSUME LedgerInv, NEW p \in LedgerTasks,
         LiveReadFails(p) \/ MeterRead(p) \/ MeterReadFails(p) \/ Called(p)
  PROVE  LedgerInv'
<1>1. Shaped(ledger)
  BY DEF LedgerInv
<1>2. CASE LiveReadFails(p)
  <2>1. /\ HoldsLock(p) /\ LetsGo(p) /\ missed' = "yes" /\ UNCHANGED <<instant, power, stored>>
        /\ ledger' = Seeded(asOf[p])
    BY <1>2 DEF LiveReadFails
  <2>2. Shaped(ledger') /\ ledger'.cursor = ledger.cursor
    BY <1>1, <2>1 DEF Shaped, Seeded
  <2> QED
    BY <2>1, <2>2, LettingGoKeeps
<1>3. CASE MeterRead(p) \/ MeterReadFails(p)
  <2>1. /\ HoldsLock(p) /\ LetsGo(p) /\ missed' = missed /\ UNCHANGED <<instant, power, stored>>
        /\ doing[p] # "reading"
        /\ ledger' = ledger \/ \E s : ledger' = [ledger EXCEPT !.segments = s]
    BY <1>3 DEF MeterRead, MeterReadFails
  <2>2. Shaped(ledger') /\ ledger'.cursor = ledger.cursor
    BY <1>1, <2>1 DEF Shaped
  <2> QED
    BY <2>1, <2>2, LettingGoKeeps
<1>4. CASE Called(p)
  <2>1. /\ doing[p] = "idle" /\ UNCHANGED <<instant, power, ledger, stored, changeAgain, missed>>
        /\ doing' = [doing EXCEPT ![p] = "reading"] /\ asOf' = [asOf EXCEPT ![p] = instant]
        /\ queue' = Append(queue, p)
    BY <1>4 DEF Called, Begins
  <2>2. (\E m \in DOMAIN power : LastChange(m))' /\ DOMAIN power' \subseteq 0..instant
    BY <2>1 DEF LedgerInv, LastChange
  <2>3. \A q \in LedgerTasks : doing[q] = "reading" => doing'[q] = "reading" /\ asOf'[q] = asOf[q]
    BY <2>1 DEF LedgerInv
  <2>4. ChangeIsToBeRead'
    BY <1>1, <2>1, <2>3, NothingNewToRead DEF Shaped
  <2> QED
    BY <2>1, <2>2, <2>4, QueueingKeeps
<1> QED
  BY <1>2, <1>3, <1>4

(* The clock, the store and the charger's set-up.                            *)
LEMMA LedgerRests ==
  ASSUME LedgerInv, UNCHANGED <<power, ledger, queue, doing, asOf, changeAgain, missed>>,
         instant' \in Nat, instant <= instant', stored' = stored \/ stored' = ledger
  PROVE  LedgerInv'
<1>1. /\ Shaped(ledger)' /\ Shaped(stored)' /\ (\E m \in DOMAIN power : LastChange(m))'
      /\ (DOMAIN power \subseteq 0..instant)'
  BY DEF LedgerInv, Shaped, LastChange
<1>2. QueueStands'
  BY DEF LedgerInv, QueueStands
<1>3. ChangeIsToBeRead'
  BY DEF LedgerInv, ChangeIsToBeRead, LastChange
<1>4. (\A q \in LedgerTasks : doing[q] = "reading" => ledger.cursor <= asOf[q] /\ asOf[q] <= instant)'
  BY DEF LedgerInv
<1> QED
  BY <1>1, <1>2, <1>3, <1>4 DEF LedgerInv

LEMMA SetUpKeeps ==
  ASSUME LedgerInv, LedgerReloads \/ LedgerCrashes
  PROVE  LedgerInv'
<1>1. Shaped(ledger) /\ Shaped(stored) /\ instant \in Nat /\ DOMAIN power \subseteq 0..instant /\ DOMAIN power # {}
  BY DEF LedgerInv
<1>2. CASE LedgerReloads
  <2> DEFINE kept == IF unsaved THEN ledger ELSE stored
  <2>1. SetUpAgain(kept) /\ UNCHANGED <<instant, power>>
    BY <1>2 DEF LedgerReloads
  <2>2. Shaped(kept)
    BY <1>1
  <2> HIDE DEF kept
  <2> QED
    BY <1>1, <2>1, <2>2, SettingUpKeeps
<1>3. CASE LedgerCrashes
  <2>1. SetUpAgain(stored) /\ instant' \in {instant + 1, instant + MaxGap + 1}
        /\ \E is \in {"charging", "standby", "gap"} : power' = Became(is, instant')
    BY <1>3 DEF LedgerCrashes
  <2>2. DOMAIN power' = {instant'} \cup DOMAIN power
    BY <2>1 DEF Became
  <2>3. instant' \in Nat /\ instant <= instant'
    BY <1>1, <2>1, LedgerAssumption
  <2>4. DOMAIN power' \subseteq 0..instant' /\ DOMAIN power' # {}
    BY <1>1, <2>2, <2>3
  <2> QED
    BY <1>1, <2>1, <2>3, <2>4, SettingUpKeeps
<1> QED
  BY <1>2, <1>3

LEMMA LedgerGoesOn == LedgerInv /\ [LedgerNext]_ledgerVars => LedgerInv'
<1> SUFFICES ASSUME LedgerInv, [LedgerNext]_ledgerVars PROVE LedgerInv'
  OBVIOUS
<1>1. CASE UNCHANGED ledgerVars
  <2>1. instant' = instant /\ instant \in Nat
    BY <1>1 DEF ledgerVars, LedgerInv
  <2> QED
    BY <1>1, <2>1, LedgerRests DEF ledgerVars
<1>2. CASE InstantPasses \/ LedgerSaved
  <2>1. instant \in Nat
    BY DEF LedgerInv
  <2> QED
    BY <1>2, <2>1, LedgerRests DEF InstantPasses, LedgerSaved
<1>3. CASE \E p \in LedgerTasks : LiveRead(p) \/ LiveReadFails(p) \/ MeterRead(p) \/ MeterReadFails(p) \/ Called(p)
  BY <1>3, AReadFolds, TasksKeep
<1> QED
  BY <1>1, <1>2, <1>3, CrossingKeeps, OlderDaysKeep, SetUpKeeps DEF LedgerNext

(* Once its tasks rest, the ledger has been read past the last change of the  *)
(* charge power, unless the newest read failed or was cancelled: whatever     *)
(* crosses a reconciliation, nobody waits for a later event to learn of it    *)
(* (_on_power_changed, _async_reconcile_changes, async_history).              *)
THEOREM ChangesFolded == LedgerSpec => []ChangesAreFolded
<1>1. LedgerInv => ChangesAreFolded
  <2> SUFFICES ASSUME LedgerInv, queue = <<>>, \A p \in LedgerTasks : doing[p] = "idle", missed = "no"
               PROVE  Max(DOMAIN power) <= ledger.cursor
    BY DEF ChangesAreFolded, Resting
  <2>1. PICK m \in DOMAIN power : LastChange(m)
    BY DEF LedgerInv
  <2>2. Max(DOMAIN power) = m
    BY <2>1, LatestIs DEF LedgerInv
  <2>3. changeAgain # TRUE
    BY DEF LedgerInv, LedgerTasks
  <2> QED
    BY <2>1, <2>2, <2>3 DEF LedgerInv, ChangeIsToBeRead
<1> QED
  BY <1>1, LedgerStarts, LedgerGoesOn, PTL DEF LedgerSpec
----------------------------------------------------------------------------
(* The charging ledger: what is kept of the charging.                        *)

LEMMA LeastOf ==
  ASSUME NEW S \in SUBSET Nat, S # {}
  PROVE  \E x \in S : \A y \in S : x <= y
<1>1. \E x \in S : \A y \in S : ~(<<y, x>> \in OpToRel(<, Nat))
  BY WFMin, NatLessThanWellFounded
<1>2. PICK x \in S : \A y \in S : ~(y < x)
  BY <1>1 DEF OpToRel
<1>3. ASSUME NEW y \in S PROVE x <= y
  <2>1. ~(y < x) /\ x \in Nat /\ y \in Nat
    BY <1>2
  <2> QED
    BY <2>1
<1> QED
  BY <1>3

(* What holds of 0 and is passed on holds as far as it is passed.            *)
LEMMA Reaches ==
  ASSUME NEW n \in Nat, NEW Good, 0 \in Good, \A i \in 1..n : i - 1 \in Good => i \in Good
  PROVE  \A i \in 0..n : i \in Good
<1> DEFINE Bad == {i \in 0..n : i \notin Good}
<1> SUFFICES ASSUME Bad # {} PROVE FALSE
  OBVIOUS
<1>1. PICK x \in Bad : \A y \in Bad : x <= y
  <2>1. Bad \in SUBSET Nat
    OBVIOUS
  <2> HIDE DEF Bad
  <2> QED
    BY <2>1, LeastOf
<1>2. x \in 1..n /\ x - 1 \in 0..n /\ x - 1 \notin Bad
  BY <1>1
<1> QED
  BY <1>1, <1>2

(* Step after step, from the first to the last.                              *)
Carries(f, n, first, step) == f[0] = first /\ \A i \in 1..n : f[i] = step[i][f[i - 1]]

LEMMA RecursionExists ==
  ASSUME NEW n \in Nat, NEW S, NEW first \in S, NEW step \in [1..n -> [S -> S]]
  PROVE  \E f \in [0..n -> S] : Carries(f, n, first, step)
<1> DEFINE Good == {k \in 0..n : \E f \in [0..k -> S] : Carries(f, k, first, step)}
<1>1. 0 \in Good
  <2>1. [i \in 0..0 |-> first] \in [0..0 -> S] /\ Carries([i \in 0..0 |-> first], 0, first, step)
    BY DEF Carries
  <2> QED
    BY <2>1
<1>2. ASSUME NEW k \in 1..n, k - 1 \in Good PROVE k \in Good
  <2>1. PICK f \in [0..(k - 1) -> S] : Carries(f, k - 1, first, step)
    BY <1>2
  <2> DEFINE g == [i \in 0..k |-> IF i = k THEN step[k][f[k - 1]] ELSE f[i]]
  <2>2. k - 1 \in 0..(k - 1) /\ f[k - 1] \in S /\ step[k] \in [S -> S] /\ step[k][f[k - 1]] \in S
    OBVIOUS
  <2>3. g \in [0..k -> S]
    <3>1. \A i \in 0..k : i # k => i \in 0..(k - 1)
      OBVIOUS
    <3> QED
      BY <2>2, <3>1
  <2>4. g[0] = first /\ \A i \in 0..(k - 1) : g[i] = f[i]
    BY <2>1 DEF Carries
  <2>5. ASSUME NEW i \in 1..k PROVE g[i] = step[i][g[i - 1]]
    <3>1. i - 1 \in 0..(k - 1) /\ g[i - 1] = f[i - 1]
      BY <2>4
    <3>2. CASE i = k
      BY <3>1, <3>2
    <3>3. CASE i # k
      <4>1. i \in 1..(k - 1) /\ i \in 0..(k - 1)
        BY <3>3
      <4> HIDE DEF g
      <4> QED
        BY <2>1, <2>4, <3>1, <4>1 DEF Carries
    <3> QED
      BY <3>2, <3>3
  <2>6. Carries(g, k, first, step)
    <3> HIDE DEF g
    <3> QED
      BY <2>4, <2>5 DEF Carries
  <2> HIDE DEF g
  <2> QED
    BY <2>3, <2>6
<1> HIDE DEF Good
<1>3. \A i \in 0..n : i \in Good
  BY <1>1, <1>2, Reaches
<1>4. n \in Good
  BY <1>3
<1> QED
  BY <1>4 DEF Good

Powers == {"charging", "standby", "gap"}
RecordedStates == [at : Instants, is : Powers]

\* The history is what the recorder holds by now.
Recorded ==
  /\ instant \in Instants /\ power \in [DOMAIN power -> Powers] /\ DOMAIN power \subseteq 0..instant
  /\ DOMAIN power # {}

RowsUpTo(until, start, end) ==
  until = [t \in 0..end |->
             IF t = 0 THEN <<>>
             ELSE IF start < t /\ t - 1 \in DOMAIN power THEN Append(until[t - 1], StateAt(t - 1, t - 1))
             ELSE until[t - 1]]

LEMMA InstantsAre ==
  /\ LastInstant \in Nat /\ Instants = 0..LastInstant /\ DayTicks \in Nat /\ DayTicks >= 1 /\ DayTicks <= LastInstant
  /\ MaxGap \in Nat /\ SettleTicks \in Nat /\ SetUp = DayTicks /\ Never = -1 /\ Never \notin Instants
  BY LedgerAssumption DEF Instants, SetUp, Never

\* States in the order of their moments, none behind the last.
Ordered(states, last) ==
  /\ \A i \in 1..Len(states) : states[i].at <= last
  /\ \A i \in 2..Len(states) : states[i - 1].at <= states[i].at

LEMMA OrderedLonger ==
  ASSUME NEW states \in Seq(RecordedStates), NEW x \in RecordedStates, NEW last \in Int,
         Ordered(states, last), last <= x.at
  PROVE  Ordered(Append(states, x), x.at)
<1>1. /\ Len(states) \in Nat /\ Len(Append(states, x)) = Len(states) + 1
      /\ Append(states, x)[Len(states) + 1] = x
      /\ \A i \in 1..Len(states) : Append(states, x)[i] = states[i] /\ states[i] \in RecordedStates
  OBVIOUS
<1> DEFINE longer == Append(states, x)
           n == Len(states)
<1> HIDE DEF longer, n
<1>2. x.at \in Int /\ \A i \in 1..n : states[i].at \in Int
  BY <1>1, InstantsAre DEF RecordedStates, n
<1>3. ASSUME NEW i \in 1..(n + 1) PROVE longer[i].at <= x.at
  <2>1. CASE i = n + 1
    BY <1>1, <1>2, <2>1 DEF longer, n
  <2>2. CASE i # n + 1
    <3>1. i \in 1..n
      BY <1>1, <2>2 DEF n
    <3>2. longer[i] = states[i] /\ states[i].at <= last
      BY <1>1, <3>1 DEF Ordered, longer, n
    <3> QED
      BY <1>2, <3>1, <3>2
  <2> QED
    BY <2>1, <2>2
<1>4. ASSUME NEW i \in 2..(n + 1) PROVE longer[i - 1].at <= longer[i].at
  <2>1. i - 1 \in 1..n /\ n \in Nat
    BY <1>1 DEF n
  <2>2. longer[i - 1] = states[i - 1] /\ states[i - 1].at <= last
    BY <1>1, <2>1 DEF Ordered, longer, n
  <2>3. CASE i = n + 1
    BY <1>1, <1>2, <2>1, <2>2, <2>3 DEF longer, n
  <2>4. CASE i # n + 1
    <3>1. i \in 2..n /\ i \in 1..n
      BY <2>1, <2>4
    <3>2. longer[i] = states[i] /\ states[i - 1].at <= states[i].at
      BY <1>1, <3>1 DEF Ordered, longer, n
    <3> QED
      BY <2>2, <3>2
  <2> QED
    BY <2>3, <2>4
<1> QED
  BY <1>1, <1>3, <1>4 DEF Ordered, longer, n

LEMMA OrderedAfter ==
  ASSUME NEW states \in Seq(RecordedStates), NEW x \in RecordedStates, NEW last \in Int,
         Ordered(states, last), x.at <= last, \A i \in 1..Len(states) : x.at <= states[i].at
  PROVE  Ordered(<<x>> \o states, last)
<1> DEFINE longer == <<x>> \o states
           n == Len(states)
<1>1. /\ n \in Nat /\ Len(longer) = n + 1 /\ longer[1] = x
      /\ \A i \in 2..(n + 1) : longer[i] = states[i - 1] /\ i - 1 \in 1..n
  OBVIOUS
<1> HIDE DEF longer, n
<1>2. ASSUME NEW i \in 1..(n + 1) PROVE longer[i].at <= last
  <2>1. i = 1 \/ i \in 2..(n + 1)
    BY <1>1
  <2> QED
    BY <1>1, <2>1 DEF Ordered, n
<1>3. ASSUME NEW i \in 2..(n + 1) PROVE longer[i - 1].at <= longer[i].at
  <2>1. longer[i] = states[i - 1] /\ i - 1 \in 1..n
    BY <1>1
  <2>2. CASE i = 2
    BY <1>1, <2>1, <2>2 DEF n
  <2>3. CASE i # 2
    <3>1. i - 1 \in 2..n /\ i - 1 \in 2..(n + 1)
      BY <1>1, <2>1, <2>3
    <3>2. longer[i - 1] = states[(i - 1) - 1]
      BY <1>1, <3>1
    <3> QED
      BY <2>1, <3>1, <3>2 DEF Ordered, n
  <2> QED
    BY <2>2, <2>3
<1> QED
  BY <1>1, <1>2, <1>3 DEF Ordered, longer

(* A read is of states the recorder holds, in their order.                   *)
LEMMA RowsAreStates ==
  ASSUME Recorded, NEW start \in Int, NEW end \in Instants
  PROVE  /\ Rows(start, end) \in Seq(RecordedStates) /\ Ordered(Rows(start, end), end - 1)
         /\ \A i \in 1..Len(Rows(start, end)) : start <= Rows(start, end)[i].at
<1> DEFINE S == Seq(RecordedStates)
           step == [t \in 1..end |-> [s \in S |->
                      IF start < t /\ t - 1 \in DOMAIN power THEN Append(s, StateAt(t - 1, t - 1)) ELSE s]]
<1>1. end \in Nat /\ <<>> \in S
  BY InstantsAre
<1>2. ASSUME NEW t \in 1..end, NEW s \in S, t - 1 \in DOMAIN power
      PROVE  Append(s, StateAt(t - 1, t - 1)) \in S
  <2>1. StateAt(t - 1, t - 1) \in RecordedStates
    BY <1>2, InstantsAre DEF Recorded, RecordedStates, StateAt
  <2> QED
    BY <2>1
<1> HIDE DEF S
<1>3. step \in [1..end -> [S -> S]]
  BY <1>2, Zenon
<1>4. PICK f \in [0..end -> S] : Carries(f, end, <<>>, step)
  <2> HIDE DEF step
  <2> QED
    BY <1>1, <1>3, RecursionExists
<1>5. RowsUpTo(f, start, end)
  <2>1. ASSUME NEW t \in 0..end
        PROVE  f[t] = IF t = 0 THEN <<>>
             ELSE IF start < t /\ t - 1 \in DOMAIN power THEN Append(f[t - 1], StateAt(t - 1, t - 1))
             ELSE f[t - 1]
    <3>1. CASE t = 0
      BY <1>4, <3>1 DEF Carries
    <3>2. CASE t # 0
      <4>1. t \in 1..end /\ t - 1 \in 0..end
        BY <1>1, <3>2
      <4>2. f[t - 1] \in S /\ f[t] = step[t][f[t - 1]]
        BY <1>4, <4>1 DEF Carries
      <4> QED
        BY <3>2, <4>1, <4>2, Zenon
    <3> QED
      BY <3>1, <3>2
  <2> QED
    BY <1>4, <2>1, Zenon DEF RowsUpTo
<1> DEFINE g == CHOOSE until : RowsUpTo(until, start, end)
<1>6. RowsUpTo(g, start, end)
  BY <1>5, Zenon
<1>7. Rows(start, end) = g[end]
  BY Zenon DEF Rows, RowsUpTo
<1> HIDE DEF g
<1> DEFINE Since(s) == \A i \in 1..Len(s) : start <= s[i].at
           Good == {t \in 0..end : g[t] \in S /\ Ordered(g[t], t - 1) /\ Since(g[t])}
<1>8. 0 \in Good
  <2>1. 0 \in 0..end
    BY <1>1
  <2>2. g[0] = <<>>
    BY <1>6, <2>1, Zenon DEF RowsUpTo
  <2>3. Ordered(<<>>, 0 - 1) /\ Since(<<>>)
    BY DEF Ordered
  <2> QED
    BY <1>1, <2>1, <2>2, <2>3
<1>9. ASSUME NEW t \in 1..end, t - 1 \in Good PROVE t \in Good
  <2> DEFINE s == g[t - 1]
             x == StateAt(t - 1, t - 1)
  <2>1. t \in 0..end /\ t # 0 /\ s \in S /\ Ordered(s, (t - 1) - 1) /\ Since(s)
    BY <1>1, <1>9
  <2>2. g[t] = IF start < t /\ t - 1 \in DOMAIN power THEN Append(s, x) ELSE s
    BY <1>6, <2>1, Zenon DEF RowsUpTo
  <2> HIDE DEF s
  <2>3. CASE start < t /\ t - 1 \in DOMAIN power
    <3>1. x \in RecordedStates /\ x.at = t - 1 /\ s \in Seq(RecordedStates) /\ (t - 1) - 1 \in Int
      <4>1. t \in Int /\ t - 1 \in Instants /\ power[t - 1] \in Powers
        BY <1>1, <2>3, InstantsAre DEF Recorded
      <4> QED
        BY <2>1, <4>1 DEF RecordedStates, StateAt, S
    <3> HIDE DEF x
    <3>2. Append(s, x) \in S /\ Ordered(Append(s, x), t - 1)
      BY <2>1, <3>1, OrderedLonger DEF S
    <3>3. Since(Append(s, x))
      <4>1. start <= t - 1
        BY <1>1, <2>3
      <4> QED
        BY <2>1, <3>1, <4>1
    <3> QED
      BY <2>1, <2>2, <2>3, <3>2, <3>3
  <2>4. CASE ~(start < t /\ t - 1 \in DOMAIN power)
    <3>1. Ordered(s, t - 1)
      <4>1. ASSUME NEW i \in 1..Len(s) PROVE s[i].at <= t - 1
        <5>1. s[i] \in RecordedStates /\ s[i].at <= (t - 1) - 1
          BY <2>1 DEF S, Ordered
        <5> QED
          BY <1>1, <5>1, InstantsAre DEF RecordedStates
      <4> QED
        BY <2>1, <4>1 DEF Ordered
    <3> QED
      BY <2>1, <2>2, <2>4, <3>1
  <2> QED
    BY <2>3, <2>4
<1> HIDE DEF Good
<1>10. end \in Good
  BY <1>1, <1>8, <1>9, Reaches
<1> QED
  BY <1>7, <1>10 DEF Good, S

LEMMA GreatestOf ==
  ASSUME NEW n \in Nat, NEW S \in SUBSET (0..n), S # {}
  PROVE  Max(S) \in S /\ \A t \in S : t <= Max(S)
<1>1. PICK m \in S : \A t \in S : t <= m
  BY LatestExists
<1>2. \A t \in S : m >= t
  BY <1>1
<1> QED
  BY <1>2 DEF Max

LEMMA ReadIsStates ==
  ASSUME Recorded, NEW start \in Int, NEW end \in Instants, start <= LastInstant
  PROVE  /\ ReadStates(start, end) \in Seq(RecordedStates)
         /\ start <= end => Ordered(ReadStates(start, end), end)
<1> DEFINE before == {t \in DOMAIN power : t < start}
           inForce == IF before = {} THEN <<>> ELSE <<StateAt(Max(before), start)>>
<1> DEFINE x == StateAt(Max(before), start)
           rows == Rows(start, end)
<1>1. before # {} => x \in RecordedStates /\ x.at = start
  <2> SUFFICES ASSUME before # {} PROVE x \in RecordedStates /\ x.at = start
    OBVIOUS
  <2>1. before \in SUBSET (0..instant) /\ instant \in Nat
    BY InstantsAre DEF Recorded
  <2> HIDE DEF before
  <2>2. Max(before) \in before
    BY <2>1, GreatestOf
  <2>3. Max(before) \in DOMAIN power /\ Max(before) < start /\ Max(before) \in 0..instant
    BY <2>1, <2>2 DEF before
  <2>4. start \in Instants
    BY <2>3, InstantsAre
  <2> QED
    BY <2>3, <2>4 DEF StateAt, RecordedStates, Recorded
<1>2. /\ rows \in Seq(RecordedStates) /\ Ordered(rows, end - 1)
      /\ \A i \in 1..Len(rows) : start <= rows[i].at
  BY RowsAreStates
<1>3. ReadStates(start, end) = (IF before = {} THEN <<>> ELSE <<x>>) \o rows
  BY DEF ReadStates
<1>4. Ordered(rows, end)
  <2>1. ASSUME NEW i \in 1..Len(rows) PROVE rows[i].at <= end
    <3>1. rows[i] \in RecordedStates /\ rows[i].at <= end - 1
      BY <1>2 DEF Ordered
    <3> QED
      BY <3>1, InstantsAre DEF RecordedStates
  <2> QED
    BY <1>2, <2>1 DEF Ordered
<1> HIDE DEF before, x, rows
<1>5. CASE before = {}
  <2>1. ReadStates(start, end) = rows
    BY <1>2, <1>3, <1>5
  <2> QED
    BY <1>2, <1>4, <2>1
<1>6. CASE before # {}
  <2>1. ReadStates(start, end) = <<x>> \o rows
    BY <1>3, <1>6
  <2>2. <<x>> \in Seq(RecordedStates)
    BY <1>1, <1>6
  <2>3. ASSUME start <= end PROVE Ordered(<<x>> \o rows, end)
    <3>1. end \in Int /\ x.at <= end /\ \A i \in 1..Len(rows) : x.at <= rows[i].at
      BY <1>1, <1>2, <1>6, <2>3, InstantsAre
    <3> QED
      BY <1>1, <1>2, <1>4, <1>6, <3>1, OrderedAfter
  <2> QED
    BY <1>2, <2>1, <2>2, <2>3
<1> QED
  BY <1>5, <1>6

LEMMA LiveIsAState ==
  ASSUME Recorded, NEW states \in Seq(RecordedStates), NEW end \in Instants
  PROVE  /\ WithLive(states) \in Seq(RecordedStates)
         /\ Ordered(states, end) /\ Max(DOMAIN power) <= end => Ordered(WithLive(states), end)
<1>1. DOMAIN power \in SUBSET (0..instant) /\ instant \in Nat /\ DOMAIN power # {}
  BY InstantsAre DEF Recorded
<1>2. Max(DOMAIN power) \in DOMAIN power
  BY <1>1, GreatestOf
<1> DEFINE newest == StateAt(Max(DOMAIN power), Max(DOMAIN power))
           n == Len(states)
<1>3. newest \in RecordedStates /\ newest.at = Max(DOMAIN power)
  BY <1>1, <1>2, InstantsAre DEF StateAt, RecordedStates, Recorded
<1>4. WithLive(states) = IF states = <<>> \/ Max(DOMAIN power) > Last(states).at THEN Append(states, newest) ELSE states
  BY DEF WithLive
<1>5. ASSUME Ordered(states, end), Max(DOMAIN power) <= end, states = <<>> \/ Max(DOMAIN power) > Last(states).at
      PROVE  Ordered(Append(states, newest), end)
  <2> HIDE DEF newest
  <2>1. newest.at \in Int /\ newest.at <= end /\ end \in Int
    BY <1>3, <1>5, InstantsAre DEF RecordedStates
  <2>2. n \in Nat /\ \A i \in 1..n : states[i].at \in Int
    <3>1. n \in Nat /\ \A i \in 1..n : states[i] \in RecordedStates
      OBVIOUS
    <3> HIDE DEF n
    <3> QED
      BY <3>1, InstantsAre DEF RecordedStates
  <2>3. \A i \in 1..n : states[i].at <= newest.at
    <3>1. CASE states = <<>>
      BY <3>1
    <3>2. CASE states # <<>>
      <4>1. n \in 1..n /\ states[n].at < newest.at
        BY <1>3, <1>5, <2>1, <2>2, <3>2 DEF Last
      <4> DEFINE Good == {i \in 0..n : i < n => states[n - i].at <= newest.at}
      <4>2. 0 \in Good
        BY <2>1, <2>2, <4>1
      <4>3. ASSUME NEW i \in 1..n, i - 1 \in Good PROVE i \in Good
        <5>1. i \in 0..n /\ (i < n => n - i \in 1..n /\ n - (i - 1) \in 2..n /\ (n - (i - 1)) - 1 = n - i)
          BY <2>2
        <5>2. i < n => states[n - (i - 1)].at <= newest.at
          BY <2>2, <4>3
        <5>3. i < n => states[n - i].at <= states[n - (i - 1)].at
          BY <1>5, <5>1 DEF Ordered
        <5>4. i < n => n - (i - 1) \in 1..n
          BY <2>2
        <5> QED
          BY <2>1, <2>2, <5>1, <5>2, <5>3, <5>4
      <4> HIDE DEF Good
      <4>4. \A i \in 0..n : i \in Good
        BY <2>2, <4>2, <4>3, Reaches
      <4>5. ASSUME NEW i \in 1..n PROVE states[i].at <= newest.at
        <5>1. n - i \in 0..n /\ n - i < n /\ n - (n - i) = i
          BY <2>2
        <5>2. n - i \in Good
          BY <4>4, <5>1
        <5> QED
          BY <5>1, <5>2 DEF Good
      <4> QED
        BY <4>5
    <3> QED
      BY <3>1, <3>2
  <2>4. Ordered(states, newest.at)
    BY <1>5, <2>3 DEF Ordered
  <2>5. Ordered(Append(states, newest), newest.at)
    BY <1>3, <2>1, <2>4, OrderedLonger
  <2>6. Append(states, newest) \in Seq(RecordedStates)
    BY <1>3
  <2>7. ASSUME NEW i \in 1..Len(Append(states, newest)) PROVE Append(states, newest)[i].at <= end
    <3>1. Append(states, newest)[i].at <= newest.at /\ Append(states, newest)[i] \in RecordedStates
      BY <2>5, <2>6 DEF Ordered
    <3> QED
      BY <2>1, <3>1, InstantsAre DEF RecordedStates
  <2> QED
    BY <2>5, <2>7 DEF Ordered
<1>6. Append(states, newest) \in Seq(RecordedStates)
  BY <1>3
<1> HIDE DEF newest
<1> QED
  BY <1>4, <1>5, <1>6

LEMMA Lengthened ==
  ASSUME NEW S, NEW s \in Seq(S)
  PROVE  s \o <<>> \in Seq(S) /\ \A x \in S : s \o <<x>> \in Seq(S)
<1>1. <<>> \in Seq(S) /\ \A x \in S : <<x>> \in Seq(S)
  OBVIOUS
<1>2. \A t \in Seq(S) : s \o t \in Seq(S)
  OBVIOUS
<1> QED
  BY <1>1, <1>2

\* Stretches of charging; unless a read was late (f), none ends before it starts.
Stretches(f) ==
  {r \in [start : Instants, end : Instants, open : BOOLEAN, startKnown : BOOLEAN, endKnown : BOOLEAN] :
     f = "no" => r.start <= r.end}
\* Where a walk may stand at a moment.
Walks(f, t) ==
  {w \in [runs : Seq(Stretches(f)), since : Instants \cup {Never}, known : BOOLEAN,
          last : Powers \cup {"none"}, gapFrom : Instants \cup {Never}] :
     f = "no" => /\ w.since <= t /\ w.gapFrom <= t
                 /\ w.gapFrom # Never => w.since <= w.gapFrom}

(* What the walk makes of one state, and of a whole read.                    *)
LEMMA WalkGoesOn ==
  ASSUME NEW f, NEW t \in Int, NEW w \in Walks(f, t), NEW s \in RecordedStates, f = "no" => t <= s.at
  PROVE  Walk(w, s) \in Walks(f, s.at)
<1>1. s.at \in Instants /\ s.is \in Powers /\ Never \notin Instants /\ Never = -1
      /\ \A x \in Instants : x \in Int /\ Never <= x
  BY InstantsAre DEF RecordedStates
<1>2. w.runs \in Seq(Stretches(f)) /\ w.since \in Instants \cup {Never} /\ w.known \in BOOLEAN
      /\ w.last \in Powers \cup {"none"} /\ w.gapFrom \in Instants \cup {Never}
  BY DEF Walks
<1>3. f = "no" => /\ w.since <= s.at /\ w.gapFrom <= s.at
                  /\ w.gapFrom # Never => w.since <= w.gapFrom
  <2>1. f = "no" => w.since <= t /\ w.gapFrom <= t /\ (w.gapFrom # Never => w.since <= w.gapFrom)
    BY DEF Walks
  <2>2. w.since \in Int /\ w.gapFrom \in Int /\ s.at \in Int
    BY <1>1, <1>2
  <2> QED
    BY <2>1, <2>2
<1>4. CASE s.is = "gap"
  <2> DEFINE gap == IF w.gapFrom # Never THEN w.gapFrom ELSE s.at
  <2>1. Walk(w, s) = [runs |-> w.runs, since |-> w.since, known |-> w.known, last |-> w.last, gapFrom |-> gap]
    BY <1>4 DEF Walk, Walks
  <2>2. gap \in Instants /\ (f = "no" => gap <= s.at /\ w.since <= gap)
    BY <1>1, <1>2, <1>3
  <2> HIDE DEF gap
  <2> QED
    BY <1>2, <1>3, <2>1, <2>2 DEF Walks
<1>5. CASE s.is # "gap"
  <2> DEFINE charging == s.is = "charging"
             inGap    == w.gapFrom # Never
             longGap  == inGap /\ s.at - w.gapFrom > MaxGap
             lost     == w.since # Never /\ inGap /\ (~charging \/ longGap)
             ended    == w.since # Never /\ ~lost /\ ~charging
             since    == IF lost \/ ended THEN Never ELSE w.since
             RunTo(end, isKnown) == [start |-> w.since, end |-> end, open |-> FALSE,
                                 startKnown |-> w.known, endKnown |-> isKnown]
             runs == w.runs \o (IF lost THEN <<RunTo(w.gapFrom, FALSE)>>
                                  ELSE IF ended THEN <<RunTo(s.at, TRUE)>> ELSE <<>>)
             nowSince == IF charging /\ since = Never THEN s.at ELSE since
             isKnown == IF charging /\ since = Never THEN w.last = "standby" /\ ~inGap ELSE w.known
  <2>1. Walk(w, s) = [runs |-> runs, since |-> nowSince, known |-> isKnown, last |-> s.is, gapFrom |-> Never]
    BY <1>5 DEF Walk
  <2>2. lost => RunTo(w.gapFrom, FALSE) \in Stretches(f)
    BY <1>1, <1>2, <1>3 DEF Stretches
  <2>3. ended => RunTo(s.at, TRUE) \in Stretches(f)
    BY <1>1, <1>2, <1>3 DEF Stretches
  <2>4. since \in Instants \cup {Never} /\ (f = "no" => since <= s.at)
    BY <1>1, <1>2, <1>3
  <2> HIDE DEF lost, ended, RunTo, since
  <2>5. runs \in Seq(Stretches(f))
    <3>1. CASE lost
      BY <1>2, <2>2, <3>1, Lengthened
    <3>2. CASE ~lost /\ ended
      BY <1>2, <2>3, <3>2, Lengthened
    <3>3. CASE ~lost /\ ~ended
      <4>1. runs = w.runs \o <<>>
        BY <3>3
      <4> QED
        BY <1>2, <4>1, Lengthened
    <3> QED
      BY <3>1, <3>2, <3>3
  <2>6. nowSince \in Instants \cup {Never} /\ (f = "no" => nowSince <= s.at)
    BY <1>1, <2>4
  <2>7. isKnown \in BOOLEAN
    BY <1>2
  <2>8. Never <= s.at
    BY <1>1
  <2> HIDE DEF charging, inGap, runs, nowSince, isKnown
  <2> QED
    BY <1>1, <2>1, <2>5, <2>6, <2>7, <2>8 DEF Walks
<1> QED
  BY <1>4, <1>5

WalksOver(walked, states) ==
  walked = [i \in 0..Len(states) |-> IF i = 0 THEN Unwalked ELSE Walk(walked[i - 1], states[i])]

RunsOf(w, end) ==
  LET lost == w.gapFrom # Never /\ end - w.gapFrom > MaxGap
  IN IF w.since = Never THEN w.runs
     ELSE Append(w.runs, [start |-> w.since, end |-> IF lost THEN w.gapFrom ELSE end, open |-> ~lost,
                          startKnown |-> w.known, endKnown |-> FALSE])

LEMMA LastWalk ==
  ASSUME NEW f, NEW states \in Seq(RecordedStates), NEW end \in Instants, f = "no" => Ordered(states, end)
  PROVE  \E w \in Walks(f, end) : ChargingRuns(states, end) = RunsOf(w, end)
<1> DEFINE n == Len(states)
           S == Walks("yes", 0)
           step == [i \in 1..n |-> [w \in S |-> Walk(w, states[i])]]
           When(i) == IF i = 0 THEN Never ELSE states[i].at
<1>1. n \in Nat /\ \A i \in 1..n : states[i] \in RecordedStates /\ states[i].at \in Instants
  <2>1. n \in Nat /\ \A i \in 1..n : states[i] \in RecordedStates
    OBVIOUS
  <2> HIDE DEF n
  <2> QED
    BY <2>1 DEF RecordedStates
<1> HIDE DEF n
<1>2. Unwalked \in S /\ Unwalked \in Walks(f, Never) /\ Never \in Int /\ \A x \in Instants : x \in Int /\ Never <= x
  BY InstantsAre DEF Unwalked, Walks
<1>3. ASSUME NEW i \in 1..n, NEW w \in S PROVE Walk(w, states[i]) \in S
  <2>1. Walk(w, states[i]) \in Walks("yes", states[i].at)
    BY <1>1, WalkGoesOn
  <2> QED
    BY <2>1 DEF Walks
<1> HIDE DEF S
<1>4. step \in [1..n -> [S -> S]]
  BY <1>3, Zenon
<1>5. PICK h \in [0..n -> S] : Carries(h, n, Unwalked, step)
  <2> HIDE DEF step
  <2> QED
    BY <1>1, <1>2, <1>4, RecursionExists
<1>6. WalksOver(h, states)
  <2>1. ASSUME NEW i \in 0..n
        PROVE  h[i] = IF i = 0 THEN Unwalked ELSE Walk(h[i - 1], states[i])
    <3>1. CASE i = 0
      BY <1>5, <3>1 DEF Carries
    <3>2. CASE i # 0
      <4>1. i \in 1..n /\ i - 1 \in 0..n
        BY <1>1, <3>2
      <4>2. h[i - 1] \in S /\ h[i] = step[i][h[i - 1]]
        BY <1>5, <4>1 DEF Carries
      <4> QED
        BY <3>2, <4>1, <4>2, Zenon
    <3> QED
      BY <3>1, <3>2
  <2> QED
    BY <1>5, <2>1, Zenon DEF WalksOver, n
<1> DEFINE g == CHOOSE walked : WalksOver(walked, states)
<1>7. WalksOver(g, states)
  BY <1>6, Zenon
<1>8. ChargingRuns(states, end) = RunsOf(g[n], end)
  BY Zenon DEF ChargingRuns, RunsOf, WalksOver, n
<1> HIDE DEF g
<1> DEFINE Good == {i \in 0..n : g[i] \in Walks(f, When(i))}
<1>9. 0 \in Good
  <2>1. 0 \in 0..n
    BY <1>1
  <2>2. g[0] = Unwalked
    BY <1>7, <2>1, Zenon DEF WalksOver, n
  <2> QED
    BY <1>2, <2>1, <2>2
<1>10. ASSUME NEW i \in 1..n, i - 1 \in Good PROVE i \in Good
  <2>1. i \in 0..n /\ i # 0 /\ g[i - 1] \in Walks(f, When(i - 1)) /\ states[i] \in RecordedStates
    BY <1>1, <1>10
  <2>2. g[i] = Walk(g[i - 1], states[i])
    BY <1>7, <2>1, Zenon DEF WalksOver, n
  <2>3. When(i - 1) \in Int /\ (f = "no" => When(i - 1) <= states[i].at)
    <3>1. CASE i = 1
      BY <1>1, <1>2, <3>1
    <3>2. CASE i # 1
      <4>1. i - 1 \in 1..n /\ i \in 2..n /\ i - 1 # 0
        BY <1>1, <3>2
      <4> QED
        BY <1>1, <1>2, <4>1 DEF Ordered, n
    <3> QED
      BY <3>1, <3>2
  <2> DEFINE last == When(i - 1)
  <2> HIDE DEF last
  <2>4. Walk(g[i - 1], states[i]) \in Walks(f, states[i].at)
    BY <2>1, <2>3, WalkGoesOn DEF last
  <2> QED
    BY <2>1, <2>2, <2>4
<1>11. n \in Good
  <2> HIDE DEF Good
  <2>1. \A i \in 0..n : i \in Good
    BY <1>1, <1>9, <1>10, Reaches
  <2> QED
    BY <1>1, <2>1
<1>12. When(n) \in Int /\ (f = "no" => When(n) <= end)
  <2>1. CASE n = 0
    BY <1>2, <2>1
  <2>2. CASE n # 0
    <3>1. n \in 1..n
      BY <1>1, <2>2
    <3> QED
      BY <1>1, <1>2, <2>2, <3>1 DEF Ordered, n
  <2> QED
    BY <2>1, <2>2
<1> DEFINE w == g[n]
           last == When(n)
<1>13. w \in Walks(f, last)
  BY <1>11
<1> HIDE DEF w, last
<1>14. w \in Walks(f, end)
  <2>1. last \in Int /\ end \in Int /\ (f = "no" => last <= end)
    BY <1>2, <1>12 DEF last
  <2>2. w.since \in Int /\ w.gapFrom \in Int
    BY <1>2, <1>13 DEF Walks
  <2> QED
    BY <1>13, <2>1, <2>2 DEF Walks
<1> QED
  BY <1>8, <1>14 DEF w

(* The runs of a read are stretches between instants that have been; those of *)
(* one that is not late begin before they end.                                *)
LEMMA RunsAreStretches ==
  ASSUME NEW f, NEW states \in Seq(RecordedStates), NEW end \in Instants, f = "no" => Ordered(states, end)
  PROVE  ChargingRuns(states, end) \in Seq(Stretches(f))
<1>1. PICK w \in Walks(f, end) : ChargingRuns(states, end) = RunsOf(w, end)
  BY LastWalk
<1> DEFINE lost == w.gapFrom # Never /\ end - w.gapFrom > MaxGap
           until == IF lost THEN w.gapFrom ELSE end
           last == [start |-> w.since, end |-> until, open |-> ~lost,
                    startKnown |-> w.known, endKnown |-> FALSE]
<1>2. w.runs \in Seq(Stretches(f)) /\ w.since \in Instants \cup {Never} /\ w.known \in BOOLEAN
      /\ w.gapFrom \in Instants \cup {Never}
  BY DEF Walks
<1>3. w.since # Never => last \in Stretches(f)
  <2>1. w.gapFrom # Never => w.gapFrom \in Instants
    BY <1>2
  <2>2. f = "no" => w.since <= end /\ (w.gapFrom # Never => w.since <= w.gapFrom)
    BY DEF Walks
  <2>3. lost => w.gapFrom # Never
    OBVIOUS
  <2> HIDE DEF lost
  <2>4. until \in Instants /\ (f = "no" => w.since <= until)
    BY <2>1, <2>2, <2>3
  <2> HIDE DEF until
  <2> QED
    BY <1>2, <2>4 DEF Stretches
<1>4. RunsOf(w, end) = IF w.since = Never THEN w.runs ELSE Append(w.runs, last)
  BY DEF RunsOf
<1> HIDE DEF last
<1> QED
  BY <1>1, <1>2, <1>3, <1>4

\* A segment with its measurement: what is final is measured, as far as it goes;
\* unless a read was late (f), none ends before it starts.
Segments(f) ==
  {s \in [start : Instants, end : Instants, startKnown : BOOLEAN, endKnown : BOOLEAN, active : BOOLEAN,
          seen : Instants, final : BOOLEAN,
          measured : (Instants \cup {Never}) \X (Instants \cup {Never})] :
     /\ s.final = TRUE => s.active = FALSE /\ s.measured = <<s.start, s.end>>
     /\ f = "no" => s.start <= s.end}

LEMMA Sequenced ==
  ASSUME NEW S
  PROVE  /\ \A n \in Nat : \A t \in [1..n -> S] : t \in Seq(S)
         /\ \A s \in Seq(S) : s \in [1..Len(s) -> S] /\ Len(s) \in Nat
  OBVIOUS

(* What a run makes of the segments: a new one, or one moved, whose energy is *)
(* then no longer final.                                                      *)
LEMMA NewIsASegment ==
  ASSUME NEW f, NEW stretch \in Stretches(f), NEW readEnd \in Instants, NEW isLive \in BOOLEAN
  PROVE  NewSegment(stretch, readEnd, isLive) \in Segments(f)
<1>1. (stretch.open /\ isLive) \in BOOLEAN /\ Unmeasured \in (Instants \cup {Never}) \X (Instants \cup {Never})
  BY DEF Unmeasured, Stretches
<1> QED
  BY <1>1 DEF NewSegment, Segments, Stretches

LEMMA MovedIsASegment ==
  ASSUME NEW f, NEW s \in Segments(f), NEW stretch \in Stretches(f), NEW readEnd \in Instants, NEW isLive \in BOOLEAN,
         Touches(s, stretch)
  PROVE  Moved(s, stretch, readEnd, isLive) \in Segments(f)
<1> DEFINE earlier == stretch.start < s.start /\ (stretch.startKnown \/ ~isLive)
           later   == readEnd >= s.seen /\ (isLive \/ ~s.active)
           b == [start |-> IF earlier THEN stretch.start ELSE s.start,
                 startKnown |-> IF earlier THEN stretch.startKnown
                                ELSE s.startKnown \/ (stretch.start = s.start /\ stretch.startKnown),
                 end |-> IF later THEN stretch.end ELSE s.end,
                 endKnown |-> IF later THEN stretch.endKnown ELSE s.endKnown,
                 active |-> IF later THEN stretch.open /\ isLive ELSE s.active,
                 seen |-> IF later THEN readEnd ELSE s.seen]
           m == MovedStaysFinal(s, stretch, readEnd, isLive)
<1>1. m = [start |-> b.start, end |-> b.end, startKnown |-> b.startKnown, endKnown |-> b.endKnown,
           active |-> b.active, seen |-> b.seen, final |-> s.final, measured |-> s.measured]
  <2>1. m = [s EXCEPT !.start = b.start, !.startKnown = b.startKnown, !.end = b.end,
                      !.endKnown = b.endKnown, !.active = b.active, !.seen = b.seen]
    <3>1. s = [start |-> s.start, end |-> s.end, startKnown |-> s.startKnown, endKnown |-> s.endKnown,
               active |-> s.active, seen |-> s.seen, final |-> s.final, measured |-> s.measured]
      BY DEF Segments
    <3> QED
      BY <3>1 DEF MovedStaysFinal
  <2> HIDE DEF b, m
  <2> QED
    BY <2>1 DEF Segments
<1>2. /\ b.start \in Instants /\ b.end \in Instants /\ b.seen \in Instants
      /\ b.startKnown \in BOOLEAN /\ b.endKnown \in BOOLEAN /\ b.active \in BOOLEAN
  BY DEF Segments, Stretches
<1>7. f = "no" => b.start <= b.end
  <2> SUFFICES ASSUME f = "no" PROVE b.start <= b.end
    OBVIOUS
  <2>1. /\ s.start \in Int /\ s.end \in Int /\ stretch.start \in Int /\ stretch.end \in Int
        /\ s.start <= s.end /\ stretch.start <= stretch.end
    BY InstantsAre DEF Segments, Stretches
  <2>2. s.start <= stretch.end /\ stretch.start <= s.end
    BY DEF Touches
  <2>3. b.start \in {s.start, stretch.start} /\ b.end \in {s.end, stretch.end}
    BY DEF b
  <2> HIDE DEF b
  <2> QED
    BY <2>1, <2>2, <2>3
<1> HIDE DEF b
<1> DEFINE final == s.final /\ BoundsOf(m) = BoundsOf(s)
<1>3. Moved(s, stretch, readEnd, isLive) =
        [start |-> b.start, end |-> b.end, startKnown |-> b.startKnown, endKnown |-> b.endKnown,
         active |-> b.active, seen |-> b.seen, final |-> final, measured |-> s.measured]
  BY <1>1 DEF Moved
<1>4. final \in BOOLEAN /\ s.measured \in (Instants \cup {Never}) \X (Instants \cup {Never})
  BY DEF Segments
<1>5. final = TRUE => b.active = FALSE /\ s.measured = <<b.start, b.end>>
  <2>1. BoundsOf(m) = <<b.start, b.end, b.startKnown, b.endKnown, b.active>>
    BY <1>1 DEF BoundsOf
  <2>2. final = TRUE => s.final = TRUE /\ BoundsOf(m) = BoundsOf(s)
    BY DEF Segments
  <2> HIDE DEF final, m
  <2> QED
    BY <2>1, <2>2 DEF Segments, BoundsOf
<1> HIDE DEF final, m
<1> QED
  BY <1>2, <1>3, <1>4, <1>5, <1>7 DEF Segments

Folds(f) == [segments : Seq(Segments(f)), landed : SUBSET Nat]

LEMMA LandingKeeps ==
  ASSUME NEW f, NEW m \in Folds(f), NEW stretch \in Stretches(f), NEW readEnd \in Instants, NEW isLive \in BOOLEAN
  PROVE  Landing(m, stretch, readEnd, isLive) \in Folds(f)
<1> DEFINE matches == {i \in DOMAIN m.segments : Touches(m.segments[i], stretch)}
<1>1. m.segments \in Seq(Segments(f)) /\ m.landed \in SUBSET Nat /\ Len(m.segments) \in Nat
      /\ DOMAIN m.segments = 1..Len(m.segments)
  BY DEF Folds
<1>2. CASE matches = {}
  <2>1. Landing(m, stretch, readEnd, isLive)
          = [segments |-> Append(m.segments, NewSegment(stretch, readEnd, isLive)),
             landed   |-> m.landed \cup {Len(m.segments) + 1}]
    BY <1>2 DEF Landing
  <2>2. Append(m.segments, NewSegment(stretch, readEnd, isLive)) \in Seq(Segments(f))
    BY <1>1, NewIsASegment
  <2> QED
    BY <1>1, <2>1, <2>2 DEF Folds
<1>3. CASE matches # {}
  <2>1. Landing(m, stretch, readEnd, isLive)
          = [segments |-> [m.segments EXCEPT ![Min(matches)] = Moved(m.segments[Min(matches)], stretch, readEnd, isLive)],
             landed   |-> m.landed \cup {Min(matches)}]
    BY <1>3 DEF Landing
  <2>2. matches \in SUBSET Nat
    BY <1>1
  <2>3. Min(matches) \in matches
    <3> HIDE DEF matches
    <3>1. PICK x \in matches : \A y \in matches : x <= y
      BY <1>3, <2>2, LeastOf
    <3> QED
      BY <3>1 DEF Min
  <2>4. Min(matches) \in 1..Len(m.segments)
    BY <1>1, <2>3
  <2> DEFINE i == Min(matches)
  <2>9. Touches(m.segments[i], stretch)
    BY <2>3
  <2> HIDE DEF i, matches
  <2>5. Moved(m.segments[i], stretch, readEnd, isLive) \in Segments(f)
    <3>1. m.segments[i] \in Segments(f)
      BY <1>1, <2>4 DEF i
    <3> QED
      BY <2>9, <3>1, MovedIsASegment
  <2>6. [m.segments EXCEPT ![i] = Moved(m.segments[i], stretch, readEnd, isLive)] \in Seq(Segments(f))
    <3>1. m.segments \in [1..Len(m.segments) -> Segments(f)]
      BY <1>1, Sequenced
    <3>2. [m.segments EXCEPT ![i] = Moved(m.segments[i], stretch, readEnd, isLive)] \in [1..Len(m.segments) -> Segments(f)]
      BY <2>5, <3>1, Zenon
    <3> QED
      BY <1>1, <3>2, Sequenced
  <2>7. Landing(m, stretch, readEnd, isLive)
          = [segments |-> [m.segments EXCEPT ![i] = Moved(m.segments[i], stretch, readEnd, isLive)],
             landed   |-> m.landed \cup {i}]
    BY <2>1 DEF i
  <2>8. i \in Nat
    BY <2>4, <1>1 DEF i
  <2> QED
    BY <1>1, <2>6, <2>7, <2>8 DEF Folds
<1> QED
  BY <1>2, <1>3

(* Segments that are closed, measured and put in order are segments.         *)
LEMMA ClosedKeeps ==
  ASSUME NEW f, NEW m \in Folds(f)
  PROVE  Closed(m) \in Seq(Segments(f))
<1>1. m.segments \in Seq(Segments(f)) /\ Len(m.segments) \in Nat /\ DOMAIN m.segments = 1..Len(m.segments)
  BY DEF Folds
<1>2. ASSUME NEW s \in Segments(f)
      PROVE  [s EXCEPT !.active = FALSE, !.endKnown = FALSE, !.final = FALSE] \in Segments(f)
  BY DEF Segments
<1>3. ASSUME NEW i \in 1..Len(m.segments)
      PROVE  (IF m.segments[i].active /\ i \notin m.landed
              THEN [m.segments[i] EXCEPT !.active = FALSE, !.endKnown = FALSE, !.final = FALSE]
              ELSE m.segments[i]) \in Segments(f)
  <2>1. m.segments[i] \in Segments(f)
    BY <1>1
  <2>2. [m.segments[i] EXCEPT !.active = FALSE, !.endKnown = FALSE, !.final = FALSE] \in Segments(f)
    BY <1>2, <2>1, Zenon
  <2> QED
    BY <2>1, <2>2, Zenon
<1>4. Closed(m) \in [1..Len(m.segments) -> Segments(f)]
  BY <1>1, <1>3, Zenon DEF Closed
<1> QED
  BY <1>1, <1>4, Sequenced

LEMMA MeasuredKeeps ==
  ASSUME NEW f, NEW segments \in Seq(Segments(f)), NEW time \in Instants
  PROVE  Measured(segments, time) \in Seq(Segments(f))
<1>1. Len(segments) \in Nat /\ DOMAIN segments = 1..Len(segments)
  OBVIOUS
<1>2. ASSUME NEW s \in Segments(f)
      PROVE  [s EXCEPT !.measured = <<s.start, s.end>>,
                       !.final = ~s.active /\ time >= s.end + SettleTicks] \in Segments(f)
  <2>1. (~s.active /\ time >= s.end + SettleTicks) \in BOOLEAN
    OBVIOUS
  <2>2. (~s.active /\ time >= s.end + SettleTicks) => s.active = FALSE
    BY DEF Segments
  <2> DEFINE final == ~s.active /\ time >= s.end + SettleTicks
  <2> HIDE DEF final
  <2>3. [s EXCEPT !.measured = <<s.start, s.end>>, !.final = final] \in Segments(f)
    BY <2>1, <2>2 DEF Segments, final
  <2> QED
    BY <2>3 DEF final
<1>3. ASSUME NEW i \in 1..Len(segments)
      PROVE  (IF segments[i].final THEN segments[i]
              ELSE [segments[i] EXCEPT !.measured = <<segments[i].start, segments[i].end>>,
                      !.final = ~segments[i].active /\ time >= segments[i].end + SettleTicks]) \in Segments(f)
  <2>1. segments[i] \in Segments(f)
    BY <1>1
  <2>2. [segments[i] EXCEPT !.measured = <<segments[i].start, segments[i].end>>,
                      !.final = ~segments[i].active /\ time >= segments[i].end + SettleTicks] \in Segments(f)
    BY <1>2, <2>1, Zenon
  <2> QED
    BY <2>1, <2>2, Zenon
<1>4. Measured(segments, time) \in [1..Len(segments) -> Segments(f)]
  BY <1>1, <1>3, Zenon DEF Measured
<1> QED
  BY <1>1, <1>4, Sequenced

LEMMA PlacedKeeps ==
  ASSUME NEW f, NEW sorted \in Seq(Segments(f)), NEW s \in Segments(f)
  PROVE  Placed(sorted, s) \in Seq(Segments(f))
<1> DEFINE before == {0} \cup {i \in DOMAIN sorted : sorted[i].start <= s.start}
<1>1. Len(sorted) \in Nat /\ DOMAIN sorted = 1..Len(sorted)
  OBVIOUS
<1>2. before \in SUBSET (0..Len(sorted)) /\ before # {}
  BY <1>1
<1> DEFINE k == Max(before)
<1>3. k \in 0..Len(sorted)
  <2> HIDE DEF before
  <2> QED
    BY <1>1, <1>2, GreatestOf
<1>4. Placed(sorted, s) = InsertAt(sorted, k + 1, s)
  BY DEF Placed
<1> HIDE DEF k
<1>5. SubSeq(sorted, 1, k) \in Seq(Segments(f)) /\ SubSeq(sorted, k + 1, Len(sorted)) \in Seq(Segments(f))
      /\ <<s>> \in Seq(Segments(f)) /\ (k + 1) - 1 = k
  BY <1>1, <1>3
<1> QED
  BY <1>4, <1>5 DEF InsertAt

FoldsOver(folded, segments, runs, readEnd, isLive) ==
  folded = [i \in 0..Len(runs) |->
              IF i = 0 THEN [segments |-> segments, landed |-> {}]
              ELSE Landing(folded[i - 1], runs[i], readEnd, isLive)]

LEMMA FoldKeeps ==
  ASSUME NEW f, NEW segments \in Seq(Segments(f)), NEW runs \in Seq(Stretches(f)), NEW readEnd \in Instants,
         NEW isLive \in BOOLEAN
  PROVE  FoldRuns(segments, runs, readEnd, isLive) \in Folds(f)
<1> DEFINE n == Len(runs)
           first == [segments |-> segments, landed |-> {}]
           step == [i \in 1..n |-> [m \in Folds(f) |-> Landing(m, runs[i], readEnd, isLive)]]
<1>1. n \in Nat /\ (\A i \in 1..n : runs[i] \in Stretches(f)) /\ first \in Folds(f)
  BY DEF Folds
<1> HIDE DEF n
<1>2. ASSUME NEW i \in 1..n, NEW m \in Folds(f) PROVE Landing(m, runs[i], readEnd, isLive) \in Folds(f)
  BY <1>1, LandingKeeps
<1>3. step \in [1..n -> [Folds(f) -> Folds(f)]]
  BY <1>2, Zenon
<1> HIDE DEF first
<1>4. PICK h \in [0..n -> Folds(f)] : Carries(h, n, first, step)
  <2> HIDE DEF step
  <2> QED
    BY <1>1, <1>3, RecursionExists
<1>5. FoldsOver(h, segments, runs, readEnd, isLive)
  <2>1. ASSUME NEW i \in 0..n
        PROVE  h[i] = IF i = 0 THEN first ELSE Landing(h[i - 1], runs[i], readEnd, isLive)
    <3>1. CASE i = 0
      BY <1>4, <3>1 DEF Carries
    <3>2. CASE i # 0
      <4>1. i \in 1..n /\ i - 1 \in 0..n
        BY <1>1, <3>2
      <4>2. h[i - 1] \in Folds(f) /\ h[i] = step[i][h[i - 1]]
        BY <1>4, <4>1 DEF Carries
      <4> QED
        BY <3>2, <4>1, <4>2, Zenon
    <3> QED
      BY <3>1, <3>2
  <2> QED
    BY <1>4, <2>1, Zenon DEF FoldsOver, n, first
<1> DEFINE g == CHOOSE folded : FoldsOver(folded, segments, runs, readEnd, isLive)
<1>6. FoldsOver(g, segments, runs, readEnd, isLive)
  BY <1>5, Zenon
<1>7. FoldRuns(segments, runs, readEnd, isLive) = g[n]
  BY Zenon DEF FoldRuns, FoldsOver, n
<1> HIDE DEF g
<1> DEFINE Good == {i \in 0..n : g[i] \in Folds(f)}
<1>8. 0 \in Good
  <2>1. 0 \in 0..n
    BY <1>1
  <2>2. g[0] = first
    BY <1>6, <2>1, Zenon DEF FoldsOver, n, first
  <2> QED
    BY <1>1, <2>1, <2>2
<1>9. ASSUME NEW i \in 1..n, i - 1 \in Good PROVE i \in Good
  <2>1. i \in 0..n /\ i # 0 /\ g[i - 1] \in Folds(f)
    BY <1>1, <1>9
  <2>2. g[i] = Landing(g[i - 1], runs[i], readEnd, isLive)
    BY <1>6, <2>1, Zenon DEF FoldsOver, n
  <2> QED
    BY <1>2, <2>1, <2>2
<1> HIDE DEF Good
<1>10. \A i \in 0..n : i \in Good
  BY <1>1, <1>8, <1>9, Reaches
<1>11. n \in Good
  BY <1>1, <1>10
<1> QED
  BY <1>7, <1>11 DEF Good

SortsOver(sorted, segments) ==
  sorted = [i \in 0..Len(segments) |-> IF i = 0 THEN <<>> ELSE Placed(sorted[i - 1], segments[i])]

LEMMA SortKeeps ==
  ASSUME NEW f, NEW segments \in Seq(Segments(f))
  PROVE  ByStart(segments) \in Seq(Segments(f))
<1> DEFINE n == Len(segments)
           S == Seq(Segments(f))
           step == [i \in 1..n |-> [s \in S |-> Placed(s, segments[i])]]
<1>1. n \in Nat /\ (\A i \in 1..n : segments[i] \in Segments(f)) /\ <<>> \in S
  OBVIOUS
<1>2. ASSUME NEW i \in 1..n, NEW s \in S PROVE Placed(s, segments[i]) \in S
  BY <1>1, PlacedKeeps
<1> HIDE DEF n, S
<1>3. step \in [1..n -> [S -> S]]
  BY <1>2, Zenon
<1>4. PICK h \in [0..n -> S] : Carries(h, n, <<>>, step)
  <2> HIDE DEF step
  <2> QED
    BY <1>1, <1>3, RecursionExists
<1>5. SortsOver(h, segments)
  <2>1. ASSUME NEW i \in 0..n
        PROVE  h[i] = IF i = 0 THEN <<>> ELSE Placed(h[i - 1], segments[i])
    <3>1. CASE i = 0
      BY <1>4, <3>1 DEF Carries
    <3>2. CASE i # 0
      <4>1. i \in 1..n /\ i - 1 \in 0..n
        BY <1>1, <3>2
      <4>2. h[i - 1] \in S /\ h[i] = step[i][h[i - 1]]
        BY <1>4, <4>1 DEF Carries
      <4> QED
        BY <3>2, <4>1, <4>2, Zenon
    <3> QED
      BY <3>1, <3>2
  <2> QED
    BY <1>4, <2>1, Zenon DEF SortsOver, n
<1> DEFINE g == CHOOSE sorted : SortsOver(sorted, segments)
<1>6. SortsOver(g, segments)
  BY <1>5, Zenon
<1>7. ByStart(segments) = g[n]
  BY Zenon DEF ByStart, SortsOver, n
<1> HIDE DEF g
<1> DEFINE Good == {i \in 0..n : g[i] \in S}
<1>8. 0 \in Good
  <2>1. 0 \in 0..n
    BY <1>1
  <2>2. g[0] = <<>>
    BY <1>6, <2>1, Zenon DEF SortsOver, n
  <2> QED
    BY <1>1, <2>1, <2>2
<1>9. ASSUME NEW i \in 1..n, i - 1 \in Good PROVE i \in Good
  <2>1. i \in 0..n /\ i # 0 /\ g[i - 1] \in S
    BY <1>1, <1>9
  <2>2. g[i] = Placed(g[i - 1], segments[i])
    BY <1>6, <2>1, Zenon DEF SortsOver, n
  <2> QED
    BY <1>2, <2>1, <2>2
<1> HIDE DEF Good
<1>10. \A i \in 0..n : i \in Good
  BY <1>1, <1>8, <1>9, Reaches
<1>11. n \in Good
  BY <1>1, <1>10
<1> QED
  BY <1>7, <1>11 DEF Good, S

\* What is kept of a charger.
Ledgers(f) == [segments : Seq(Segments(f)), cursor : Instants \cup {Never}, liveSince : Instants \cup {Never},
            before : Instants \cup {Never}, done : BOOLEAN]

LEMMA MidnightIs ==
  ASSUME NEW t \in Int
  PROVE  MidnightOf(t) \in Int /\ MidnightOf(t) <= t /\ (t \in Instants => MidnightOf(t) \in Instants)
<1>1. t \div DayTicks \in Int /\ DayTicks * (t \div DayTicks) <= t
  BY InstantsAre
<1>2. DayTicks * (t \div DayTicks) \in Int
  BY <1>1, InstantsAre
<1>3. t >= 0 => t \div DayTicks >= 0
  BY <1>1, InstantsAre
<1>4. t >= 0 => DayTicks * (t \div DayTicks) >= 0
  BY <1>3, <1>1, InstantsAre
<1> QED
  BY <1>1, <1>2, <1>4, InstantsAre DEF MidnightOf

TaskPlaces == {"idle", "reading", "settling", "breathing", "backfilling", "dating"}

\* A day that is read back to is behind one the live reads began with.
Begun(l) == l.before # Never => l.liveSince # Never

\* The days that were read, live and back, are not ahead of the clock; nor is
\* what a read begins from ahead of the moment it reads up to.
Dated ==
  /\ ledger.liveSince <= instant /\ ledger.before <= instant
  /\ stored.liveSince <= instant /\ stored.before <= instant
  /\ \A p \in LedgerTasks : doing[p] = "reading" => ledger.liveSince <= asOf[p]

MeasuredInv ==
  /\ Recorded /\ SetUp <= instant /\ Dated
  /\ ledger \in Ledgers(phantom) /\ Begun(ledger) /\ stored \in Ledgers(phantom) /\ Begun(stored)
  /\ doing \in [LedgerTasks -> TaskPlaces] /\ asOf \in [LedgerTasks -> 0..instant]
  /\ unsaved \in BOOLEAN /\ {told, missed, phantom} \subseteq {"yes", "no"}
  /\ doing["tick"] \in {"backfilling", "dating"} => ledger.before # Never
  /\ doing["tick"] = "dating" => MidnightOf(ledger.before - 1) >= 0

LEMMA MeasuringStarts == LedgerInit => MeasuredInv
<1> SUFFICES ASSUME LedgerInit PROVE MeasuredInv
  OBVIOUS
<1>1. Recorded /\ SetUp <= instant
  BY InstantsAre, HistoriesAssumption DEF LedgerInit, Recorded, Powers
<1>2. NoLedger \in Ledgers(phantom) /\ Begun(NoLedger)
  BY DEF NoLedger, Ledgers, Begun
<1>4. Dated
  BY <1>1, InstantsAre DEF LedgerInit, Dated, NoLedger, Recorded, LedgerTasks
<1>3. doing \in [LedgerTasks -> TaskPlaces] /\ asOf \in [LedgerTasks -> 0..instant] /\ doing["tick"] = "reading"
  <2>1. SetUp \in 0..instant
    BY InstantsAre DEF LedgerInit
  <2> QED
    BY <2>1 DEF LedgerInit, TaskPlaces, LedgerTasks
<1> QED
  BY <1>1, <1>2, <1>3, <1>4 DEF LedgerInit, MeasuredInv

(* What no late read has touched is what one may have touched.               *)
LEMMA LateOrNot ==
  ASSUME NEW f
  PROVE  Ledgers(f) \subseteq Ledgers("yes")
<1>1. Segments(f) \subseteq Segments("yes")
  BY DEF Segments
<1>2. ASSUME NEW s \in Seq(Segments(f)) PROVE s \in Seq(Segments("yes"))
  <2>1. s \in [1..Len(s) -> Segments(f)] /\ Len(s) \in Nat
    BY Sequenced
  <2>2. s \in [1..Len(s) -> Segments("yes")]
    BY <1>1, <2>1
  <2> QED
    BY <2>1, <2>2, Sequenced
<1> QED
  BY <1>2 DEF Ledgers

(* Where the reads begin, and what they leave of a ledger.                   *)
LEMMA SeededIs ==
  ASSUME NEW f, NEW time \in Instants, ledger \in Ledgers(f), Begun(ledger)
  PROVE  /\ Seeded(time) \in Ledgers(f) /\ Begun(Seeded(time)) /\ Seeded(time).liveSince \in Instants
         /\ Seeded(time).segments = ledger.segments /\ Seeded(time).cursor = ledger.cursor
         /\ ledger.before # Never => Seeded(time).before = ledger.before
         /\ \/ Seeded(time).liveSince = ledger.liveSince /\ Seeded(time).before = ledger.before
            \/ Seeded(time).liveSince <= time /\ Seeded(time).before <= time
<1>1. MidnightOf(time) \in Instants /\ Never \notin Instants /\ MidnightOf(time) <= time
  <2>1. time \in Int /\ Never \notin Instants
    BY InstantsAre
  <2> QED
    BY <2>1, MidnightIs
<1>2. CASE ledger.liveSince # Never
  BY <1>2 DEF Seeded, Ledgers
<1>3. CASE ledger.liveSince = Never
  <2>1. Seeded(time) = [ledger EXCEPT !.liveSince = MidnightOf(time), !.before = MidnightOf(time)]
    BY <1>3 DEF Seeded
  <2>2. ledger.before = Never
    BY <1>3 DEF Begun
  <2> QED
    BY <1>1, <2>1, <2>2 DEF Ledgers, Begun
<1> QED
  BY <1>2, <1>3

LEMMA ReadStartIs ==
  ASSUME NEW f, NEW l \in Ledgers(f), l.liveSince \in Instants
  PROVE  /\ ReadStart(l) \in Int /\ ReadStart(l) <= LastInstant
         /\ \A time \in Instants : l.cursor <= time /\ l.liveSince <= time => ReadStart(l) <= time
<1> DEFINE starts == {IF l.cursor = Never THEN l.liveSince ELSE l.cursor}
                     \cup {l.segments[i].start : i \in {j \in DOMAIN l.segments : l.segments[j].active}}
<1>1. starts \in SUBSET (0..LastInstant) /\ starts # {} /\ LastInstant \in Nat
  <2>1. \A i \in DOMAIN l.segments : l.segments[i].start \in Instants
    <3>1. l.segments \in [1..Len(l.segments) -> Segments(f)]
      BY Sequenced DEF Ledgers
    <3> QED
      BY <3>1 DEF Segments
  <2> QED
    BY <2>1, InstantsAre DEF Ledgers
<1>2. ReadStart(l) = Min(starts) - ReadMargin
  BY DEF ReadStart
<1>7. ASSUME NEW time \in Instants, l.cursor <= time, l.liveSince <= time PROVE \E x \in starts : x <= time
  BY <1>7
<1> HIDE DEF starts
<1>3. PICK x \in starts : \A y \in starts : x <= y
  BY <1>1, LeastOf
<1>4. Min(starts) \in starts /\ \A y \in starts : Min(starts) <= y
  BY <1>3 DEF Min
<1>5. ReadMargin \in Nat
  BY InstantsAre DEF ReadMargin
<1> DEFINE k == Min(starts)
<1>6. k \in 0..LastInstant /\ ReadStart(l) = k - ReadMargin
  BY <1>1, <1>2, <1>4
<1>8. ASSUME NEW time \in Instants, l.cursor <= time, l.liveSince <= time PROVE k <= time
  <2>1. PICK z \in starts : z <= time
    BY <1>7, <1>8
  <2>2. k <= z /\ z \in 0..LastInstant
    BY <1>1, <1>4
  <2> HIDE DEF k
  <2> QED
    BY <1>1, <1>6, <2>1, <2>2, InstantsAre
<1> HIDE DEF k
<1>9. ReadStart(l) \in Int /\ ReadStart(l) <= LastInstant
  BY <1>1, <1>5, <1>6
<1>10. ASSUME NEW time \in Instants, l.cursor <= time, l.liveSince <= time PROVE ReadStart(l) <= time
  <2>1. k <= time
    BY <1>8, <1>10
  <2> QED
    BY <1>1, <1>5, <1>6, <2>1, InstantsAre
<1> QED
  BY <1>9, <1>10

LEMMA OlderReadKeeps ==
  ASSUME Recorded, NEW f, NEW l \in Ledgers(f), l.before \in Instants, NEW end \in Instants,
         end = instant \/ end = l.before + ReadMargin, l.before <= instant
  PROVE  OlderRead(l, end) \in Seq(Segments(f))
<1> DEFINE start == MidnightOf(l.before - 1) - ReadMargin
<1>1. start \in Int /\ start <= LastInstant /\ start <= end
  <2>1. l.before - 1 \in Int /\ l.before - 1 <= LastInstant
    BY InstantsAre
  <2>2. MidnightOf(l.before - 1) \in Int /\ MidnightOf(l.before - 1) <= l.before - 1
    BY <2>1, MidnightIs
  <2>3. ReadMargin \in Nat
    BY InstantsAre DEF ReadMargin
  <2>4. l.before \in Int /\ instant \in Int /\ end \in Int /\ l.before <= LastInstant
    <3>1. instant \in Instants
      BY DEF Recorded
    <3> QED
      BY <3>1, InstantsAre
  <2> DEFINE midnight == MidnightOf(l.before - 1)
  <2> HIDE DEF midnight
  <2>5. midnight \in Int /\ midnight <= l.before - 1 /\ start = midnight - ReadMargin
    BY <2>2 DEF midnight
  <2> HIDE DEF start
  <2> QED
    BY <2>3, <2>4, <2>5, InstantsAre
<1> DEFINE runs == ChargingRuns(ReadStates(start, end), end)
<1>2. OlderRead(l, end) = ByStart(FoldRuns(l.segments, runs, end, FALSE).segments)
  BY DEF OlderRead
<1> HIDE DEF start
<1>3. runs \in Seq(Stretches(f))
  <2>1. ReadStates(start, end) \in Seq(RecordedStates) /\ Ordered(ReadStates(start, end), end)
    BY <1>1, ReadIsStates
  <2> QED
    BY <2>1, RunsAreStretches
<1> HIDE DEF runs
<1>4. l.segments \in Seq(Segments(f))
  BY DEF Ledgers
<1>5. FoldRuns(l.segments, runs, end, FALSE) \in Folds(f)
  BY <1>3, <1>4, FoldKeeps
<1> QED
  BY <1>2, <1>5, SortKeeps DEF Folds

LEMMA LiveReadFolds ==
  ASSUME Recorded, NEW f, NEW l \in Ledgers(f), l.liveSince \in Instants, NEW time \in Instants,
         f = "no" => Max(DOMAIN power) <= time /\ l.cursor <= time /\ l.liveSince <= time
  PROVE  LET runs == ChargingRuns(WithLive(ReadStates(ReadStart(l), time)), time)
         IN ByStart(Closed(FoldRuns(l.segments, runs, time, TRUE))) \in Seq(Segments(f))
<1> DEFINE runs == ChargingRuns(WithLive(ReadStates(ReadStart(l), time)), time)
<1> DEFINE states == ReadStates(ReadStart(l), time)
<1>1. states \in Seq(RecordedStates) /\ (f = "no" => Ordered(states, time))
  <2>1. ReadStart(l) \in Int /\ ReadStart(l) <= LastInstant /\ (f = "no" => ReadStart(l) <= time)
    BY ReadStartIs
  <2> QED
    BY <2>1, ReadIsStates
<1> HIDE DEF states
<1>5. WithLive(states) \in Seq(RecordedStates) /\ (f = "no" => Ordered(WithLive(states), time))
  BY <1>1, LiveIsAState
<1>2. runs \in Seq(Stretches(f))
  BY <1>5, RunsAreStretches DEF states
<1> HIDE DEF runs
<1>3. l.segments \in Seq(Segments(f))
  BY DEF Ledgers
<1>4. FoldRuns(l.segments, runs, time, TRUE) \in Folds(f)
  BY <1>2, <1>3, FoldKeeps
<1> QED
  BY <1>4, ClosedKeeps, SortKeeps DEF runs

(* The task at the lock that is to read was begun no later than any other: a  *)
(* ledger it seeds begins behind them all.                                    *)
LEMMA SeedingDates ==
  ASSUME LedgerInv, MeasuredInv, NEW p \in LedgerTasks, HoldsLock(p), doing[p] = "reading"
  PROVE  /\ Seeded(asOf[p]).liveSince <= instant /\ Seeded(asOf[p]).before <= instant
         /\ Seeded(asOf[p]).liveSince <= asOf[p] /\ Seeded(asOf[p]).cursor <= asOf[p]
         /\ \A q \in LedgerTasks : doing[q] = "reading" => Seeded(asOf[p]).liveSince <= asOf[q]
<1> DEFINE l == Seeded(asOf[p])
<1>1. /\ asOf[p] \in Instants /\ asOf[p] <= instant /\ instant \in Int /\ ledger.cursor <= asOf[p]
      /\ \A q \in LedgerTasks : asOf[q] \in Int
  BY InstantsAre DEF MeasuredInv, Recorded, LedgerInv
<1>2. /\ l.liveSince \in Int /\ l.before \in Int /\ l.cursor = ledger.cursor
      /\ \/ l.liveSince = ledger.liveSince /\ l.before = ledger.before
         \/ l.liveSince <= asOf[p] /\ l.before <= asOf[p]
  <2>1. ledger \in Ledgers(phantom) /\ Begun(ledger)
    BY DEF MeasuredInv
  <2>2. l \in Ledgers(phantom)
    BY <1>1, <2>1, SeededIs
  <2>3. l.liveSince \in Int /\ l.before \in Int
    BY <2>2, InstantsAre DEF Ledgers
  <2> QED
    BY <1>1, <2>1, <2>3, SeededIs
<1> HIDE DEF l
<1>3. queue[1] = p /\ 1 \in 1..Len(queue)
  BY DEF HoldsLock, LedgerInv, QueueStands
<1>4. ASSUME NEW q \in LedgerTasks, doing[q] = "reading" PROVE asOf[p] <= asOf[q] /\ ledger.liveSince <= asOf[q]
  <2>1. PICK j \in 1..Len(queue) : queue[j] = q
    BY <1>4 DEF LedgerInv, QueueStands
  <2>2. ledger.liveSince <= asOf[q]
    BY <1>4 DEF MeasuredInv, Dated
  <2>3. CASE q = p
    BY <1>1, <2>2, <2>3
  <2>4. CASE q # p
    <3>1. 1 < j
      BY <1>3, <2>1, <2>4
    <3> QED
      BY <1>3, <1>4, <2>1, <2>2, <3>1 DEF LedgerInv, QueueStands
  <2> QED
    BY <2>3, <2>4
<1>5. ledger.liveSince <= instant /\ ledger.before <= instant /\ ledger.liveSince <= asOf[p]
  BY DEF MeasuredInv, Dated
<1>6. ASSUME NEW q \in LedgerTasks, doing[q] = "reading" PROVE l.liveSince <= asOf[q]
  <2>1. asOf[p] <= asOf[q] /\ ledger.liveSince <= asOf[q] /\ asOf[q] \in Int /\ asOf[p] \in Int
    BY <1>1, <1>4, <1>6
  <2> QED
    BY <1>2, <2>1
<1>7. l.liveSince <= instant /\ l.before <= instant /\ l.liveSince <= asOf[p] /\ l.cursor <= asOf[p]
  <2>1. asOf[p] \in Int
    BY <1>1
  <2> QED
    BY <1>1, <1>2, <1>5, <2>1
<1> QED
  BY <1>6, <1>7 DEF l

(* The lock is let go of, with the ledger as the task leaves it.             *)
LEMMA LettingGoMeasures ==
  ASSUME MeasuredInv, NEW p \in LedgerTasks, LetsGo(p), UNCHANGED <<instant, power, stored, phantom>>,
         ledger' \in Ledgers(phantom), Begun(ledger'), {told', missed'} \subseteq {"yes", "no"},
         ledger'.liveSince <= instant, ledger'.before <= instant,
         \A q \in LedgerTasks : doing[q] = "reading" => ledger'.liveSince <= asOf[q],
         p # "tick" => (ledger.before # Never => ledger'.before = ledger.before)
  PROVE  MeasuredInv'
<1>1. PICK w \in TaskPlaces \ {"backfilling", "dating"}, x \in {instant, SetUp} :
        /\ doing' = [doing EXCEPT ![p] = w] /\ asOf' = [asOf EXCEPT ![p] = x]
        /\ w = "reading" => x = instant
  BY DEF LetsGo, TaskPlaces
<1>2. x \in 0..instant /\ instant' = instant
  BY InstantsAre DEF MeasuredInv, Recorded
<1>3. doing' \in [LedgerTasks -> TaskPlaces] /\ asOf' \in [LedgerTasks -> 0..instant']
  BY <1>1, <1>2 DEF MeasuredInv
<1>4. doing'["tick"] \in {"backfilling", "dating"} =>
        p # "tick" /\ doing'["tick"] = doing["tick"] /\ ledger.before # Never
  BY <1>1 DEF MeasuredInv, LedgerTasks
<1>5. /\ Recorded' /\ SetUp <= instant' /\ unsaved' \in BOOLEAN /\ phantom' \in {"yes", "no"}
      /\ stored' \in Ledgers(phantom') /\ Begun(stored)' /\ ledger' \in Ledgers(phantom')
  BY DEF MeasuredInv, Recorded, LetsGo, Begun
<1>6. Dated'
  <2>1. \A q \in LedgerTasks : doing'[q] = "reading" => asOf'[q] = instant \/ (doing[q] = "reading" /\ asOf'[q] = asOf[q])
    BY <1>1 DEF MeasuredInv
  <2>2. \A q \in LedgerTasks : doing'[q] = "reading" => ledger'.liveSince <= asOf'[q]
    BY <2>1
  <2>3. stored'.liveSince <= instant /\ stored'.before <= instant
    BY DEF MeasuredInv, Dated
  <2> QED
    BY <1>2, <2>2, <2>3 DEF Dated
<1> QED
  BY <1>3, <1>4, <1>5, <1>6 DEF MeasuredInv, Begun

(* Each step of the tasks, the charger and the set-up.                       *)
LEMMA LiveReadMeasures ==
  ASSUME LedgerInv, MeasuredInv, NEW p \in LedgerTasks, LiveRead(p)
  PROVE  MeasuredInv' /\ (phantom' # phantom => asOf[p] < Max(DOMAIN power))
<1> DEFINE l == Seeded(asOf[p])
           runs == ChargingRuns(WithLive(ReadStates(ReadStart(l), asOf[p])), asOf[p])
           segments == ByStart(Closed(FoldRuns(l.segments, runs, asOf[p], TRUE)))
<1>1. /\ HoldsLock(p) /\ doing[p] = "reading" /\ UNCHANGED <<instant, power, stored, unsaved, asOf>>
      /\ ledger' = [l EXCEPT !.segments = segments, !.cursor = asOf[p]]
      /\ doing' = [doing EXCEPT ![p] = "settling"]
      /\ told' \in {"yes", "no"} /\ missed' \in {"no", missed}
      /\ phantom' = (IF Proper(ledger') = ToSet(ledger'.segments) THEN phantom ELSE "yes")
  BY DEF LiveRead
<1>2. asOf[p] \in Instants
  BY InstantsAre DEF MeasuredInv, Recorded
<1>3. /\ l \in Ledgers(phantom) /\ Begun(l) /\ l.liveSince \in Instants
      /\ ledger.before # Never => l.before = ledger.before
  BY <1>2, SeededIs DEF MeasuredInv
<1>7. /\ l.liveSince <= instant /\ l.before <= instant /\ l.liveSince <= asOf[p] /\ l.cursor <= asOf[p]
      /\ \A q \in LedgerTasks : doing[q] = "reading" => l.liveSince <= asOf[q]
  BY <1>1, SeedingDates
<1> HIDE DEF l
<1>8. l \in Ledgers("yes") /\ Recorded
  BY <1>3, LateOrNot DEF MeasuredInv
<1>4. segments \in Seq(Segments("yes"))
  BY <1>2, <1>3, <1>8, LiveReadFolds
<1>9. phantom = "no" /\ Max(DOMAIN power) <= asOf[p] => segments \in Seq(Segments("no"))
  BY <1>2, <1>3, <1>7, <1>8, LiveReadFolds
<1> HIDE DEF segments
<1>10. ledger'.segments = segments
  BY <1>1, <1>3 DEF Ledgers
<1>11. phantom' = "no" => segments \in Seq(Segments("no"))
  <2> SUFFICES ASSUME phantom' = "no" PROVE segments \in Seq(Segments("no"))
    OBVIOUS
  <2>1. Proper(ledger') = ToSet(segments)
    BY <1>1, <1>10
  <2>2. segments \in [1..Len(segments) -> Segments("yes")] /\ Len(segments) \in Nat
    BY <1>4, Sequenced
  <2>3. ASSUME NEW i \in 1..Len(segments) PROVE segments[i] \in Segments("no")
    <3>1. segments[i] \in ToSet(segments) /\ segments[i] \in Segments("yes")
      BY <2>2 DEF ToSet
    <3>2. segments[i].start <= segments[i].end
      BY <2>1, <3>1 DEF Proper
    <3> QED
      BY <3>1, <3>2 DEF Segments
  <2>4. segments \in [1..Len(segments) -> Segments("no")]
    BY <2>2, <2>3
  <2> QED
    BY <2>2, <2>4, Sequenced
<1>12. phantom \in {"yes", "no"} /\ phantom' \in {"yes", "no"} /\ (phantom' = "no" => phantom = "no")
  BY <1>1 DEF MeasuredInv
<1>13. segments \in Seq(Segments(phantom'))
  BY <1>4, <1>11, <1>12
<1>14. l \in Ledgers(phantom') /\ stored' \in Ledgers(phantom')
  <2>1. l \in Ledgers("yes") /\ stored \in Ledgers(phantom) /\ stored \in Ledgers("yes") /\ stored' = stored
    BY <1>1, <1>8, LateOrNot DEF MeasuredInv
  <2>2. phantom' = "yes" \/ phantom' = phantom
    BY <1>12
  <2> QED
    BY <1>3, <2>1, <2>2
<1>15. phantom' # phantom => asOf[p] < Max(DOMAIN power)
  <2> SUFFICES ASSUME phantom' # phantom, Max(DOMAIN power) <= asOf[p] PROVE FALSE
    <3>1. asOf[p] \in Int
      BY <1>2, InstantsAre
    <3>2. Max(DOMAIN power) \in Int
      <4>1. DOMAIN power \in SUBSET (0..instant) /\ instant \in Nat /\ DOMAIN power # {}
        BY <1>8, InstantsAre DEF Recorded
      <4>2. Max(DOMAIN power) \in DOMAIN power
        BY <4>1, GreatestOf
      <4> QED
        BY <4>1, <4>2
    <3> QED
      BY <3>1, <3>2
  <2>1. phantom = "no" /\ Proper(ledger') # ToSet(segments)
    BY <1>1, <1>10, <1>12
  <2>2. segments \in [1..Len(segments) -> Segments("no")]
    BY <1>9, <2>1, Sequenced
  <2>3. \A s \in ToSet(segments) : s.start <= s.end
    BY <2>2 DEF ToSet, Segments
  <2> QED
    BY <1>10, <2>1, <2>3 DEF Proper
<1>5. ledger' \in Ledgers(phantom') /\ Begun(ledger') /\ ledger'.before = l.before /\ ledger'.liveSince = l.liveSince
  BY <1>1, <1>2, <1>3, <1>13, <1>14 DEF Ledgers, Begun
<1>6. doing' \in [LedgerTasks -> TaskPlaces] /\ (doing'["tick"] = doing["tick"] \/ doing'["tick"] = "settling")
  BY <1>1 DEF MeasuredInv, LedgerTasks, TaskPlaces
<1>16. Dated'
  <2>1. \A q \in LedgerTasks : doing'[q] = "reading" => doing[q] = "reading" /\ asOf'[q] = asOf[q]
    BY <1>1 DEF MeasuredInv
  <2>2. stored.liveSince <= instant /\ stored.before <= instant
    BY DEF MeasuredInv, Dated
  <2> QED
    BY <1>1, <1>5, <1>7, <2>1, <2>2 DEF Dated
<1>17. MeasuredInv'
  BY <1>1, <1>3, <1>5, <1>6, <1>12, <1>14, <1>16 DEF MeasuredInv, Recorded, Begun
<1> QED
  BY <1>15, <1>17

LEMMA TasksMeasure ==
  ASSUME LedgerInv, MeasuredInv, NEW p \in LedgerTasks,
         LiveReadFails(p) \/ MeterRead(p) \/ MeterReadFails(p) \/ Called(p)
  PROVE  MeasuredInv'
<1>1. /\ ledger \in Ledgers(phantom) /\ Begun(ledger) /\ asOf[p] \in Instants
      /\ {told, missed} \subseteq {"yes", "no"} /\ ledger.liveSince <= instant /\ ledger.before <= instant
      /\ \A q \in LedgerTasks : doing[q] = "reading" => ledger.liveSince <= asOf[q]
  BY InstantsAre DEF MeasuredInv, Recorded, Dated
<1>2. CASE LiveReadFails(p)
  <2>1. /\ ledger' = Seeded(asOf[p]) /\ missed' = "yes" /\ LetsGo(p)
        /\ UNCHANGED <<instant, power, stored, told, phantom>> /\ HoldsLock(p) /\ doing[p] = "reading"
    BY <1>2 DEF LiveReadFails
  <2>2. /\ ledger' \in Ledgers(phantom) /\ Begun(ledger')
        /\ ledger.before # Never => ledger'.before = ledger.before
    BY <1>1, <2>1, SeededIs
  <2>3. /\ ledger'.liveSince <= instant /\ ledger'.before <= instant
        /\ \A q \in LedgerTasks : doing[q] = "reading" => ledger'.liveSince <= asOf[q]
    BY <2>1, SeedingDates
  <2> QED
    BY <1>1, <2>1, <2>2, <2>3, LettingGoMeasures
<1>3. CASE MeterRead(p)
  <2>1. /\ ledger' = [ledger EXCEPT !.segments = Measured(ledger.segments, asOf[p])] /\ LetsGo(p)
        /\ UNCHANGED <<instant, power, stored, told, missed, phantom>>
    BY <1>3 DEF MeterRead
  <2>2. Measured(ledger.segments, asOf[p]) \in Seq(Segments(phantom))
    BY <1>1, MeasuredKeeps DEF Ledgers
  <2>3. /\ ledger' \in Ledgers(phantom) /\ Begun(ledger')
        /\ ledger'.before = ledger.before /\ ledger'.liveSince = ledger.liveSince
    BY <1>1, <2>1, <2>2 DEF Ledgers, Begun
  <2> QED
    BY <1>1, <2>1, <2>3, LettingGoMeasures
<1>4. CASE MeterReadFails(p)
  <2>1. LetsGo(p) /\ UNCHANGED <<instant, power, ledger, stored, told, missed, phantom>>
    BY <1>4 DEF MeterReadFails
  <2> QED
    BY <1>1, <2>1, LettingGoMeasures DEF Begun
<1>5. CASE Called(p)
  <2>1. /\ doing' = [doing EXCEPT ![p] = "reading"] /\ asOf' = [asOf EXCEPT ![p] = instant]
        /\ UNCHANGED <<instant, power, ledger, stored, unsaved, told, missed, phantom>>
    BY <1>5 DEF Called, Begins
  <2>2. doing' \in [LedgerTasks -> TaskPlaces] /\ (doing'["tick"] = doing["tick"] \/ doing'["tick"] = "reading")
    BY <2>1 DEF MeasuredInv, LedgerTasks, TaskPlaces
  <2>3. asOf' \in [LedgerTasks -> 0..instant']
    BY <2>1, InstantsAre DEF MeasuredInv, Recorded
  <2>4. Dated'
    <3>1. \A q \in LedgerTasks : doing'[q] = "reading" => asOf'[q] = instant \/ (doing[q] = "reading" /\ asOf'[q] = asOf[q])
      BY <2>1 DEF MeasuredInv
    <3> QED
      BY <1>1, <2>1, <3>1 DEF Dated, MeasuredInv
  <2> QED
    BY <2>1, <2>2, <2>3, <2>4 DEF MeasuredInv, Recorded, Begun
<1> QED
  BY <1>2, <1>3, <1>4, <1>5

LEMMA CrossingMeasures ==
  ASSUME MeasuredInv, PowerCrosses
  PROVE  MeasuredInv'
<1>1. /\ UNCHANGED <<instant, ledger, stored, unsaved, missed, phantom>> /\ told' = "no" /\ Heard
      /\ instant \in Instants /\ DOMAIN power \subseteq 0..instant
  BY DEF PowerCrosses, MeasuredInv, Recorded
<1>2. Recorded'
  <2>1. PICK is \in Powers : power' = Became(is, instant)
    BY DEF PowerCrosses, Powers
  <2>2. DOMAIN power' = {instant} \cup DOMAIN power
    BY <2>1 DEF Became
  <2>3. power' \in [{instant} \cup DOMAIN power -> Powers]
    BY <2>1 DEF Became, MeasuredInv, Recorded
  <2> QED
    BY <1>1, <2>2, <2>3, InstantsAre DEF Recorded
<1>3. /\ doing' \in [LedgerTasks -> TaskPlaces] /\ asOf' \in [LedgerTasks -> 0..instant']
      /\ doing'["tick"] = doing["tick"]
  <2>1. CASE doing["change"] = "idle"
    <3>1. doing' = [doing EXCEPT !["change"] = "reading"] /\ asOf' = [asOf EXCEPT !["change"] = instant]
      BY <1>1, <2>1 DEF Heard, Begins
    <3>2. instant \in 0..instant
      BY <1>1, InstantsAre
    <3> QED
      BY <1>1, <3>1, <3>2 DEF MeasuredInv, LedgerTasks, TaskPlaces
  <2>2. CASE doing["change"] # "idle"
    BY <1>1, <2>2 DEF Heard, MeasuredInv
  <2> QED
    BY <2>1, <2>2
<1>4. Dated'
  <2>1. \A q \in LedgerTasks : doing'[q] = "reading" => asOf'[q] = instant \/ (doing[q] = "reading" /\ asOf'[q] = asOf[q])
    <3>1. CASE doing["change"] = "idle"
      <4>1. doing' = [doing EXCEPT !["change"] = "reading"] /\ asOf' = [asOf EXCEPT !["change"] = instant]
        BY <1>1, <3>1 DEF Heard, Begins
      <4> QED
        BY <4>1 DEF MeasuredInv
    <3>2. CASE doing["change"] # "idle"
      BY <1>1, <3>2 DEF Heard
    <3> QED
      BY <3>1, <3>2
  <2> QED
    BY <1>1, <2>1 DEF Dated, MeasuredInv
<1> QED
  BY <1>1, <1>2, <1>3, <1>4 DEF MeasuredInv, Begun

LEMMA OlderDaysMeasure ==
  ASSUME MeasuredInv, Backfill \/ NoOlderDay \/ BackfillDay \/ BackfillMeasured \/ BackfillFails
  PROVE  MeasuredInv'
<1>1. /\ "tick" \in LedgerTasks /\ ledger \in Ledgers(phantom) /\ Begun(ledger) /\ instant \in Instants
      /\ DOMAIN power \subseteq 0..instant /\ DOMAIN power # {}
      /\ doing \in [LedgerTasks -> TaskPlaces] /\ asOf \in [LedgerTasks -> 0..instant]
      /\ {told, missed} \subseteq {"yes", "no"} /\ ledger.liveSince <= instant /\ ledger.before <= instant
      /\ \A q \in LedgerTasks : doing[q] = "reading" => ledger.liveSince <= asOf[q]
  BY DEF MeasuredInv, Recorded, LedgerTasks, Dated
<1>2. CASE Backfill
  <2>1. /\ UNCHANGED <<instant, power, ledger, stored, unsaved, asOf, told, missed, phantom>>
        /\ \/ doing' = [doing EXCEPT !["tick"] = "idle"]
           \/ ledger.before # Never /\ doing' = [doing EXCEPT !["tick"] = "backfilling"]
    BY <1>2 DEF Backfill
  <2>2. /\ doing' \in [LedgerTasks -> TaskPlaces]
        /\ doing'["tick"] = "idle" \/ (doing'["tick"] = "backfilling" /\ ledger.before # Never)
    BY <1>1, <2>1 DEF TaskPlaces
  <2>3. Dated'
    <3>1. \A q \in LedgerTasks : doing'[q] = "reading" => doing[q] = "reading" /\ asOf'[q] = asOf[q]
      BY <1>1, <2>1
    <3> QED
      BY <1>1, <2>1, <3>1 DEF Dated, MeasuredInv
  <2> QED
    BY <2>1, <2>2, <2>3 DEF MeasuredInv, Recorded, Begun
<1>3. CASE NoOlderDay
  <2>1. /\ LetsGo("tick") /\ ledger' = [ledger EXCEPT !.done = TRUE]
        /\ UNCHANGED <<instant, power, stored, told, missed, phantom>>
    BY <1>3 DEF NoOlderDay
  <2>2. /\ ledger' \in Ledgers(phantom) /\ Begun(ledger')
        /\ ledger'.before = ledger.before /\ ledger'.liveSince = ledger.liveSince
    BY <1>1, <2>1 DEF Ledgers, Begun
  <2> QED
    BY <1>1, <2>1, <2>2, LettingGoMeasures
<1>4. CASE BackfillDay
  <2> DEFINE end == Min({instant, ledger.before + ReadMargin})
  <2>1. /\ doing["tick"] = "backfilling" /\ DayToRead >= MidnightOf(Min(DOMAIN power))
        /\ ledger' = [ledger EXCEPT !.segments = OlderRead(ledger, end)]
        /\ doing' = [doing EXCEPT !["tick"] = "dating"] /\ asOf' = [asOf EXCEPT !["tick"] = instant]
        /\ told' \in {"no", told} /\ UNCHANGED <<instant, power, stored, unsaved, missed, phantom>>
    BY <1>4 DEF BackfillDay
  <2>2. ledger.before \in Instants
    BY <1>1, <2>1 DEF MeasuredInv, Ledgers
  <2>3. end \in Instants /\ (end = instant \/ end = ledger.before + ReadMargin)
    <3>1. {instant, ledger.before + ReadMargin} \in SUBSET Nat
      BY <1>1, <2>2, InstantsAre DEF ReadMargin
    <3>2. PICK x \in {instant, ledger.before + ReadMargin} :
            \A y \in {instant, ledger.before + ReadMargin} : x <= y
      BY <3>1, LeastOf
    <3>3. end \in {instant, ledger.before + ReadMargin}
          /\ \A y \in {instant, ledger.before + ReadMargin} : end <= y
      BY <3>2 DEF Min
    <3> HIDE DEF end
    <3>4. end <= instant /\ end \in Nat
      BY <3>1, <3>3
    <3> QED
      BY <1>1, <3>3, <3>4, InstantsAre
  <2> HIDE DEF end
  <2>4. OlderRead(ledger, end) \in Seq(Segments(phantom))
    BY <1>1, <2>2, <2>3, OlderReadKeeps DEF MeasuredInv
  <2>5. /\ ledger' \in Ledgers(phantom) /\ Begun(ledger')
        /\ ledger'.before = ledger.before /\ ledger'.liveSince = ledger.liveSince
    BY <1>1, <2>1, <2>4 DEF Ledgers, Begun
  <2>6. MidnightOf(ledger.before - 1) >= 0
    <3>1. Min(DOMAIN power) \in DOMAIN power
      <4>1. DOMAIN power \in SUBSET Nat
        BY <1>1, InstantsAre
      <4>2. PICK x \in DOMAIN power : \A y \in DOMAIN power : x <= y
        BY <1>1, <4>1, LeastOf
      <4> QED
        BY <4>2 DEF Min
    <3>2. Min(DOMAIN power) \in Instants
      BY <1>1, <3>1, InstantsAre
    <3>3. MidnightOf(Min(DOMAIN power)) \in Instants
      BY <3>2, InstantsAre, MidnightIs
    <3>4. MidnightOf(ledger.before - 1) \in Int
      BY <2>2, InstantsAre, MidnightIs
    <3> QED
      BY <2>1, <3>3, <3>4, InstantsAre DEF DayToRead
  <2>7. doing' \in [LedgerTasks -> TaskPlaces] /\ asOf' \in [LedgerTasks -> 0..instant'] /\ ledger.before # Never
    <3>1. instant \in 0..instant /\ ledger.before # Never
      BY <1>1, <2>2, InstantsAre
    <3> QED
      BY <1>1, <2>1, <3>1 DEF TaskPlaces
  <2>8. Dated'
    <3>1. \A q \in LedgerTasks : doing'[q] = "reading" => doing[q] = "reading" /\ asOf'[q] = asOf[q]
      BY <1>1, <2>1
    <3> QED
      BY <1>1, <2>5, <2>1, <3>1 DEF Dated, MeasuredInv
  <2> QED
    BY <2>1, <2>5, <2>6, <2>7, <2>8 DEF MeasuredInv, Recorded, Begun
<1>5. CASE BackfillMeasured
  <2>1. /\ doing["tick"] = "dating" /\ LetsGo("tick") /\ UNCHANGED <<instant, power, stored, told, missed, phantom>>
        /\ ledger' = [ledger EXCEPT !.segments = Measured(ledger.segments, asOf["tick"]), !.before = DayToRead]
    BY <1>5 DEF BackfillMeasured
  <2>2. ledger.before \in Instants /\ MidnightOf(ledger.before - 1) >= 0
    BY <1>1, <2>1 DEF MeasuredInv, Ledgers
  <2>3. DayToRead \in Instants /\ DayToRead <= instant
    <3>1. ledger.before - 1 \in Int
      BY <2>2, InstantsAre
    <3>2. MidnightOf(ledger.before - 1) \in Int /\ MidnightOf(ledger.before - 1) <= ledger.before - 1
      BY <3>1, MidnightIs
    <3> DEFINE day == MidnightOf(ledger.before - 1)
    <3>3. day \in Int /\ day <= ledger.before - 1 /\ day >= 0 /\ DayToRead = day
      BY <2>2, <3>2 DEF DayToRead
    <3> HIDE DEF day
    <3> QED
      BY <1>1, <2>2, <3>3, InstantsAre
  <2>4. asOf["tick"] \in Instants
    BY <1>1, InstantsAre
  <2>5. Measured(ledger.segments, asOf["tick"]) \in Seq(Segments(phantom))
    BY <1>1, <2>4, MeasuredKeeps DEF Ledgers
  <2>6. /\ ledger' \in Ledgers(phantom) /\ Begun(ledger')
        /\ ledger'.before = DayToRead /\ ledger'.liveSince = ledger.liveSince
    <3>1. ledger.liveSince # Never
      BY <1>1, <2>2, InstantsAre DEF Begun
    <3> QED
      BY <1>1, <2>1, <2>3, <2>5, <3>1 DEF Ledgers, Begun
  <2> QED
    BY <1>1, <2>1, <2>3, <2>6, LettingGoMeasures
<1>6. CASE BackfillFails
  <2>1. /\ doing' = [doing EXCEPT !["tick"] = "idle"] /\ asOf' = [asOf EXCEPT !["tick"] = SetUp]
        /\ unsaved' = TRUE /\ UNCHANGED <<instant, power, ledger, stored, told, missed, phantom>>
    BY <1>6 DEF BackfillFails
  <2>2. SetUp \in 0..instant
    BY <1>1, InstantsAre DEF MeasuredInv
  <2>3. doing' \in [LedgerTasks -> TaskPlaces] /\ asOf' \in [LedgerTasks -> 0..instant'] /\ doing'["tick"] = "idle"
    BY <1>1, <2>1, <2>2 DEF TaskPlaces
  <2>4. Dated'
    <3>1. \A q \in LedgerTasks : doing'[q] = "reading" => doing[q] = "reading" /\ asOf'[q] = asOf[q]
      BY <1>1, <2>1
    <3> QED
      BY <1>1, <2>1, <3>1 DEF Dated, MeasuredInv
  <2> QED
    BY <2>1, <2>3, <2>4 DEF MeasuredInv, Recorded, Begun
<1> QED
  BY <1>2, <1>3, <1>4, <1>5, <1>6

LEMMA SettingUpMeasures ==
  ASSUME MeasuredInv, LedgerReloads \/ LedgerCrashes
  PROVE  MeasuredInv'
<1>1. instant \in Instants /\ instant' \in Instants /\ instant <= instant' /\ SetUp <= instant
  <2>1. instant \in Instants /\ SetUp <= instant
    BY DEF MeasuredInv, Recorded
  <2> QED
    BY <2>1, InstantsAre DEF LedgerReloads, LedgerCrashes
<1>2. PICK kept \in {ledger, stored} : SetUpAgain(kept)
  BY DEF LedgerReloads, LedgerCrashes
<1>3. /\ ledger' \in Ledgers(phantom) /\ Begun(ledger') /\ stored' \in Ledgers(phantom) /\ Begun(stored')
      /\ ledger' = kept /\ stored' = kept /\ kept \in Ledgers(phantom)
  BY <1>2 DEF SetUpAgain, MeasuredInv
<1>4. Recorded'
  <2>1. CASE LedgerReloads
    BY <2>1 DEF LedgerReloads, MeasuredInv, Recorded
  <2>2. CASE LedgerCrashes
    <3>1. PICK is \in Powers : power' = Became(is, instant')
      BY <2>2 DEF LedgerCrashes, Powers
    <3>2. DOMAIN power' = {instant'} \cup DOMAIN power
      BY <3>1 DEF Became
    <3>3. power' \in [{instant'} \cup DOMAIN power -> Powers]
      BY <3>1 DEF Became, MeasuredInv, Recorded
    <3>4. DOMAIN power \subseteq 0..instant
      BY DEF MeasuredInv, Recorded
    <3>5. DOMAIN power' \subseteq 0..instant' /\ DOMAIN power' # {}
      BY <1>1, <3>2, <3>4, InstantsAre
    <3> QED
      BY <1>1, <3>2, <3>3, <3>5 DEF Recorded
  <2> QED
    BY <2>1, <2>2
<1>5. /\ doing' \in [LedgerTasks -> TaskPlaces] /\ asOf' \in [LedgerTasks -> 0..instant']
      /\ doing'["tick"] = "reading" /\ unsaved' = FALSE /\ told' = "no" /\ missed' = "yes" /\ phantom' = phantom
  <2>1. /\ doing' = [p \in LedgerTasks |-> IF p = "tick" THEN "reading" ELSE "idle"]
        /\ asOf' = [p \in LedgerTasks |-> IF p = "tick" THEN instant' ELSE SetUp]
        /\ unsaved' = FALSE /\ told' = "no" /\ missed' = "yes" /\ phantom' = phantom
    BY <1>2 DEF SetUpAgain
  <2>2. instant' \in 0..instant' /\ SetUp \in 0..instant'
    BY <1>1, InstantsAre
  <2> QED
    BY <2>1, <2>2 DEF TaskPlaces, LedgerTasks
<1>6. SetUp <= instant'
  BY <1>1, InstantsAre
<1>7. {told', missed', phantom'} \subseteq {"yes", "no"} /\ unsaved' \in BOOLEAN
  BY <1>5 DEF MeasuredInv
<1>8. Dated'
  <2>1. kept.liveSince <= instant /\ kept.before <= instant
    BY DEF MeasuredInv, Dated
  <2>2. kept.liveSince \in Int /\ kept.before \in Int /\ instant \in Int /\ instant' \in Int
    BY <1>1, <1>3, InstantsAre DEF Ledgers
  <2>3. kept.liveSince <= instant' /\ kept.before <= instant'
    BY <1>1, <2>1, <2>2
  <2>4. \A q \in LedgerTasks : doing'[q] = "reading" => asOf'[q] = instant'
    BY <1>2 DEF SetUpAgain
  <2> QED
    BY <1>3, <2>3, <2>4 DEF Dated
<1>9. ledger' \in Ledgers(phantom') /\ stored' \in Ledgers(phantom')
  BY <1>3, <1>5
<1> QED
  BY <1>3, <1>4, <1>5, <1>6, <1>7, <1>8, <1>9 DEF MeasuredInv

LEMMA MeasuringGoesOn == LedgerInv /\ MeasuredInv /\ [LedgerNext]_ledgerVars => MeasuredInv'
<1> SUFFICES ASSUME LedgerInv, MeasuredInv, [LedgerNext]_ledgerVars PROVE MeasuredInv'
  OBVIOUS
<1>1. CASE UNCHANGED ledgerVars
  BY <1>1 DEF ledgerVars, MeasuredInv, Recorded, Begun, Dated
<1>2. CASE InstantPasses
  <2>1. /\ instant < LastInstant /\ instant' = instant + 1
        /\ UNCHANGED <<power, ledger, stored, unsaved, doing, asOf, told, missed, phantom>>
    BY <1>2 DEF InstantPasses
  <2>2. Recorded' /\ SetUp <= instant'
    BY <2>1, InstantsAre DEF MeasuredInv, Recorded
  <2>3. asOf' \in [LedgerTasks -> 0..instant']
    BY <2>1, InstantsAre DEF MeasuredInv, Recorded
  <2>4. Dated'
    <3>1. \A l \in {ledger, stored} : l.liveSince \in Int /\ l.before \in Int /\ l.liveSince <= instant /\ l.before <= instant
      BY InstantsAre DEF MeasuredInv, Ledgers, Dated
    <3>2. \A l \in {ledger, stored} : l.liveSince <= instant' /\ l.before <= instant'
      BY <2>1, <3>1, InstantsAre DEF MeasuredInv, Recorded
    <3> QED
      BY <2>1, <3>2 DEF MeasuredInv, Dated
  <2> QED
    BY <2>1, <2>2, <2>3, <2>4 DEF MeasuredInv, Begun
<1>3. CASE LedgerSaved
  BY <1>3 DEF LedgerSaved, MeasuredInv, Recorded, Begun, Dated
<1>4. CASE \E p \in LedgerTasks : LiveRead(p) \/ LiveReadFails(p) \/ MeterRead(p) \/ MeterReadFails(p) \/ Called(p)
  BY <1>4, LiveReadMeasures, TasksMeasure
<1> QED
  BY <1>1, <1>2, <1>3, <1>4, CrossingMeasures, OlderDaysMeasure, SettingUpMeasures DEF LedgerNext

(* The ledger's tasks, read in any order, fail, are cancelled and repeated at *)
(* will: no change of the charge power is left for a later event, what is     *)
(* kept lies between instants that have been, and an energy that will not be  *)
(* read again is that of the segment as its bounds now are (_measure, which   *)
(* skips what is final; merge_runs and close_unseen, which reopen it).  As    *)
(* long as no live read has left one, no segment ends before it starts.       *)
THEOREM LedgerHolds == LedgerSpec => []LedgerInvariant
<1>1. LedgerInv /\ MeasuredInv => LedgerTypeOK /\ FinalIsMeasured /\ StretchesUnlessLate
  <2> SUFFICES ASSUME LedgerInv, MeasuredInv PROVE LedgerTypeOK /\ FinalIsMeasured /\ StretchesUnlessLate
    OBVIOUS
  <2>1. /\ instant \in Instants /\ DOMAIN power \subseteq 0..instant
        /\ Range(power) \subseteq {"charging", "standby", "gap"}
    BY DEF MeasuredInv, Recorded, Powers, Range
  <2>2. ASSUME NEW l \in Ledgers(phantom), NEW s \in ToSet(l.segments)
        PROVE  s \in Segments(phantom)
    <3>1. l.segments \in [1..Len(l.segments) -> Segments(phantom)]
      BY Sequenced DEF Ledgers
    <3> QED
      BY <3>1 DEF ToSet
  <2>3. ASSUME NEW l \in {ledger, stored}
        PROVE  /\ {l.cursor, l.liveSince, l.before} \subseteq Instants \cup {Never}
               /\ l.done \in BOOLEAN
               /\ \A s \in ToSet(l.segments) :
                    /\ {s.start, s.end, s.seen} \subseteq Instants
                    /\ {s.startKnown, s.endKnown, s.active, s.final} \subseteq BOOLEAN
    <3>1. l \in Ledgers(phantom)
      BY DEF MeasuredInv
    <3>2. \A s \in ToSet(l.segments) : s \in Segments(phantom)
      BY <2>2, <3>1
    <3> QED
      BY <3>1, <3>2 DEF Ledgers, Segments
  <2>4. {unsaved, changeAgain} \subseteq BOOLEAN /\ {told, missed, phantom} \subseteq {"yes", "no"}
    BY DEF LedgerInv, MeasuredInv
  <2>5. IsInjective(queue) /\ ToSet(queue) \subseteq LedgerTasks
    <3>1. queue \in Seq(LedgerTasks) /\ \A i, j \in 1..Len(queue) : queue[i] = queue[j] => i = j
      BY DEF LedgerInv, QueueStands
    <3>2. DOMAIN queue = 1..Len(queue) /\ \A i \in DOMAIN queue : queue[i] \in LedgerTasks
      BY <3>1
    <3>3. \A i, j \in DOMAIN queue : queue[i] = queue[j] => i = j
      BY <3>1, <3>2
    <3> QED
      BY <3>2, <3>3, Zenon DEF IsInjective, ToSet
  <2>6. /\ doing \in [LedgerTasks -> {"idle", "reading", "settling", "breathing", "backfilling", "dating"}]
        /\ asOf \in [LedgerTasks -> Instants]
    BY <2>1, InstantsAre DEF LedgerInv, MeasuredInv
  <2>7. FinalIsMeasured
    <3>1. ASSUME NEW s \in ToSet(ledger.segments), s.final
          PROVE  ~s.active /\ s.measured = <<s.start, s.end>>
      <4>1. s \in Segments(phantom)
        BY <2>2 DEF MeasuredInv
      <4> QED
        BY <3>1, <4>1 DEF Segments
    <3> QED
      BY <3>1 DEF FinalIsMeasured
  <2>8. StretchesUnlessLate
    <3>1. ASSUME NEW s \in ToSet(ledger.segments), phantom = "no" PROVE s.start <= s.end
      <4>1. s \in Segments(phantom)
        BY <2>2 DEF MeasuredInv
      <4> QED
        BY <3>1, <4>1 DEF Segments
    <3> QED
      BY <3>1 DEF StretchesUnlessLate, Proper
  <2>9. LedgerTypeOK
    BY <2>1, <2>3, <2>4, <2>5, <2>6 DEF LedgerTypeOK
  <2> QED
    BY <2>7, <2>8, <2>9
<1>2. LedgerSpec => [](LedgerInv /\ MeasuredInv)
  BY LedgerStarts, LedgerGoesOn, MeasuringStarts, MeasuringGoesOn, PTL DEF LedgerSpec
<1> QED
  BY <1>1, <1>2, ChangesFolded, PTL DEF LedgerInvariant

(* What leaves a segment that ends before it starts is a live read begun      *)
(* before the newest change of the power that it then saw (with_live_state    *)
(* against the task's own now, _async_reconcile), and nothing else: no fold,  *)
(* older day, failure, reload or crash does, whatever the bounds.             *)
THEOREM PhantomsHaveOneCause == LedgerSpec => PhantomsComeLate
<1>1. LedgerInv /\ MeasuredInv /\ [LedgerNext]_ledgerVars =>
        [phantom' # phantom =>
           \E p \in LedgerTasks : doing[p] = "reading" /\ asOf[p] < Max(DOMAIN power)]_ledgerVars
  <2> SUFFICES ASSUME LedgerInv, MeasuredInv, LedgerNext, phantom' # phantom
               PROVE  \E p \in LedgerTasks : doing[p] = "reading" /\ asOf[p] < Max(DOMAIN power)
    BY DEF ledgerVars
  <2>1. PICK p \in LedgerTasks : LiveRead(p)
    BY DEF LedgerNext, LiveReadFails, MeterRead, MeterReadFails, Called, Backfill, NoOlderDay, BackfillDay,
           BackfillMeasured, BackfillFails, PowerCrosses, InstantPasses, LedgerSaved, LedgerReloads,
           LedgerCrashes, SetUpAgain
  <2>2. doing[p] = "reading"
    BY <2>1 DEF LiveRead
  <2>3. asOf[p] < Max(DOMAIN power)
    BY <2>1, LiveReadMeasures, Zenon
  <2> QED
    BY <2>2, <2>3
<1>2. LedgerSpec => [](LedgerInv /\ MeasuredInv)
  BY LedgerStarts, LedgerGoesOn, MeasuringStarts, MeasuringGoesOn, PTL DEF LedgerSpec
<1> QED
  BY <1>1, <1>2, PTL DEF LedgerSpec, PhantomsComeLate
----------------------------------------------------------------------------
(* A behaviour of the run is one part's, and the others rest: what is proved  *)
(* of the switch, the automation run and the ledger by themselves holds there.*)
THEOREM PartsAreThemselves == ScheduleSpec => Spec /\ AutomationSpec /\ LedgerSpec
<1>1. ScheduleInit => Init /\ AutomationInit /\ LedgerInit
  BY DEF ScheduleInit
<1>2. [ScheduleNext]_scheduleVars => [Next]_vars /\ [AutomationNext]_automationVars /\ [LedgerNext]_ledgerVars
  BY DEF ScheduleNext, scheduleVars
<1> QED
  BY <1>1, <1>2, PTL DEF ScheduleSpec, Spec, AutomationSpec, LedgerSpec
============================================================================
