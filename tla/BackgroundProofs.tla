--------------------------- MODULE BackgroundProofs ---------------------------
(***************************************************************************)
(* What goes on beside the schedule, proved part by part.  RealityCheck:   *)
(* what the record of a plan, the plan and the check of an attempt know of *)
(* one another, and with it that nothing stale is applied that the check   *)
(* found unmet; for any number of condition groups, flips, failing runs    *)
(* and restarts.  TrainingBatch: whose outcome a click gets, and what is   *)
(* kept of what was fitted.  SlotEnergy: what a read resumes from is what  *)
(* a read of the whole day would have found, so that both answer alike.    *)
(***************************************************************************)
EXTENDS MCBackground, FiniteSetTheorems, WellFoundedInduction, SequenceTheorems, TLAPS

(* A set of numbers has a least one. *)
LEMMA LeastOf ==
  ASSUME NEW S \in SUBSET Nat, S # {}
  PROVE  /\ \E x \in S : \A y \in S : x <= y
         /\ Min(S) \in S /\ \A y \in S : Min(S) <= y
<1>1. \E x \in S : \A y \in S : ~(<<y, x>> \in OpToRel(<, Nat))
  BY WFMin, NatLessThanWellFounded
<1>2. PICK x \in S : \A y \in S : ~(y < x)
  BY <1>1 DEF OpToRel
<1>3. ASSUME NEW y \in S PROVE x <= y
  <2>1. ~(y < x) /\ x \in Nat /\ y \in Nat
    BY <1>2
  <2> QED
    BY <2>1
<1> QED
  BY <1>3 DEF Min

LEMMA MinIsMember ==
  ASSUME NEW S \in SUBSET Groups, S # {}
  PROVE  Min(S) \in Groups
<1>1. S \in SUBSET Nat
  BY RealityBounds DEF Groups
<1> QED
  BY <1>1, LeastOf

(* What Stamp makes of the groups that cover the slot. *)
LEMMA StampFacts ==
  ASSUME NEW covering \in SUBSET Groups
  PROVE  /\ Stamp(covering) \in [by : {0} \cup Groups, committed : {"yes", "no"}]
         /\ Stamp(covering).committed = "yes" => gathered # {}
<1> DEFINE open == covering \cap gathered
<1>1. CASE covering = {}
  BY <1>1 DEF Stamp
<1>2. CASE covering # {} /\ open # {}
  <2>1. Min(open) \in Groups
    BY <1>2, MinIsMember
  <2> QED
    BY <1>2, <2>1 DEF Stamp
<1>3. CASE covering # {} /\ open = {}
  <2>1. Min(covering) \in Groups
    BY <1>3, MinIsMember
  <2> QED
    BY <1>3, <2>1 DEF Stamp
<1> QED
  BY <1>1, <1>2, <1>3

-----------------------------------------------------------------------------
(* The strengthening. *)

(* A record as young as its plan, or of none; a committed action's group is *)
(* among those its record says were met.                                    *)
RecordIsOfThePlan ==
  /\ age = "fresh" => docAge = "fresh"
  /\ age # "none" /\ doc.committed = "yes" => planned # {}

(* An attempt past its check that will read a stale plan has found some     *)
(* group met, or a record of a plan that none was met for, or it raised.    *)
CheckHeld ==
  executor = "reading" /\ docAge = "stale" /\ age # "none" /\ checked = "yes" =>
    unmet # Groups \/ planned = {}

RealityInv == RealityTypeOK /\ RecordIsOfThePlan /\ CheckHeld

LEMMA RequestFacts ==
  ASSUME RealityTypeOK, Request
  PROVE  waiting' \in {"yes", "no"} /\ followUp' \in {"yes", "no"}
BY DEF RealityTypeOK, Request

(* The check, wherever it is made. *)
LEMMA CheckFacts ==
  ASSUME RealityInv, Check
  PROVE  /\ waiting' \in {"yes", "no"} /\ followUp' \in {"yes", "no"}
         /\ executor' \in {"idle", "reading"} /\ ended' \in {"none", "deferred", "applied"}
         /\ unmet' \subseteq Groups /\ checked' \in {"yes", "no"}
         /\ executor' = "reading" /\ age = "stale" /\ checked' = "yes"
              => unmet' # Groups \/ planned = {}
<1> USE DEF RealityInv, RealityTypeOK
<1>1. CASE age = "stale" /\ NeedsReplan /\ Defer
  BY <1>1, RequestFacts DEF Defer
<1>2. CASE ~(age = "stale" /\ NeedsReplan) /\ Proceed /\ checked' = "yes"
  <2>1. executor' = "reading" /\ unmet' = Groups \ met /\ UNCHANGED <<ended, waiting, followUp>>
    BY <1>2 DEF Proceed
  <2>2. ASSUME age = "stale", planned # {} PROVE unmet' # Groups
    <3>1. met # {}
      BY <1>2, <2>2 DEF NeedsReplan
    <3> QED
      BY <2>1, <3>1
  <2> QED
    BY <1>2, <2>1, <2>2
<1>3. CASE CheckRaises
  BY <1>3 DEF CheckRaises, Proceed
<1> QED
  BY <1>1, <1>2, <1>3 DEF Check

-----------------------------------------------------------------------------
LEMMA AttemptKeeps ==
  ASSUME RealityInv, Attempt \/ Read \/ Apply
  PROVE  RealityInv'
<1> USE DEF RealityInv, RealityTypeOK, RecordIsOfThePlan, CheckHeld
<1>1. CASE Attempt
  <2>1. UNCHANGED <<met, doc, planned, age, pc, gathered, broken, flips, fails, restarts, docAge>>
    BY <1>1 DEF Attempt, record, counters
  <2> QED
    BY <1>1, <2>1, CheckFacts DEF Attempt
<1>2. CASE Read
  BY <1>2 DEF Read, record, runState, counters, history
<1>3. CASE Apply
  BY <1>3 DEF Apply, record, runState, counters
<1> QED
  BY <1>1, <1>2, <1>3

LEMMA AskingKeeps ==
  ASSUME RealityInv, AskDebounced \/ AskImmediate \/ Dispatch \/ Gather \/ NextRequest
  PROVE  RealityInv'
<1> USE DEF RealityInv, RealityTypeOK, RecordIsOfThePlan, CheckHeld
<1>1. CASE AskDebounced
  BY <1>1, RequestFacts DEF AskDebounced, record, counters, history
<1>2. CASE AskImmediate
  BY <1>2 DEF AskImmediate, record, counters, history
<1>3. CASE Dispatch
  BY <1>3 DEF Dispatch, record, counters, history
<1>4. CASE Gather
  BY <1>4 DEF Gather, record, counters, history
<1>5. CASE NextRequest
  BY <1>5 DEF NextRequest, record, counters, history
<1> QED
  BY <1>1, <1>2, <1>3, <1>4, <1>5

LEMMA RunEndKeeps ==
  ASSUME RealityInv, Fail \/ Persist
  PROVE  RealityInv'
<1> USE DEF RealityInv, RealityTypeOK, RecordIsOfThePlan, CheckHeld
<1>1. CASE Fail
  BY <1>1, RealityBounds DEF Fail, record, history
<1>2. CASE Persist
  <2>1. /\ doc' \in [by : {0} \cup Groups, committed : {"yes", "no"}]
        /\ doc'.committed = "yes" => planned' # {}
    BY <1>2, StampFacts DEF Persist, Record
  <2>2. /\ waiting' \in {"yes", "no"} /\ followUp' \in {"yes", "no"}
        /\ executor' \in {"idle", "reading", "applying"} /\ ended' \in {"none", "deferred", "applied"}
        /\ unmet' \subseteq Groups /\ checked' \in {"yes", "no"}
    BY <1>2, CheckFacts DEF Persist
  <2>3. /\ docAge' = "fresh" /\ age' = "fresh" /\ planned' = gathered /\ pc' = "over"
        /\ gathered' = {}
        /\ UNCHANGED <<met, broken, flips, fails, restarts>>
    BY <1>2 DEF Persist, Record, counters
  <2> QED
    BY <2>1, <2>2, <2>3
<1> QED
  BY <1>1, <1>2

LEMMA SurroundingsKeep ==
  ASSUME RealityInv, Flip \/ WindowPasses \/ Break \/ Restart
  PROVE  RealityInv'
<1> USE DEF RealityInv, RealityTypeOK, RecordIsOfThePlan, CheckHeld
<1>1. CASE Flip
  <2>1. PICK g \in Groups :
          IF g \in met THEN met' = met \ {g} /\ UNCHANGED unmet
                       ELSE met' = met \cup {g} /\ unmet' = unmet \ {g}
    BY <1>1 DEF Flip
  <2>2. /\ met' \subseteq Groups /\ unmet' \subseteq Groups
        /\ unmet # Groups => unmet' # Groups
    BY <2>1
  <2>3. flips' \in 0..MaxFlips
    BY <1>1, RealityBounds DEF Flip
  <2> QED
    BY <1>1, <2>2, <2>3 DEF Flip, record, runState
<1>2. CASE WindowPasses
  BY <1>2 DEF WindowPasses, runState, counters
<1>3. CASE Break
  BY <1>3 DEF Break, record, counters, history
<1>4. CASE Restart
  BY <1>4, RealityBounds DEF Restart
<1> QED
  BY <1>1, <1>2, <1>3, <1>4

LEMMA RealityStepKeeps ==
  ASSUME RealityInv, [RealityNext]_realityVars
  PROVE  RealityInv'
<1>1. CASE RealityNext
  BY <1>1, AttemptKeeps, AskingKeeps, RunEndKeeps, SurroundingsKeep DEF RealityNext, Plan
<1>2. CASE UNCHANGED realityVars
  BY <1>2 DEF realityVars, record, runState, counters, history, RealityInv, RealityTypeOK,
     RecordIsOfThePlan, CheckHeld
<1> QED
  BY <1>1, <1>2

LEMMA RealityInvHolds == RealitySpec => []RealityInv
<1>1. RealityInit => RealityInv
  BY RealityBounds DEF RealityInit, RealityInv, RealityTypeOK, RecordIsOfThePlan, CheckHeld
<1> QED
  BY <1>1, RealityStepKeeps, PTL DEF RealitySpec

(* Every state is of its type. *)
THEOREM RealityTypeCorrect == RealitySpec => []RealityTypeOK
<1>1. RealityInv => RealityTypeOK
  BY DEF RealityInv
<1> QED
  BY <1>1, RealityInvHolds, PTL

(* Nothing committed by a stale plan is applied by an attempt that could    *)
(* make its check while every group's condition has been unmet from it on.  *)
THEOREM UnmetIsNotApplied == RealitySpec => UnmetNotApplied
<1>1. RealityInv /\ [RealityNext]_realityVars
        => [executor = "reading" /\ executor' = "applying" /\ doc.committed = "yes"
              /\ docAge = "stale" /\ age # "none" /\ checked = "yes" => unmet # Groups]_realityVars
  BY DEF RealityInv, RecordIsOfThePlan, CheckHeld
<1> QED
  BY <1>1, RealityInvHolds, PTL DEF RealitySpec, UnmetNotApplied

-----------------------------------------------------------------------------
(***************************************************************************)
(* TrainingBatch, proved: a click is answered with the outcome of the jobs *)
(* it asked for, and what was fitted for the live configuration is kept;   *)
(* for any number of loads, failures and clicks.                           *)
(***************************************************************************)

JobNames == {"solar", "house", "appliance"}
Flight   == [by : {"none", "refit", "nightly", "manual"}, todo : Seq(JobNames),
             at : {"start", "reading", "rebuilding"}]
Document == [Sections -> 0..LastGeneration]

(* A run in flight has a job left. *)
InFlight(r) == r \in Flight /\ Len(r.todo) <= 3 /\ (r.by # "none" <=> r.todo # <<>>)

BatchTyped ==
  /\ gen \in Generations /\ cfg \in [Generations -> Configs]
  /\ run \in [Generations -> Flight] /\ \A g \in Generations : InFlight(run[g])
  /\ mem \in [Generations -> Document] /\ disk \in Document
  /\ started \in {"yes", "no"} /\ due \in Seq(Sections)
  /\ click.gen \in 0..LastGeneration /\ ranSince \subseteq JobNames
  /\ failures \in 0..MaxFailures /\ clicks \in 0..MaxClicks

LEMMA BatchNames ==
  /\ Jobs(AllJobs) = JobNames /\ AllJobs \in Seq(JobNames) /\ Len(AllJobs) = 3
  /\ AllJobs # <<>> /\ Sections \subseteq JobNames
BY DEF Jobs, AllJobs, JobNames, Sections

(* The jobs of a sequence of them are jobs, and go one at a time. *)
LEMMA JobsOf ==
  ASSUME NEW s \in Seq(JobNames)
  PROVE  /\ Jobs(s) \subseteq JobNames
         /\ s # <<>> => Head(s) \in JobNames /\ Tail(s) \in Seq(JobNames)
                        /\ Jobs(s) \subseteq {Head(s)} \cup Jobs(Tail(s))
                        /\ Len(Tail(s)) = Len(s) - 1
<1>1. Jobs(s) \subseteq JobNames
  BY ElementOfSeq, LenProperties DEF Jobs
<1>2. ASSUME s # <<>>
      PROVE  Jobs(s) \subseteq {Head(s)} \cup Jobs(Tail(s))
  <2>1. /\ Tail(s) \in Seq(JobNames) /\ Len(Tail(s)) = Len(s) - 1 /\ Len(s) \in Nat
        /\ \A i \in 1..Len(Tail(s)) : Tail(s)[i] = s[i + 1]
        /\ DOMAIN Tail(s) = 1..Len(Tail(s)) /\ DOMAIN s = 1..Len(s)
    BY <1>2, HeadTailProperties, LenProperties
  <2>2. ASSUME NEW i \in 1..Len(s), i # 1 PROVE s[i] \in Jobs(Tail(s))
    <3>1. i - 1 \in 1..Len(Tail(s)) /\ (i - 1) + 1 = i
      BY <2>1, <2>2
    <3> QED
      BY <2>1, <3>1 DEF Jobs
  <2>3. Head(s) = s[1]
    BY <1>2
  <2> QED
    BY <2>1, <2>2, <2>3 DEF Jobs
<1> QED
  BY <1>1, <1>2, HeadTailProperties

(* What a single flight, the refits of a start, a job's end and an unload   *)
(* make of a run is one in flight, or none.                                 *)
LEMMA FlightsFly ==
  /\ InFlight(Idle)
  /\ \A r \in Flight : \A jobs \in Seq(JobNames) : \A by \in {"refit", "nightly", "manual"} :
       InFlight(r) /\ jobs # <<>> /\ Len(jobs) <= 3 => InFlight(SingleFlight(r, by, jobs))
  /\ \A r \in Flight : InFlight(r) => InFlight(AfterUnload(r))
<1>1. InFlight(Idle)
  BY EmptySeq DEF InFlight, Idle, Flight
<1> QED
  BY <1>1 DEF InFlight, SingleFlight, AfterUnload, Flight

LEMMA OneJob ==
  ASSUME NEW j \in JobNames
  PROVE  <<j>> \in Seq(JobNames) /\ <<j>> # <<>> /\ Len(<<j>>) = 1 /\ Jobs(<<j>>) = {j}
BY DEF Jobs

LEMMA RefitsFly ==
  ASSUME NEW r \in Flight, InFlight(r), NEW refits \in Seq(Sections)
  PROVE  InFlight(AfterRefits(r, refits))
<1>1. CASE refits = <<>>
  BY <1>1 DEF AfterRefits
<1>2. CASE refits # <<>>
  <2>1. Head(refits) \in JobNames
    BY <1>2, BatchNames, HeadTailProperties
  <2>2. <<Head(refits)>> \in Seq(JobNames) /\ <<Head(refits)>> # <<>> /\ Len(<<Head(refits)>>) <= 3
    BY <2>1, OneJob
  <2>3. InFlight(SingleFlight(r, "refit", <<Head(refits)>>))
    BY <2>2, FlightsFly
  <2> QED
    BY <1>2, <2>3 DEF AfterRefits
<1> QED
  BY <1>1, <1>2

LEMMA RefitsType ==
  ASSUME NEW document, NEW config
  PROVE  Refits(document, config) \in Seq(Sections)
<1> DEFINE refit(s) == IF s \in Stale(document, config) THEN <<s>> ELSE <<>>
<1>1. ASSUME NEW s \in Sections PROVE refit(s) \in Seq(Sections)
  <2>1. <<s>> \in Seq(Sections) /\ <<>> \in Seq(Sections)
    OBVIOUS
  <2> QED
    BY <2>1
<1> QED
  BY <1>1, ConcatProperties DEF Refits, Sections

LEMMA NoneLeft == ASSUME NEW s \in Seq(JobNames) PROVE s = <<>> <=> Len(s) = 0
BY EmptySeq

LEMMA JobEndsFly ==
  ASSUME NEW r \in Flight, InFlight(r), r.by # "none"
  PROVE  /\ Head(r.todo) \in JobNames /\ InFlight(AfterJob(r))
         /\ Jobs(r.todo) \subseteq {Head(r.todo)} \cup Jobs(AfterJob(r).todo)
         /\ AfterJob(r).by = r.by \/ AfterJob(r).todo = <<>>
<1>1. r.todo \in Seq(JobNames) /\ r.todo # <<>> /\ Len(r.todo) \in Nat /\ Len(r.todo) <= 3
  BY LenProperties DEF InFlight, Flight
<1>2. /\ Head(r.todo) \in JobNames
      /\ Tail(r.todo) \in Seq(JobNames) /\ Len(Tail(r.todo)) = Len(r.todo) - 1
      /\ Jobs(r.todo) \subseteq {Head(r.todo)} \cup Jobs(Tail(r.todo))
  BY <1>1, JobsOf
<1>3. CASE Len(r.todo) = 1
  <2>1. Tail(r.todo) = <<>>
    <3>1. Tail(r.todo) \in Seq(JobNames) /\ Len(Tail(r.todo)) = 0
      BY <1>2, <1>3
    <3> QED
      BY <3>1, NoneLeft
  <2>2. AfterJob(r) = Idle /\ Idle.todo = <<>>
    BY <1>3 DEF AfterJob, Idle
  <2> QED
    BY <1>2, <2>1, <2>2, FlightsFly
<1>4. CASE Len(r.todo) # 1
  <2>1. Tail(r.todo) # <<>> /\ Len(Tail(r.todo)) <= 3
    <3>1. Len(Tail(r.todo)) # 0 /\ Len(Tail(r.todo)) <= 3
      BY <1>1, <1>2, <1>4
    <3>2. Len(<<>>) = 0
      OBVIOUS
    <3> QED
      BY <3>1, <3>2
  <2>2. AfterJob(r) = [r EXCEPT !.todo = Tail(r.todo), !.at = "start"]
    BY <1>4 DEF AfterJob
  <2>3. /\ AfterJob(r) \in Flight /\ AfterJob(r).todo = Tail(r.todo) /\ AfterJob(r).by = r.by
    BY <1>2, <2>2 DEF Flight
  <2> QED
    BY <1>2, <2>1, <2>3 DEF InFlight
<1> QED
  BY <1>3, <1>4

(* The click's jobs have finished since, or the run it started has them left; *)
(* and nothing but its jobs' end ends that run.                                *)
ClickServed ==
  click # NoClick =>
    /\ click.gen \in Generations
    /\ \/ Jobs(click.jobs) \subseteq ranSince
       \/ /\ run[click.gen].by = "manual"
          /\ Jobs(click.jobs) \subseteq ranSince \cup Jobs(run[click.gen].todo)

BatchInv == BatchTyped /\ ClickServed

LEMMA BatchInit == TrainingInit => BatchInv
<1> SUFFICES ASSUME TrainingInit PROVE BatchInv
  OBVIOUS
<1>1. InFlight(Idle) /\ Idle \in Flight
  BY FlightsFly DEF InFlight
<1>2. due \in Seq(Sections)
  BY RefitsType DEF TrainingInit
<1>3. gen \in Generations /\ 1 \in Configs /\ {0, 1} \subseteq 0..LastGeneration
  BY TrainingBounds DEF TrainingInit, Generations, Configs
<1>4. disk \in Document /\ mem \in [Generations -> Document]
  BY <1>3 DEF TrainingInit, Document
<1> QED
  BY <1>1, <1>2, <1>3, <1>4, TrainingBounds
     DEF TrainingInit, BatchInv, BatchTyped, ClickServed, NoClick

(* The steps of one job. *)
LEMMA JobStepKeeps == ASSUME BatchInv, NEW g \in Generations, Step(g) PROVE BatchInv'
<1> USE TrainingBounds DEF BatchInv, BatchTyped
<1>0. run[g] \in Flight /\ InFlight(run[g])
  OBVIOUS
<1>1. CASE ReadRecorder(g)
  <2>1. run' = [run EXCEPT ![g] = [run[g] EXCEPT !.at = "reading"]]
    BY <1>1 DEF ReadRecorder
  <2>2. InFlight([run[g] EXCEPT !.at = "reading"])
    BY <1>0 DEF InFlight, Flight
  <2>3. \A h \in Generations : InFlight(run'[h]) /\ run'[h].by = run[h].by /\ run'[h].todo = run[h].todo
    BY <1>0, <2>1, <2>2 DEF Flight
  <2>4. run' \in [Generations -> Flight]
    BY <2>1, <2>2 DEF InFlight
  <2>5. ClickServed'
    BY <1>1, <2>3 DEF ReadRecorder, ClickServed
  <2> QED
    BY <1>1, <2>3, <2>4, <2>5 DEF ReadRecorder
<1>2. CASE JobSucceeds(g) \/ JobFails(g)
  <2>1. run' = [run EXCEPT ![g] = [run[g] EXCEPT !.at = "rebuilding"]]
    BY <1>2 DEF JobSucceeds, JobFails
  <2>2. InFlight([run[g] EXCEPT !.at = "rebuilding"])
    BY <1>0 DEF InFlight, Flight
  <2>3. \A h \in Generations : InFlight(run'[h]) /\ run'[h].by = run[h].by /\ run'[h].todo = run[h].todo
    BY <1>0, <2>1, <2>2 DEF Flight
  <2>4. run' \in [Generations -> Flight]
    BY <2>1, <2>2 DEF InFlight
  <2>5. mem' \in [Generations -> Document] /\ disk' \in Document
    <3>1. ASSUME NEW value \in 0..LastGeneration, Job(g) \in Sections, WriteSection(g, value)
          PROVE  mem' \in [Generations -> Document] /\ disk' \in Document
      <4>1. [mem[g] EXCEPT ![Job(g)] = value] \in Document
        BY <3>1 DEF Document
      <4>2. mem' = [mem EXCEPT ![g] = [mem[g] EXCEPT ![Job(g)] = value]]
        BY <3>1 DEF WriteSection
      <4> QED
        BY <3>1, <4>1, <4>2 DEF WriteSection
    <3>2. cfg[g] \in 0..LastGeneration /\ (Job(g) \in Sections => FailureRecord(g) \in 0..LastGeneration)
      BY DEF Configs, FailureRecord, Document
    <3>3. CASE Job(g) \in Sections
      BY <1>2, <3>1, <3>2, <3>3 DEF JobSucceeds, JobFails
    <3>4. CASE Job(g) \notin Sections
      BY <1>2, <3>4 DEF JobSucceeds, JobFails
    <3> QED
      BY <3>3, <3>4
  <2>6. UNCHANGED <<gen, cfg, started, due, click, clicks, ranSince>> /\ failures' \in 0..MaxFailures
    BY <1>2 DEF JobSucceeds, JobFails
  <2>7. ClickServed'
    BY <2>3, <2>6 DEF ClickServed
  <2> QED
    BY <2>3, <2>4, <2>5, <2>6, <2>7
<1>3. CASE JobEnds(g)
  <2>1. run[g].by # "none" /\ run' = [run EXCEPT ![g] = AfterJob(run[g])]
        /\ UNCHANGED <<gen, cfg, mem, disk, started, due, click, failures, clicks>>
    BY <1>3 DEF JobEnds, Running
  <2>2. /\ Head(run[g].todo) \in JobNames /\ InFlight(AfterJob(run[g]))
        /\ Jobs(run[g].todo) \subseteq {Head(run[g].todo)} \cup Jobs(AfterJob(run[g]).todo)
        /\ AfterJob(run[g]).by = run[g].by \/ AfterJob(run[g]).todo = <<>>
    BY <1>0, <2>1, JobEndsFly
  <2>3. run' \in [Generations -> Flight] /\ \A h \in Generations : InFlight(run'[h])
    BY <2>1, <2>2 DEF InFlight
  <2>4. ranSince' = (IF click.gen = g THEN ranSince \cup {Head(run[g].todo)} ELSE ranSince)
        /\ ranSince' \subseteq JobNames
    BY <1>3, <2>2 DEF JobEnds, Job
  <2>5. Jobs(<<>>) = {}
    BY DEF Jobs
  <2>6. ClickServed'
    <3>1. CASE click.gen = g
      BY <2>1, <2>2, <2>4, <2>5, <3>1 DEF ClickServed
    <3>2. CASE click.gen # g
      BY <2>1, <2>4, <3>2 DEF ClickServed
    <3> QED
      BY <3>1, <3>2
  <2> QED
    BY <2>1, <2>3, <2>4, <2>6
<1> QED
  BY <1>1, <1>2, <1>3 DEF Step

(* A run that a start, the timer or a click has set going, or joined. *)
LEMMA StartKeeps ==
  ASSUME BatchInv, HomeAssistantStarts \/ Nightly \/ Click
  PROVE  BatchInv'
<1> USE DEF BatchInv, BatchTyped
<1>0. run[gen] \in Flight /\ InFlight(run[gen]) /\ Jobs(<<>>) = {}
  BY DEF Jobs
<1>1. CASE HomeAssistantStarts \/ Nightly
  <2>1. PICK r : /\ run' = [run EXCEPT ![gen] = r] /\ InFlight(r)
                 /\ run[gen].by # "none" => r = run[gen]
    <3>1. CASE HomeAssistantStarts
      <4>1. InFlight(AfterRefits(run[gen], due))
        BY <1>0, RefitsFly
      <4>2. run[gen].by # "none" => AfterRefits(run[gen], due) = run[gen]
        BY DEF AfterRefits, SingleFlight
      <4> QED
        BY <3>1, <4>1, <4>2 DEF HomeAssistantStarts
    <3>2. CASE Nightly
      <4>1. InFlight(SingleFlight(run[gen], "nightly", AllJobs))
        <5>1. AllJobs \in Seq(JobNames) /\ AllJobs # <<>> /\ Len(AllJobs) <= 3
          BY BatchNames
        <5> QED
          BY <1>0, <5>1, FlightsFly
      <4>2. run[gen].by # "none" => SingleFlight(run[gen], "nightly", AllJobs) = run[gen]
        BY DEF SingleFlight
      <4> QED
        BY <3>2, <4>1, <4>2 DEF Nightly
    <3> QED
      BY <1>1, <3>1, <3>2
  <2>2. run' \in [Generations -> Flight] /\ \A g \in Generations : InFlight(run'[g])
    BY <2>1 DEF InFlight
  <2>3. UNCHANGED <<gen, cfg, mem, disk, click, failures, clicks, ranSince>>
        /\ started' \in {"yes", "no"} /\ due' \in Seq(Sections)
    BY <1>1, EmptySeq DEF HomeAssistantStarts, Nightly
  <2>4. ClickServed'
    <3>1. ASSUME click # NoClick, run[click.gen].by = "manual" PROVE run'[click.gen] = run[click.gen]
      BY <2>1, <3>1 DEF ClickServed
    <3> QED
      BY <2>3, <3>1 DEF ClickServed
  <2> QED
    BY <2>2, <2>3, <2>4
<1>2. CASE Click
  <2>1. PICK jobs \in {AllJobs} \cup {<<j>> : j \in Jobs(AllJobs)} :
          /\ run' = [run EXCEPT ![gen] = SingleFlight(run[gen], "manual", jobs)]
          /\ click' = [gen |-> gen, jobs |-> jobs]
    BY <1>2 DEF Click
  <2>2. jobs \in Seq(JobNames) /\ jobs # <<>> /\ Len(jobs) <= 3
    <3>1. CASE jobs = AllJobs
      BY <3>1, BatchNames
    <3>2. CASE jobs # AllJobs
      <4>1. PICK j \in JobNames : jobs = <<j>>
        BY <2>1, <3>2, BatchNames
      <4> QED
        BY <4>1, OneJob
    <3> QED
      BY <3>1, <3>2
  <2>3. SingleFlight(run[gen], "manual", jobs) = [by |-> "manual", todo |-> jobs, at |-> "start"]
    BY <1>2 DEF Click, Clickable, Running, SingleFlight
  <2>4. InFlight(SingleFlight(run[gen], "manual", jobs))
    BY <1>0, <2>2, FlightsFly
  <2>5. run' \in [Generations -> Flight] /\ \A g \in Generations : InFlight(run'[g])
    BY <2>1, <2>4 DEF InFlight
  <2>6. ClickServed'
    BY <2>1, <2>3, <1>2 DEF Click, ClickServed
  <2>7. click'.gen \in 0..LastGeneration
    BY <2>1 DEF Generations
  <2>8. clicks' \in 0..MaxClicks
    BY <1>2, TrainingBounds DEF Click
  <2> QED
    BY <1>2, <2>5, <2>6, <2>7, <2>8 DEF Click
<1> QED
  BY <1>1, <1>2

(* A load of the entry, whatever becomes of the runs before it. *)
LEMMA LoadTyped ==
  ASSUME BatchTyped, NEW config \in Configs, NEW runs \in [Generations -> Flight],
         \A g \in Generations : InFlight(runs[g]), NEW startedNow \in {"yes", "no"},
         Load(config, runs, startedNow), click' \in {click, NoClick}, ranSince' \subseteq JobNames
  PROVE  BatchTyped' /\ \A g \in Generations : g # gen' => run'[g] = runs[g]
<1> DEFINE g == gen + 1
           refits == Refits(disk, config)
<1>1. /\ g \in Generations /\ gen' = g
      /\ cfg' = [cfg EXCEPT ![g] = config] /\ mem' = [mem EXCEPT ![g] = disk]
      /\ run' = IF startedNow = "yes" THEN [runs EXCEPT ![g] = AfterRefits(runs[g], refits)] ELSE runs
      /\ due' = IF startedNow = "yes" THEN <<>> ELSE refits
      /\ started' = startedNow /\ UNCHANGED <<disk, failures, clicks>>
  BY DEF Load
<1>2. refits \in Seq(Sections)
  BY RefitsType
<1>3. InFlight(AfterRefits(runs[g], refits))
  BY <1>1, <1>2, RefitsFly
<1>4. run' \in [Generations -> Flight] /\ (\A h \in Generations : InFlight(run'[h]))
      /\ \A h \in Generations : h # g => run'[h] = runs[h]
  BY <1>1, <1>3 DEF InFlight
<1>5. due' \in Seq(Sections)
  BY <1>1, <1>2, EmptySeq
<1>6. click'.gen \in 0..LastGeneration
  BY TrainingBounds DEF BatchTyped, NoClick
<1> QED
  BY <1>1, <1>4, <1>5, <1>6 DEF BatchTyped

LEMMA LoadKeeps ==
  ASSUME BatchInv, ConfigSave \/ HomeAssistantRestarts
  PROVE  BatchInv'
<1> USE DEF BatchInv
<1>0. /\ gen \in Generations /\ cfg[gen] \in Configs /\ started \in {"yes", "no"}
      /\ run \in [Generations -> Flight] /\ \A g \in Generations : InFlight(run[g])
      /\ ranSince \subseteq JobNames /\ gen \in Nat
  BY DEF BatchTyped, Generations
<1>1. CASE ConfigSave
  <2>1. PICK config \in {cfg[gen], gen + 1} :
          Load(config, [run EXCEPT ![gen] = AfterUnload(run[gen])], started)
    BY <1>1 DEF ConfigSave
  <2> DEFINE runs == [run EXCEPT ![gen] = AfterUnload(run[gen])]
  <2>2. gen' = gen + 1 /\ gen + 1 \in Generations
    BY <2>1 DEF Load
  <2>3. config \in Configs
    BY <1>0, <2>2 DEF Configs, Generations
  <2>4. runs \in [Generations -> Flight] /\ \A g \in Generations : InFlight(runs[g])
    BY <1>0, FlightsFly DEF InFlight
  <2>5. UNCHANGED <<click, ranSince>>
    BY <1>1 DEF ConfigSave
  <2> HIDE DEF runs
  <2>6. BatchTyped' /\ \A g \in Generations : g # gen' => run'[g] = runs[g]
    BY <1>0, <2>1, <2>3, <2>4, <2>5, LoadTyped DEF runs
  <2>7. ClickServed'
    <3> SUFFICES ASSUME click # NoClick PROVE ClickServed'
      BY <2>5 DEF ClickServed
    <3>1. CASE Jobs(click.jobs) \subseteq ranSince
      BY <2>5, <3>1 DEF ClickServed
    <3>2. CASE ~(Jobs(click.jobs) \subseteq ranSince)
      <4>1. run[click.gen].by = "manual" /\ click.gen \in Generations
        BY <3>2 DEF ClickServed
      <4>2. runs[click.gen] = run[click.gen]
        BY <1>0, <4>1 DEF runs, AfterUnload
      <4>3. CASE click.gen # gen'
        BY <2>5, <2>6, <4>1, <4>2, <4>3 DEF ClickServed
      <4>4. CASE click.gen = gen'
        <5>1. AfterRefits(runs[gen + 1], Refits(disk, config)) = runs[gen + 1]
          BY <2>2, <4>1, <4>2, <4>4 DEF AfterRefits, SingleFlight
        <5>2. run'[click.gen] = run[click.gen]
          BY <2>1, <2>2, <2>4, <4>2, <4>4, <5>1 DEF Load, runs
        <5> QED
          BY <2>5, <4>1, <5>2 DEF ClickServed
      <4> QED
        BY <4>3, <4>4
    <3> QED
      BY <3>1, <3>2
  <2> QED
    BY <2>6, <2>7
<1>2. CASE HomeAssistantRestarts
  <2> DEFINE runs == [g \in Generations |-> Idle]
  <2>1. Load(cfg[gen], runs, "no") /\ click' = NoClick /\ ranSince' = {}
    BY <1>2 DEF HomeAssistantRestarts
  <2>2. runs \in [Generations -> Flight] /\ \A g \in Generations : InFlight(runs[g])
    BY FlightsFly DEF InFlight
  <2> HIDE DEF runs
  <2>3. BatchTyped'
    BY <1>0, <2>1, <2>2, LoadTyped
  <2> QED
    BY <2>1, <2>3 DEF ClickServed
<1> QED
  BY <1>1, <1>2

LEMMA BatchStep == BatchInv /\ [TrainingNext]_trainingVars => BatchInv'
<1> SUFFICES ASSUME BatchInv, [TrainingNext]_trainingVars PROVE BatchInv'
  OBVIOUS
<1>1. CASE ClickAnswered
  <2>1. mem' \in [Generations -> Document]
    BY <1>1 DEF ClickAnswered, BatchInv, BatchTyped
  <2> QED
    BY <1>1, <2>1, TrainingBounds DEF ClickAnswered, BatchInv, BatchTyped, ClickServed, NoClick
<1>2. CASE UNCHANGED trainingVars
  BY <1>2 DEF trainingVars, BatchInv, BatchTyped, ClickServed
<1> QED
  BY <1>1, <1>2, StartKeeps, JobStepKeeps, LoadKeeps DEF TrainingNext

LEMMA BatchInvHolds == TrainingSpec => []BatchInv
BY BatchInit, BatchStep, PTL DEF TrainingSpec

(* Every state is of its type; a run in flight has jobs left, and only it. *)
THEOREM TrainingTypeCorrect == TrainingSpec => []TrainingTypeOK
<1>1. BatchInv => TrainingTypeOK
  <2> SUFFICES ASSUME BatchInv PROVE TrainingTypeOK
    OBVIOUS
  <2>1. ASSUME NEW g \in Generations
        PROVE  /\ run[g].by \in {"none", "refit", "nightly", "manual"}
               /\ run[g].at \in {"start", "reading", "rebuilding"}
               /\ Len(run[g].todo) <= 3 /\ Jobs(run[g].todo) \subseteq Jobs(AllJobs)
               /\ Running(g) = (run[g].todo # <<>>)
    <3>1. run[g] \in Flight /\ InFlight(run[g])
      BY DEF BatchInv, BatchTyped
    <3>2. Jobs(run[g].todo) \subseteq JobNames
      BY <3>1, JobsOf DEF Flight
    <3> QED
      BY <3>1, <3>2, BatchNames DEF InFlight, Flight, Running
  <2>2. Jobs(due) \subseteq Sections
    BY ElementOfSeq, LenProperties DEF BatchInv, BatchTyped, Jobs
  <2> QED
    BY <2>1, <2>2, BatchNames DEF BatchInv, BatchTyped, TrainingTypeOK, Document
<1> QED
  BY <1>1, BatchInvHolds, PTL

(* A click is answered once every job it asked for has finished since, in   *)
(* the run it started.                                                       *)
THEOREM ClicksAreServed == TrainingSpec => ClickGetsItsOwnOutcome
<1>1. BatchInv /\ [TrainingNext]_trainingVars
        => [click # NoClick /\ click' = NoClick /\ gen' = gen
              => Jobs(click.jobs) \subseteq ranSince]_trainingVars
  <2> SUFFICES ASSUME BatchInv, TrainingNext, click # NoClick, click' = NoClick, gen' = gen
               PROVE  Jobs(click.jobs) \subseteq ranSince
    OBVIOUS
  <2>1. gen \in Nat
    BY DEF BatchInv, BatchTyped, Generations
  <2>2. ~HomeAssistantRestarts /\ ~ConfigSave
    BY <2>1 DEF HomeAssistantRestarts, ConfigSave, Load
  <2>3. ClickAnswered
    BY <2>2 DEF TrainingNext, Step, HomeAssistantStarts, Nightly, Click, Clickable, ReadRecorder,
       JobSucceeds, JobFails, JobEnds
  <2> QED
    BY <2>3 DEF ClickAnswered, Running, BatchInv, ClickServed
<1> QED
  BY <1>1, BatchInvHolds, PTL DEF TrainingSpec, ClickGetsItsOwnOutcome

(* What answers the live configuration is not replaced by what does not,     *)
(* while only the live coordinator runs.                                     *)
THEOREM WhatIsFittedIsKept == TrainingSpec => FittedIsKept
<1>1. BatchInv /\ [TrainingNext]_trainingVars
        => [gen' = gen /\ mem[gen] = disk /\ (\A g \in Generations \ {gen} : ~Running(g)) =>
              \A s \in Sections : disk[s] = cfg[gen] => disk'[s] = cfg[gen]]_trainingVars
  <2> SUFFICES ASSUME BatchInv, TrainingNext, gen' = gen, mem[gen] = disk,
                      \A g \in Generations \ {gen} : ~Running(g),
                      NEW s \in Sections, disk[s] = cfg[gen]
               PROVE  disk'[s] = cfg[gen]
    BY DEF FittedIsKept
  <2>1. CASE \E g \in Generations : JobSucceeds(g) \/ JobFails(g)
    <3>1. PICK g \in Generations : JobSucceeds(g) \/ JobFails(g)
      BY <2>1
    <3>2. g = gen /\ mem \in [Generations -> [Sections -> 0..LastGeneration]]
      BY <3>1 DEF JobSucceeds, JobFails, BatchInv, BatchTyped, Document
    <3>3. ASSUME NEW value, WriteSection(g, value), Job(g) \in Sections,
                 value \in {cfg[gen], mem[g][Job(g)]}
          PROVE  disk'[s] = cfg[gen]
      BY <3>2, <3>3 DEF WriteSection
    <3> QED
      BY <3>1, <3>2, <3>3 DEF JobSucceeds, JobFails, FailureRecord
  <2>2. CASE ~\E g \in Generations : JobSucceeds(g) \/ JobFails(g)
    <3>1. disk' = disk
      BY <2>2 DEF TrainingNext, Step, HomeAssistantStarts, Nightly, Click, ClickAnswered, ReadRecorder,
         JobEnds, ConfigSave, HomeAssistantRestarts, Load
    <3> QED
      BY <3>1
  <2> QED
    BY <2>1, <2>2
<1> QED
  BY <1>1, BatchInvHolds, PTL DEF TrainingSpec, FittedIsKept
-----------------------------------------------------------------------------
(* The day's energy. *)

LEMMA GreatestOf ==
  ASSUME NEW n \in Nat, NEW S \in SUBSET (0..n), S # {}
  PROVE  Max(S) \in S /\ \A y \in S : Max(S) >= y
<1> DEFINE back == {n - t : t \in S}
<1>1. back \in SUBSET Nat /\ back # {}
  <2>1. PICK t \in S : TRUE
    OBVIOUS
  <2>2. n - t \in back
    BY <2>1
  <2>3. ASSUME NEW u \in S PROVE n - u \in Nat
    BY <2>3
  <2> QED
    BY <2>2, <2>3
<1>2. PICK k \in back : \A other \in back : k <= other
  BY <1>1, LeastOf
<1>3. PICK x \in S : k = n - x
  OBVIOUS
<1>4. ASSUME NEW y \in S PROVE x >= y
  <2>1. n - y \in back /\ x \in Nat /\ y \in Nat
    OBVIOUS
  <2>2. k <= n - y
    BY <1>2, <2>1
  <2> QED
    BY <1>3, <2>1, <2>2
<1> QED
  BY <1>4 DEF Max

LEMMA StalenessFacts ==
  /\ SlotTicks \in Nat /\ SlotTicks > 0 /\ Rebound \in Nat /\ Rebound > 0
  /\ MaxQuiet \in Nat /\ MaxQuiet > 0 /\ LastTick \in Nat
  /\ Staleness \in Nat /\ Staleness >= Rebound /\ DayStart = Staleness
<1>1. SlotTicks \in Nat /\ SlotTicks > 0 /\ Rebound \in Nat /\ Rebound > 0
  BY TicksAssumption
<1>2. \E x \in {2 * SlotTicks, Rebound} : \A y \in {2 * SlotTicks, Rebound} : x >= y
  <2>1. CASE 2 * SlotTicks >= Rebound
    BY <1>1, <2>1
  <2>2. CASE ~(2 * SlotTicks >= Rebound)
    BY <1>1, <2>2
  <2> QED
    BY <2>1, <2>2
<1>3. Staleness \in {2 * SlotTicks, Rebound} /\ Staleness >= Rebound
  BY <1>2 DEF Staleness, Max
<1> QED
  BY <1>1, <1>3, TicksAssumption DEF DayStart

(* How a state follows from the one before. *)
Unwraps(F, rows, first) ==
  /\ DOMAIN F = -1..LastTick /\ F[-1] = first
  /\ \A t \in Ticks : F[t] = IF t \in DOMAIN rows THEN After(rows, F[t - 1], t) ELSE F[t - 1]

(* The states of the first ticks, as the recursion of Unwrapped has them. *)
Recurses(f, rows, first, n) ==
  f = [t \in -1..n |-> IF t = -1 THEN first
                       ELSE IF t \in DOMAIN rows THEN After(rows, f[t - 1], t) ELSE f[t - 1]]

LEMMA UnwrapExists == ASSUME NEW rows, NEW first PROVE \E f : Recurses(f, rows, first, LastTick)
<1> DEFINE Missing == {k \in Nat : ~\E f : Recurses(f, rows, first, k - 1)}
<1>0. LastTick \in Nat
  BY StalenessFacts
<1>1. Missing = {}
  <2> SUFFICES ASSUME Missing # {} PROVE FALSE
    OBVIOUS
  <2>1. PICK k \in Missing : \A other \in Missing : k <= other
    <3> HIDE DEF Missing
    <3>1. Missing \in SUBSET Nat
      BY DEF Missing
    <3> QED
      BY <3>1, LeastOf
  <2>2. CASE k = 0
    <3>1. -1..(0 - 1) = {-1}
      OBVIOUS
    <3>2. Recurses([t \in -1..(0 - 1) |-> first], rows, first, 0 - 1)
      BY <3>1 DEF Recurses
    <3> QED
      BY <2>2, <3>2
  <2>3. CASE k > 0
    <3>1. k - 1 \in Nat /\ k - 1 \notin Missing
      BY <2>1, <2>3
    <3>2. PICK f : Recurses(f, rows, first, k - 1 - 1)
      BY <3>1
    <3> DEFINE g == [t \in -1..(k - 1) |->
                       IF t = -1 THEN first
                       ELSE IF t \in DOMAIN rows THEN After(rows, f[t - 1], t) ELSE f[t - 1]]
    <3>3. ASSUME NEW t \in -1..(k - 1 - 1) PROVE g[t] = f[t]
      <4>1. t \in -1..(k - 1)
        OBVIOUS
      <4> QED
        BY <3>2, <4>1, Zenon DEF Recurses
    <3>4. ASSUME NEW t \in -1..(k - 1), t # -1 PROVE g[t - 1] = f[t - 1]
      <4>1. t - 1 \in -1..(k - 1 - 1)
        BY <3>4
      <4> HIDE DEF g
      <4> QED
        BY <3>3, <4>1, Zenon
    <3>5. g = [t \in -1..(k - 1) |->
                       IF t = -1 THEN first
                       ELSE IF t \in DOMAIN rows THEN After(rows, g[t - 1], t) ELSE g[t - 1]]
      <4>1. ASSUME NEW t \in -1..(k - 1)
            PROVE  (IF t = -1 THEN first
                       ELSE IF t \in DOMAIN rows THEN After(rows, f[t - 1], t) ELSE f[t - 1])
                   = (IF t = -1 THEN first
                       ELSE IF t \in DOMAIN rows THEN After(rows, g[t - 1], t) ELSE g[t - 1])
        <5> HIDE DEF g
        <5> QED
          BY <3>4, Zenon
      <4> QED
        BY <4>1, Zenon
    <3> QED
      BY <2>1, <3>5, Zenon DEF Recurses
  <2> QED
    BY <2>2, <2>3
<1>2. PICK n \in Nat : n - 1 = LastTick
  <2> USE <1>0
  <2> WITNESS LastTick + 1 \in Nat
  <2> QED
    OBVIOUS
<1> HIDE DEF Missing
<1>3. \A k \in Nat : k \notin Missing
  BY <1>1
<1>4. \A k \in Nat : \E f : Recurses(f, rows, first, k - 1)
  BY <1>3, Zenon DEF Missing
<1>5. \E f : Recurses(f, rows, first, n - 1)
  BY <1>4
<1> QED
  BY <1>2, <1>5

LEMMA UnwrapSteps ==
  ASSUME NEW rows, NEW prefix
  PROVE  Unwraps(Unwrapped(rows, prefix), rows, Resumed(prefix))
<1> DEFINE first == Resumed(prefix)
           F == Unwrapped(rows, prefix)
<1>1. F = CHOOSE f : Recurses(f, rows, first, LastTick)
  BY Zenon DEF Unwrapped, Recurses
<1>2. \E f : Recurses(f, rows, first, LastTick)
  BY UnwrapExists, Zenon
<1>3. Recurses(F, rows, first, LastTick)
  <2> HIDE DEF F
  <2> QED
    BY <1>1, <1>2
<1>4. LastTick \in Nat
  BY StalenessFacts
<1> HIDE DEF F
<1>5. DOMAIN F = -1..LastTick
  BY <1>3, Zenon DEF Recurses
<1>6. -1 \in -1..LastTick
  BY <1>4
<1>7. F[-1] = first
  BY <1>3, <1>6, Zenon DEF Recurses
<1>8. ASSUME NEW t \in Ticks
      PROVE  F[t] = IF t \in DOMAIN rows THEN After(rows, F[t - 1], t) ELSE F[t - 1]
  <2>1. t \in -1..LastTick /\ t # -1
    BY <1>4 DEF Ticks
  <2> QED
    BY <1>3, <2>1, Zenon DEF Recurses
<1> QED
  BY <1>5, <1>7, <1>8 DEF F, Unwraps

LEMMA ReachesAll ==
  ASSUME NEW m \in Int, NEW n \in Int, m >= -1, NEW Good, m \in Good,
         \A t \in m + 1..n : t - 1 \in Good => t \in Good
  PROVE  \A t \in m..n : t \in Good
<1> DEFINE Bad == {t \in m + 1..n : t \notin Good}
<1>1. Bad \in SUBSET Nat
  OBVIOUS
<1>2. CASE Bad # {}
  <2>1. PICK x \in Bad : \A y \in Bad : x <= y
    <3> HIDE DEF Bad
    <3> QED
      BY <1>1, <1>2, LeastOf
  <2>2. x - 1 \in m..n /\ x - 1 \notin Bad
    BY <2>1
  <2>3. x - 1 \in Good
    BY <2>2
  <2> QED
    BY <2>3
<1>3. CASE Bad = {}
  <2> SUFFICES ASSUME NEW t \in m..n PROVE t \in Good
    OBVIOUS
  <2>1. CASE t = m
    BY <2>1
  <2>2. CASE t # m
    <3>1. t \in m + 1..n
      BY <2>2
    <3> QED
      BY <1>3, <3>1
  <2> QED
    BY <2>1, <2>2
<1> QED
  BY <1>2, <1>3

LEMMA ValuesAreNat == \A v \in Values : v \in Nat
  BY ValuesAssumption

UnwrapState == [offset : Nat, segment : Values \cup {Nothing}, value : Nat \cup {Nothing}, at : Int]
AreRows(rows) == DOMAIN rows \subseteq Ticks /\ \A t \in DOMAIN rows : rows[t] \in Values

(* What one reading makes of a state. *)
LEMMA AfterFacts ==
  ASSUME NEW rows, AreRows(rows), NEW s \in UnwrapState, NEW t \in DOMAIN rows
  PROVE  LET a == After(rows, s, t)
         IN /\ a \in UnwrapState
            /\ a = s \/ (a.at = t /\ a.segment = rows[t] /\ a.value = a.offset + rows[t])
            /\ s.segment = Nothing \/ rows[t] >= s.segment =>
                 /\ a.at = t /\ a.segment = rows[t] /\ a.offset = s.offset
                 /\ a.value = s.offset + rows[t]
            /\ s.segment # Nothing /\ rows[t] < s.segment =>
                 IF IsReset(rows, t, s.segment)
                 THEN /\ a.at = t /\ a.segment = rows[t] /\ a.offset = s.offset + s.segment
                      /\ a.value = s.offset + s.segment + rows[t]
                 ELSE a = s
<1>1. rows[t] \in Values /\ rows[t] \in Nat /\ t \in Int /\ s.segment \in Nat \cup {-1} /\ s.offset \in Nat
  <2>1. rows[t] \in Values /\ t \in Ticks
    BY DEF AreRows
  <2>2. s.segment \in Values \cup {-1} /\ s.offset \in Nat
    BY DEF UnwrapState, Nothing
  <2> QED
    BY <2>1, <2>2, ValuesAreNat, StalenessFacts DEF Ticks
<1>2. CASE s.segment = Nothing \/ rows[t] >= s.segment
  <2>1. After(rows, s, t) = [s EXCEPT !.segment = rows[t], !.value = s.offset + rows[t], !.at = t]
    BY <1>2, <1>1 DEF After, Nothing
  <2> DEFINE a == After(rows, s, t)
  <2>2. s.offset + rows[t] \in Nat
    BY <1>1
  <2>3. /\ a.at = t /\ a.segment = rows[t] /\ a.offset = s.offset /\ a.value = s.offset + rows[t]
        /\ a \in UnwrapState
    BY <1>1, <2>1, <2>2 DEF UnwrapState
  <2> HIDE DEF a
  <2>4. ~(s.segment # Nothing /\ rows[t] < s.segment)
    BY <1>1, <1>2 DEF Nothing
  <2> QED
    BY <1>2, <2>3, <2>4 DEF a
<1>3. CASE s.segment # Nothing /\ rows[t] < s.segment /\ IsReset(rows, t, s.segment)
  <2>1. After(rows, s, t) = [offset |-> s.offset + s.segment, segment |-> rows[t],
                             value |-> s.offset + s.segment + rows[t], at |-> t]
    BY <1>3, <1>1 DEF After, Nothing
  <2> QED
    BY <1>1, <1>3, <2>1 DEF UnwrapState, Nothing
<1>4. CASE s.segment # Nothing /\ rows[t] < s.segment /\ ~IsReset(rows, t, s.segment)
  <2>1. After(rows, s, t) = s
    BY <1>4, <1>1 DEF After, Nothing
  <2> QED
    BY <1>1, <1>4, <2>1
<1> QED
  BY <1>1, <1>2, <1>3, <1>4 DEF Nothing

(* A dip leaves the state as it is. *)
LEMMA DipLeaves ==
  ASSUME NEW rows, AreRows(rows), NEW s \in UnwrapState, NEW t \in DOMAIN rows,
         s.segment # Nothing, rows[t] < s.segment, IsTransientDrop(rows, t, s.segment)
  PROVE  After(rows, s, t) = s
BY AfterFacts DEF IsReset

LEMMA UnwrapTyped ==
  ASSUME NEW rows, AreRows(rows), NEW first \in UnwrapState, NEW F, Unwraps(F, rows, first)
  PROVE  \A t \in -1..LastTick : F[t] \in UnwrapState
<1> DEFINE Good == {t \in -1..LastTick : F[t] \in UnwrapState}
<1>0. LastTick \in Nat
  BY StalenessFacts
<1>1. -1 \in Good
  BY <1>0 DEF Unwraps
<1>2. ASSUME NEW t \in -1 + 1..LastTick, t - 1 \in Good PROVE t \in Good
  <2>1. t \in Ticks /\ t \in -1..LastTick
    BY <1>0 DEF Ticks
  <2>2. F[t] = F[t - 1] \/ (t \in DOMAIN rows /\ F[t] = After(rows, F[t - 1], t))
    BY <2>1 DEF Unwraps
  <2>3. F[t - 1] \in UnwrapState
    BY <1>2
  <2>4. F[t] \in UnwrapState
    BY <2>2, <2>3, AfterFacts
  <2> QED
    BY <2>1, <2>4
<1> HIDE DEF Good
<1>3. \A t \in -1..LastTick : t \in Good
  BY <1>1, <1>2, ReachesAll, StalenessFacts
<1> QED
  BY <1>3 DEF Good

(* The state in force at a tick is the one made at its reading; every reading *)
(* since was left out.                                                        *)
InForce(F, rows, t) ==
  /\ F[t].at <= t /\ F[t].at >= -1
  /\ F[t].at # -1 => F[t].at \in DOMAIN rows
  /\ \A u \in F[t].at..t : F[u] = F[t]
  /\ F[t].segment = Nothing <=> F[t].at = -1

LEMMA UnwrapInForce ==
  ASSUME NEW rows, AreRows(rows), NEW first \in UnwrapState, NEW F, Unwraps(F, rows, first),
         first.at = -1, first.segment = Nothing
  PROVE  \A t \in -1..LastTick : InForce(F, rows, t)
<1> DEFINE Good == {t \in -1..LastTick : InForce(F, rows, t)}
<1>0. LastTick \in Nat /\ \A t \in -1..LastTick : F[t] \in UnwrapState
  BY StalenessFacts, UnwrapTyped
<1>1. -1 \in Good
  <2>1. -1 \in -1..LastTick /\ F[-1] = first
    BY <1>0 DEF Unwraps
  <2>2. \A u \in -1..-1 : u = -1
    OBVIOUS
  <2> QED
    BY <2>1, <2>2 DEF InForce
<1>2. ASSUME NEW t \in -1 + 1..LastTick, t - 1 \in Good PROVE t \in Good
  <2>1. t \in Ticks /\ t \in -1..LastTick /\ t - 1 \in -1..LastTick /\ t \in Int
    BY <1>0 DEF Ticks
  <2>2. InForce(F, rows, t - 1) /\ F[t - 1] \in UnwrapState /\ F[t] \in UnwrapState
    BY <1>0, <1>2, <2>1
  <2>3. F[t] = F[t - 1] \/ (t \in DOMAIN rows /\ F[t] = After(rows, F[t - 1], t))
    BY <2>1 DEF Unwraps
  <2>4. CASE F[t] = F[t - 1]
    <3>1. \A u \in F[t].at..t : u \in F[t - 1].at..(t - 1) \/ u = t
      BY <2>1, <2>2, <2>4 DEF UnwrapState
    <3>2. \A u \in F[t].at..t : F[u] = F[t]
      BY <2>2, <2>4, <3>1 DEF InForce
    <3>3. InForce(F, rows, t)
      BY <2>1, <2>2, <2>4, <3>2 DEF InForce, UnwrapState
    <3> QED
      BY <2>1, <3>3
  <2>5. CASE t \in DOMAIN rows /\ F[t].at = t /\ F[t].segment = rows[t]
    <3>1. \A u \in t..t : u = t
      BY <2>1
    <3>2. rows[t] \in Nat /\ t # -1 /\ t >= -1
      <4>1. rows[t] \in Values
        BY <2>5 DEF AreRows
      <4> QED
        BY <4>1, <2>1, StalenessFacts, ValuesAreNat DEF Ticks
    <3>3. InForce(F, rows, t)
      BY <2>1, <2>5, <3>1, <3>2 DEF InForce, Nothing
    <3> QED
      BY <2>1, <3>3
  <2> QED
    BY <2>2, <2>3, <2>4, <2>5, AfterFacts
<1> HIDE DEF Good
<1>3. \A t \in -1..LastTick : t \in Good
  BY <1>1, <1>2, ReachesAll, StalenessFacts
<1> QED
  BY <1>3 DEF Good

(* Two unwraps that go on from one offset and segment: at every tick their    *)
(* offsets and segments agree, and so do their values once a reading counted. *)
AlikeSince(F, G, m, t) ==
  /\ F[t].offset = G[t].offset /\ F[t].segment = G[t].segment
  /\ \/ F[t].at = G[t].at /\ F[t].value = G[t].value /\ F[t].at \in m + 1..t
     \/ /\ F[t].at = F[m].at /\ F[t].value = F[m].value
        /\ G[t].at = G[m].at /\ G[t].value = G[m].value

SameRow(rows, others, t) ==
  /\ t \in DOMAIN rows <=> t \in DOMAIN others
  /\ t \in DOMAIN rows =>
       rows[t] = others[t] /\ \A s \in Values : IsReset(rows, t, s) <=> IsReset(others, t, s)

LEMMA UnwrapsAlike ==
  ASSUME NEW rows, AreRows(rows), NEW others, AreRows(others),
         NEW first \in UnwrapState, NEW other \in UnwrapState, NEW F, NEW G,
         Unwraps(F, rows, first), Unwraps(G, others, other),
         NEW m \in -1..LastTick, NEW n \in -1..LastTick,
         F[m].offset = G[m].offset, F[m].segment = G[m].segment,
         \A t \in m + 1..n : SameRow(rows, others, t)
  PROVE  \A t \in m..n : AlikeSince(F, G, m, t)
<1> DEFINE Good == {t \in -1..LastTick : AlikeSince(F, G, m, t)}
<1>0. /\ LastTick \in Nat /\ m \in Int /\ n \in Int /\ m >= -1 /\ n <= LastTick
      /\ \A t \in -1..LastTick : F[t] \in UnwrapState /\ G[t] \in UnwrapState
  BY StalenessFacts, UnwrapTyped
<1>1. m \in Good
  BY DEF AlikeSince
<1>2. ASSUME NEW t \in m + 1..n, t - 1 \in Good PROVE t \in Good
  <2>1. /\ t \in Ticks /\ t \in -1..LastTick /\ t - 1 \in -1..LastTick /\ t \in Int /\ t >= m + 1
        /\ t - 1 \in m..(t - 1) /\ m \in Int
    BY <1>0 DEF Ticks
  <2>2. /\ AlikeSince(F, G, m, t - 1) /\ F[t - 1] \in UnwrapState /\ G[t - 1] \in UnwrapState
        /\ SameRow(rows, others, t)
    BY <1>0, <1>2, <2>1
  <2>3. CASE t \notin DOMAIN rows
    <3>1. F[t] = F[t - 1] /\ G[t] = G[t - 1]
      BY <2>1, <2>2, <2>3 DEF Unwraps, SameRow
    <3>2. AlikeSince(F, G, m, t)
      BY <2>1, <2>2, <3>1 DEF AlikeSince
    <3> QED
      BY <2>1, <3>2
  <2>4. CASE t \in DOMAIN rows
    <3>1. /\ F[t] = After(rows, F[t - 1], t) /\ G[t] = After(others, G[t - 1], t)
          /\ t \in DOMAIN others /\ rows[t] = others[t]
      BY <2>1, <2>2, <2>4 DEF Unwraps, SameRow
    <3>2. /\ F[t - 1].offset = G[t - 1].offset /\ F[t - 1].segment = G[t - 1].segment
      BY <2>2 DEF AlikeSince
    <3>3. F[t - 1].segment \in Values \cup {Nothing} /\ rows[t] \in Nat
      BY <2>2, <2>4, ValuesAreNat DEF UnwrapState, AreRows
    <3>4. \/ /\ F[t].at = t /\ G[t].at = t /\ F[t].value = G[t].value
             /\ F[t].offset = G[t].offset /\ F[t].segment = G[t].segment
          \/ F[t] = F[t - 1] /\ G[t] = G[t - 1]
      <4>1. CASE F[t - 1].segment = Nothing \/ rows[t] >= F[t - 1].segment
        BY <2>2, <2>4, <3>1, <3>2, <4>1, AfterFacts
      <4>2. CASE F[t - 1].segment # Nothing /\ rows[t] < F[t - 1].segment
        <5>1. IsReset(rows, t, F[t - 1].segment) <=> IsReset(others, t, F[t - 1].segment)
          BY <2>2, <2>4, <3>3, <4>2 DEF SameRow
        <5> QED
          BY <2>2, <2>4, <3>1, <3>2, <4>2, <5>1, AfterFacts
      <4> QED
        BY <3>3, <4>1, <4>2, ValuesAreNat
    <3>5. AlikeSince(F, G, m, t)
      BY <2>1, <2>2, <3>4 DEF AlikeSince
    <3> QED
      BY <2>1, <3>5
  <2> QED
    BY <2>3, <2>4
<1> HIDE DEF Good
<1>3. \A t \in m..n : t \in Good
  BY <1>1, <1>2, ReachesAll, <1>0
<1> QED
  BY <1>3 DEF Good

(* The meter goes quiet for MaxQuiet at most. *)
Speaks == \A t \in DOMAIN log : t + MaxQuiet < now =>
            \E u \in DOMAIN log : t < u /\ u <= t + MaxQuiet

(* No silence is longer than a dip is waited for, and no drop is within the   *)
(* tenth that counts neither as a dip nor as a reset.                         *)
Steady == MaxQuiet <= Rebound /\ \A v, w \in Values : w < v => w * 10 < v * 9

LEMMA QueriedFacts ==
  ASSUME AreRows(log), NEW prefix, NEW end
  PROVE  /\ AreRows(Queried(prefix, end))
         /\ \A t : t \in DOMAIN Queried(prefix, end) <=>
              t \in DOMAIN log /\ (prefix.through = 0 \/ t > prefix.through) /\ t < end
         /\ \A t \in DOMAIN Queried(prefix, end) : Queried(prefix, end)[t] = log[t]
BY DEF AreRows, Queried, Restrict

LEMMA WholeUnwraps ==
  ASSUME AreRows(log), NEW end
  PROVE  LET rows == Queried(NoPrefix, end)
         IN /\ AreRows(rows)
            /\ \A t : t \in DOMAIN rows <=> t \in DOMAIN log /\ t < end
            /\ \A t \in DOMAIN rows : rows[t] = log[t]
            /\ Resumed(NoPrefix) = [offset |-> 0, segment |-> Nothing, value |-> Nothing, at |-> Nothing]
            /\ Resumed(NoPrefix) \in UnwrapState
            /\ Unwraps(WholeState(end), rows, Resumed(NoPrefix))
            /\ \A t \in -1..LastTick : /\ WholeState(end)[t] \in UnwrapState
                                       /\ InForce(WholeState(end), rows, t)
<1> DEFINE rows == Queried(NoPrefix, end)
           F == WholeState(end)
<1>1. /\ AreRows(rows) /\ \A t : t \in DOMAIN rows <=> t \in DOMAIN log /\ t < end
      /\ \A t \in DOMAIN rows : rows[t] = log[t]
  BY QueriedFacts DEF NoPrefix
<1>2. Resumed(NoPrefix) = [offset |-> 0, segment |-> Nothing, value |-> Nothing, at |-> Nothing]
  <2>1. 0 \notin DOMAIN <<>>
    OBVIOUS
  <2> QED
    BY <2>1 DEF Resumed, NoPrefix
<1>3. Resumed(NoPrefix) \in UnwrapState
  BY <1>2 DEF UnwrapState, Nothing
<1>4. Unwraps(F, rows, Resumed(NoPrefix))
  BY UnwrapSteps DEF WholeState
<1> HIDE DEF F, rows
<1>5. \A t \in -1..LastTick : F[t] \in UnwrapState
  BY <1>1, <1>3, <1>4, UnwrapTyped
<1>6. \A t \in -1..LastTick : InForce(F, rows, t)
  <2>1. Resumed(NoPrefix).at = -1 /\ Resumed(NoPrefix).segment = Nothing
    BY <1>2 DEF Nothing
  <2> QED
    BY <1>1, <1>3, <1>4, <2>1, UnwrapInForce
<1> QED
  BY <1>1, <1>2, <1>3, <1>4, <1>5, <1>6 DEF F, rows

(* Behind the window a read's end leaves open, longer reads see the same resets. *)
LEMMA ResetsAreSettled ==
  ASSUME AreRows(log), Speaks, Steady, NEW end \in Nat, NEW later \in Nat,
         end <= later, later <= now, now \in Nat,
         NEW t \in Ticks, t + Rebound < end
  PROVE  SameRow(Queried(NoPrefix, end), Queried(NoPrefix, later), t)
<1> DEFINE rows == Queried(NoPrefix, end)
           others == Queried(NoPrefix, later)
<1>1. /\ \A u : u \in DOMAIN rows <=> u \in DOMAIN log /\ u < end
      /\ \A u : u \in DOMAIN others <=> u \in DOMAIN log /\ u < later
      /\ \A u \in DOMAIN rows : rows[u] = log[u]
      /\ \A u \in DOMAIN others : others[u] = log[u]
  BY WholeUnwraps
<1>2. /\ t \in Nat /\ \A u \in DOMAIN log : u \in Nat
      /\ Rebound \in Nat /\ MaxQuiet \in Nat /\ MaxQuiet <= Rebound
  BY StalenessFacts DEF Ticks, AreRows, Steady
<1> HIDE DEF rows, others
<1>3. t \in DOMAIN rows <=> t \in DOMAIN others
  BY <1>1, <1>2
<1>4. CASE t \in DOMAIN rows
  <2>1. t \in DOMAIN log /\ rows[t] = others[t]
    BY <1>1, <1>3, <1>4
  <2>2. PICK u \in DOMAIN log : t < u /\ u <= t + MaxQuiet
    <3>1. t + MaxQuiet < now
      BY <1>2
    <3> QED
      BY <2>1, <3>1 DEF Speaks
  <2>3. u \in DOMAIN rows /\ u \in DOMAIN others /\ u > t
    BY <1>1, <1>2, <2>2
  <2>4. ASSUME NEW s \in Values
        PROVE  IsTransientDrop(rows, t, s) <=> IsTransientDrop(others, t, s)
    <3>1. \A x \in DOMAIN log : x <= t + Rebound => x \in DOMAIN rows /\ x \in DOMAIN others
      BY <1>1, <1>2
    <3>2. \A x \in DOMAIN rows : x \in DOMAIN log /\ rows[x] = log[x]
      BY <1>1
    <3>3. \A x \in DOMAIN others : x \in DOMAIN log /\ others[x] = log[x]
      BY <1>1
    <3> QED
      BY <3>1, <3>2, <3>3 DEF IsTransientDrop
  <2>5. ASSUME NEW s \in Values
        PROVE  IsReset(rows, t, s) <=> IsReset(others, t, s)
    BY <2>1, <2>3, <2>4 DEF IsReset
  <2> QED
    BY <1>3, <2>1, <2>5 DEF SameRow, rows, others
<1> QED
  BY <1>3, <1>4 DEF SameRow, rows, others

LEMMA WholeIsSettled ==
  ASSUME AreRows(log), Speaks, Steady, NEW end \in Nat, NEW later \in Nat,
         end <= later, later <= now, now \in Nat, NEW n \in Ticks, n + Rebound < end
  PROVE  \A t \in -1..n : WholeState(end)[t] = WholeState(later)[t]
<1> DEFINE F == WholeState(end)
           G == WholeState(later)
<1>0. n \in -1..LastTick /\ -1 \in -1..LastTick /\ LastTick \in Nat /\ Rebound \in Nat
  BY StalenessFacts DEF Ticks
<1>1. \A t \in -1 + 1..n : SameRow(Queried(NoPrefix, end), Queried(NoPrefix, later), t)
  <2> SUFFICES ASSUME NEW t \in -1 + 1..n
               PROVE  SameRow(Queried(NoPrefix, end), Queried(NoPrefix, later), t)
    OBVIOUS
  <2>1. t \in Ticks /\ t + Rebound < end
    BY <1>0 DEF Ticks
  <2> QED
    BY <2>1, ResetsAreSettled
<1>2. /\ AreRows(Queried(NoPrefix, end)) /\ AreRows(Queried(NoPrefix, later))
      /\ Resumed(NoPrefix) \in UnwrapState
      /\ Unwraps(F, Queried(NoPrefix, end), Resumed(NoPrefix))
      /\ Unwraps(G, Queried(NoPrefix, later), Resumed(NoPrefix))
      /\ \A t \in -1..LastTick : F[t] \in UnwrapState /\ G[t] \in UnwrapState
  BY WholeUnwraps
<1> HIDE DEF F, G
<1>3. F[-1] = G[-1]
  BY <1>2 DEF Unwraps
<1>4. \A t \in -1..n : AlikeSince(F, G, -1, t)
  BY <1>0, <1>1, <1>2, <1>3, UnwrapsAlike
<1>5. ASSUME NEW t \in -1..n PROVE F[t] = G[t]
  <2>1. F[t] \in UnwrapState /\ G[t] \in UnwrapState
    BY <1>0, <1>2
  <2>2. AlikeSince(F, G, -1, t)
    BY <1>4
  <2>3. F[t].offset = G[t].offset /\ F[t].segment = G[t].segment
        /\ F[t].value = G[t].value /\ F[t].at = G[t].at
    BY <1>3, <2>2 DEF AlikeSince
  <2> QED
    BY <2>1, <2>3 DEF UnwrapState
<1> QED
  BY <1>5 DEF F, G

Counted(F, b) == {t \in b + 1..LastTick : F[t].at = t}

(* The first reading behind a tick that is back at a segment's maximum. *)
FirstBack(u, b, segment) ==
  /\ u \in DOMAIN log /\ u > b /\ log[u] >= segment
  /\ \A y \in DOMAIN log : y > b /\ log[y] >= segment => u <= y

(* Behind the window a read's end leaves open, an old carry means readings    *)
(* that were left out as a dip: the one it climbs back to is the next that    *)
(* counts, whatever is read of what follows.                                  *)
LEMMA OldCarryClimbsBack ==
  ASSUME AreRows(log), Speaks, Steady, NEW end \in Nat, end <= now, now \in Nat,
         NEW b \in Ticks, b + Rebound < end,
         WholeState(end)[b].at # Nothing, b - WholeState(end)[b].at > Staleness
  PROVE  LET F == WholeState(end)
         IN \E u : /\ FirstBack(u, b, F[b].segment) /\ Counted(F, b) # {} /\ Min(Counted(F, b)) = u
                   /\ F[u].value = F[b].offset + log[u]
<1> DEFINE F == WholeState(end)
           rows == Queried(NoPrefix, end)
           c == F[b].at
           segment == F[b].segment
<1>1. /\ AreRows(rows) /\ \A u : u \in DOMAIN rows <=> u \in DOMAIN log /\ u < end
      /\ \A u \in DOMAIN rows : rows[u] = log[u]
      /\ \A t \in -1..LastTick : F[t] \in UnwrapState /\ InForce(F, rows, t)
      /\ Unwraps(F, rows, Resumed(NoPrefix))
  BY WholeUnwraps
<1>2. /\ LastTick \in Nat /\ Rebound \in Nat /\ MaxQuiet \in Nat /\ MaxQuiet > 0 /\ Staleness \in Nat
      /\ MaxQuiet <= Rebound /\ Rebound <= Staleness
      /\ b \in 0..LastTick /\ b \in -1..LastTick /\ Ticks = 0..LastTick
  BY StalenessFacts DEF Steady, Ticks
<1>3. /\ \A u \in DOMAIN log : u \in Ticks /\ u \in Nat /\ log[u] \in Values /\ log[u] \in Nat
      /\ \A u \in DOMAIN rows : u \in DOMAIN log
  BY <1>1, <1>2, ValuesAreNat DEF AreRows
<1>4. /\ c # -1 /\ b - c > Staleness
  BY DEF Nothing
<1> HIDE DEF F, rows
<1>5. /\ F[b] \in UnwrapState /\ c \in Int /\ c >= -1 /\ c <= b /\ c \in DOMAIN rows /\ c \in Nat
      /\ \A u \in c..b : F[u] = F[b]
      /\ segment \in Values /\ segment \in Nat
  <2>1. F[b] \in UnwrapState /\ InForce(F, rows, b)
    BY <1>1, <1>2
  <2>2. segment \in Values \cup {Nothing} /\ segment # Nothing
    BY <1>4, <2>1 DEF InForce, UnwrapState
  <2>3. c \in DOMAIN rows
    BY <1>4, <2>1 DEF InForce
  <2> QED
    BY <1>1, <1>3, <2>1, <2>2, <2>3, ValuesAreNat DEF InForce, UnwrapState
\* A reading since was left out, ...
<1>6. PICK first \in DOMAIN log : c < first /\ first <= c + MaxQuiet
  <2>1. c \in DOMAIN log /\ c + MaxQuiet < now
    BY <1>1, <1>2, <1>4, <1>5
  <2> QED
    BY <2>1 DEF Speaks
<1>7. /\ first \in Nat /\ first < b /\ first < end /\ first \in DOMAIN rows /\ first - 1 \in c..b
      /\ first \in c..b /\ first + Rebound < b + Rebound
  BY <1>1, <1>2, <1>3, <1>4, <1>5, <1>6
<1>8. ASSUME NEW t \in Ticks, t \in DOMAIN rows, F[t - 1] = F[b], log[t] >= segment
      PROVE  F[t].at = t /\ F[t].value = F[b].offset + log[t]
  <2>1. F[t] = After(rows, F[b], t) /\ rows[t] = log[t]
    BY <1>1, <1>8 DEF Unwraps
  <2> QED
    BY <1>1, <1>5, <1>8, <2>1, AfterFacts
<1>9. log[first] < segment /\ ~IsReset(rows, first, segment)
  <2>1. first \in Ticks /\ F[first - 1] = F[b] /\ F[first] = F[b] /\ F[first].at # first
    BY <1>3, <1>5, <1>6, <1>7
  <2>2. log[first] < segment
    BY <1>3, <1>5, <1>7, <1>8, <2>1
  <2>3. F[first] = After(rows, F[b], first) /\ rows[first] = log[first]
    BY <1>1, <1>7, <2>1 DEF Unwraps
  <2>4. segment # Nothing
    BY <1>5 DEF Nothing
  <2> QED
    BY <1>1, <1>5, <1>7, <2>1, <2>2, <2>3, <2>4, AfterFacts
\* ... as a dip: the drop is deep enough, and not the last reading of the day.
<1>10. PICK back \in DOMAIN rows : first < back /\ back <= first + Rebound /\ log[back] >= segment
  <2>1. log[first] * 10 < segment * 9 /\ rows[first] = log[first]
    BY <1>1, <1>3, <1>5, <1>7, <1>9 DEF Steady
  <2>2. PICK next \in DOMAIN log : first < next /\ next <= first + MaxQuiet
    <3>1. first + MaxQuiet < now
      BY <1>2, <1>7
    <3> QED
      BY <3>1 DEF Speaks
  <2>3. next \in DOMAIN rows /\ next > first
    BY <1>1, <1>2, <1>3, <1>7, <2>2
  <2>4. IsTransientDrop(rows, first, segment)
    BY <1>9, <2>1, <2>3 DEF IsReset
  <2>5. \E u \in DOMAIN rows : first < u /\ u <= first + Rebound /\ rows[u] >= segment
    BY <2>4 DEF IsTransientDrop
  <2> QED
    BY <1>1, <2>5
<1>11. back > b
  <2>1. back \in Nat /\ back \in Ticks
    BY <1>3
  <2>2. CASE back <= b
    <3>1. back \in c..b /\ back - 1 \in c..b
      BY <1>2, <1>5, <1>6, <1>7, <1>10, <2>1, <2>2
    <3>2. F[back - 1] = F[b] /\ F[back] = F[b]
      BY <1>5, <3>1
    <3>3. F[back].at = back
      BY <1>8, <1>10, <2>1, <3>2
    <3> QED
      BY <1>5, <1>6, <1>7, <1>10, <2>1, <3>2, <3>3
  <2> QED
    BY <1>2, <2>1, <2>2
<1> DEFINE above == {u \in DOMAIN log : u > b /\ log[u] >= segment}
<1>12. PICK u \in above : \A y \in above : u <= y
  <2>1. above \in SUBSET Nat /\ back \in above
    BY <1>3, <1>10, <1>11
  <2> HIDE DEF above
  <2> QED
    BY <2>1, LeastOf
<1>13. /\ FirstBack(u, b, segment) /\ u \in Ticks /\ u \in Nat /\ u > b /\ u <= back /\ back < end
       /\ back \in Nat /\ u \in DOMAIN rows /\ log[u] >= segment
  BY <1>1, <1>2, <1>3, <1>10, <1>11, <1>12 DEF FirstBack
\* Every reading on the way is part of the dip.
<1>14. \A t \in b..(u - 1) : F[t] = F[b]
  <2> DEFINE Good == {t \in b..(u - 1) : F[t] = F[b]}
  <2>1. b \in Good
    BY <1>2, <1>13
  <2>2. ASSUME NEW t \in b + 1..(u - 1), t - 1 \in Good PROVE t \in Good
    <3>1. t \in Ticks /\ t > b /\ t < u /\ t \in Nat /\ t \in b..(u - 1)
      BY <1>2, <1>13
    <3>2. F[t - 1] = F[b]
      BY <2>2
    <3>3. CASE t \notin DOMAIN rows
      <4>1. F[t] = F[b]
        BY <1>1, <3>1, <3>2, <3>3 DEF Unwraps
      <4> QED
        BY <3>1, <4>1
    <3>4. CASE t \in DOMAIN rows
      <4>1. t \in DOMAIN log /\ rows[t] = log[t] /\ log[t] \in Nat
        BY <1>1, <1>3, <3>4
      <4>2. log[t] < segment
        <5>1. t \notin above
          BY <1>12, <1>13, <3>1
        <5> QED
          BY <1>5, <3>1, <4>1, <5>1
      <4>3. IsTransientDrop(rows, t, segment)
        <5>1. t < u /\ u <= t + Rebound /\ rows[u] >= segment
          BY <1>1, <1>2, <1>7, <1>10, <1>13, <3>1
        <5> QED
          BY <1>13, <5>1 DEF IsTransientDrop
      <4>4. F[t] = After(rows, F[b], t) /\ segment # Nothing
        BY <1>1, <1>5, <3>1, <3>2, <3>4 DEF Unwraps, Nothing
      <4>5. F[t] = F[b]
        <5>1. F[b] \in UnwrapState /\ F[b].segment # Nothing /\ rows[t] < F[b].segment
          BY <1>1, <1>5, <4>1, <4>2, <4>4
        <5>2. IsTransientDrop(rows, t, F[b].segment)
          BY <4>3
        <5> QED
          BY <1>1, <3>4, <4>4, <5>1, <5>2, DipLeaves
      <4> QED
        BY <3>1, <4>5
    <3> QED
      BY <3>3, <3>4
  <2> HIDE DEF Good
  <2>3. \A t \in b..(u - 1) : t \in Good
    <3>1. b \in Int /\ u - 1 \in Int /\ b >= -1
      BY <1>2, <1>13
    <3> QED
      BY <2>1, <2>2, <3>1, ReachesAll
  <2> QED
    BY <2>3 DEF Good
<1>15. F[u].at = u /\ F[u].value = F[b].offset + log[u]
  <2>1. F[u - 1] = F[b]
    BY <1>2, <1>13, <1>14
  <2> QED
    BY <1>8, <1>13, <2>1
<1>16. u \in Counted(F, b) /\ \A y \in Counted(F, b) : u <= y
  <2>1. u \in b + 1..LastTick
    BY <1>2, <1>13
  <2>2. ASSUME NEW y \in Counted(F, b) PROVE u <= y
    <3>1. y \in b + 1..LastTick /\ F[y].at = y
      BY DEF Counted
    <3>2. CASE y < u
      <4>1. F[y] = F[b] /\ y > b
        BY <1>2, <1>13, <1>14, <3>1, <3>2
      <4> QED
        BY <1>2, <1>5, <3>1, <4>1
    <3> QED
      BY <1>2, <1>13, <3>1, <3>2
  <2> QED
    BY <1>15, <2>1, <2>2 DEF Counted
<1>17. Min(Counted(F, b)) = u
  <2>1. Counted(F, b) \in SUBSET Nat
    BY <1>2 DEF Counted
  <2>2. Min(Counted(F, b)) \in Counted(F, b) /\ Min(Counted(F, b)) <= u
    BY <1>16, <2>1, LeastOf
  <2> QED
    BY <1>13, <1>16, <2>1, <2>2
<1> QED
  BY <1>13, <1>15, <1>16, <1>17 DEF F

IsSampled(F, b) == F[b].value # Nothing /\ ~IsCarryStale(F, b)

LEMMA WholeSamplesFacts ==
  ASSUME NEW end \in Nat
  PROVE  /\ DOMAIN WholeSamples(end) = {b \in Boundaries(end) : IsSampled(WholeState(end), b)}
         /\ \A b \in DOMAIN WholeSamples(end) :
              WholeSamples(end)[b] = [value |-> WholeState(end)[b].value, at |-> WholeState(end)[b].at]
         /\ WholeSamples(end) = [b \in DOMAIN WholeSamples(end) |-> WholeSamples(end)[b]]
<1> DEFINE F == WholeState(end)
           pending == {b \in Boundaries(end) : b > NoPrefix.through /\ F[b].value # Nothing
                                               /\ ~IsCarryStale(F, b)}
<1>1. \A b \in Boundaries(end) : b > 0
  BY StalenessFacts DEF Boundaries
<1>2. NoPrefix.through = 0 /\ NoPrefix.samples = <<>> /\ DOMAIN <<>> = {}
  BY DEF NoPrefix
<1>3. WholeSamples(end) = [b \in pending \cup DOMAIN NoPrefix.samples |->
                             IF b \in pending THEN [value |-> F[b].value, at |-> F[b].at]
                             ELSE NoPrefix.samples[b]]
  BY Zenon DEF WholeSamples, Samples
<1> HIDE DEF F
<1>4. pending = {b \in Boundaries(end) : IsSampled(F, b)}
  BY <1>1, <1>2 DEF IsSampled
<1>5. pending \cup DOMAIN NoPrefix.samples = pending
  BY <1>2
<1> HIDE DEF pending
<1> QED
  BY <1>3, <1>4, <1>5 DEF F

LEMMA StaleByNext ==
  ASSUME NEW F, NEW b
  PROVE  IsCarryStale(F, b) <=>
           /\ F[b].at # Nothing /\ b - F[b].at > Staleness
           /\ Counted(F, b) = {} \/ F[Min(Counted(F, b))].value # F[b].value
BY Zenon DEF IsCarryStale, Counted

LEMMA BoundaryFacts ==
  ASSUME NEW end \in Nat, end <= now, now \in Ticks, NEW b \in Boundaries(end)
  PROVE  b \in Ticks /\ b \in Nat /\ b >= DayStart /\ b > 0 /\ b <= end
BY StalenessFacts DEF Boundaries, Ticks

(* A boundary that settled has its sample, or none, in every longer read. *)
LEMMA SampleIsSettled ==
  ASSUME AreRows(log), Speaks, Steady, now \in Ticks, NEW end \in Nat, NEW later \in Nat,
         end <= later, later <= now, NEW b \in Settled(end)
  PROVE  /\ b \in DOMAIN WholeSamples(end) <=> b \in DOMAIN WholeSamples(later)
         /\ b \in DOMAIN WholeSamples(end) => WholeSamples(end)[b] = WholeSamples(later)[b]
         /\ WholeState(end)[b] = WholeState(later)[b]
<1> DEFINE F == WholeState(end)
           G == WholeState(later)
<1>1. /\ b \in Boundaries(end) /\ b \in Ticks /\ b \in Nat /\ b + Rebound < end /\ b + Rebound < later
      /\ now \in Nat /\ end <= now /\ LastTick \in Nat
  BY BoundaryFacts, StalenessFacts DEF Settled, Ticks
<1>2. b \in Boundaries(later)
  BY <1>1, StalenessFacts DEF Boundaries
<1>3. F[b] = G[b]
  <2>1. b \in -1..b
    BY <1>1
  <2> QED
    BY <1>1, <2>1, WholeIsSettled
<1>4. IsCarryStale(F, b) <=> IsCarryStale(G, b)
  <2>1. CASE F[b].at # Nothing /\ b - F[b].at > Staleness
    <3>1. PICK u : /\ FirstBack(u, b, F[b].segment) /\ Counted(F, b) # {} /\ Min(Counted(F, b)) = u
                   /\ F[u].value = F[b].offset + log[u]
      BY <1>1, <2>1, OldCarryClimbsBack
    <3>2. PICK w : /\ FirstBack(w, b, G[b].segment) /\ Counted(G, b) # {} /\ Min(Counted(G, b)) = w
                   /\ G[w].value = G[b].offset + log[w]
      <4>1. G[b].at # Nothing /\ b - G[b].at > Staleness
        BY <1>3, <2>1
      <4> QED
        BY <1>1, <4>1, OldCarryClimbsBack
    <3> HIDE DEF F, G
    <3>3. u = w
      <4>1. u \in Nat /\ w \in Nat
        BY <3>1, <3>2, <1>1 DEF FirstBack, AreRows, Ticks
      <4>2. u <= w /\ w <= u
        BY <1>3, <3>1, <3>2 DEF FirstBack
      <4> QED
        BY <4>1, <4>2
    <3> QED
      BY <1>3, <3>1, <3>2, <3>3, StaleByNext
  <2>2. CASE ~(F[b].at # Nothing /\ b - F[b].at > Staleness)
    <3> HIDE DEF F, G
    <3> QED
      BY <1>3, <2>2, StaleByNext
  <2> QED
    BY <2>1, <2>2
<1> HIDE DEF F, G
<1>5. IsSampled(F, b) <=> IsSampled(G, b)
  BY <1>3, <1>4 DEF IsSampled
<1>6. b \in DOMAIN WholeSamples(end) <=> b \in DOMAIN WholeSamples(later)
  BY <1>1, <1>2, <1>5, WholeSamplesFacts DEF F, G
<1>7. ASSUME b \in DOMAIN WholeSamples(end) PROVE WholeSamples(end)[b] = WholeSamples(later)[b]
  <2>1. WholeSamples(end)[b] = [value |-> F[b].value, at |-> F[b].at]
    BY <1>7, WholeSamplesFacts DEF F
  <2>2. WholeSamples(later)[b] = [value |-> G[b].value, at |-> G[b].at]
    BY <1>6, <1>7, WholeSamplesFacts DEF G
  <2> QED
    BY <1>3, <2>1, <2>2
<1> QED
  BY <1>3, <1>6, <1>7 DEF F, G

(* What was kept of a read of the whole day. *)
KeptOf(prefix, end) ==
  \E at \in Settled(end) : prefix = Prefix(WholeSamples(end), WholeState(end), at)

(* What a read that resumes makes of the rows behind its prefix. *)
LEMMA ResumesAlike ==
  ASSUME AreRows(log), Speaks, Steady, now \in Ticks, NEW end \in Nat, NEW later \in Nat,
         end <= later, later <= now, NEW at \in Settled(end),
         NEW prefix, prefix = Prefix(WholeSamples(end), WholeState(end), at)
  PROVE  LET R == Unwrapped(Queried(prefix, later), prefix)
         IN /\ at \in -1..LastTick
            /\ R[at] = Resumed(prefix)
            /\ \A t \in at..LastTick : AlikeSince(R, WholeState(later), at, t)
            /\ \A t \in -1..LastTick : R[t] \in UnwrapState
            /\ R[at].at <= at
<1> DEFINE rows == Queried(prefix, later)
           R == Unwrapped(rows, prefix)
           others == Queried(NoPrefix, later)
           W == WholeState(later)
           F == WholeState(end)
<1>1. /\ at \in Boundaries(end) /\ at \in Ticks /\ at \in Nat /\ at > 0 /\ at + Rebound < end
      /\ now \in Nat /\ end <= now /\ LastTick \in Nat /\ at \in -1..LastTick
  BY BoundaryFacts, StalenessFacts DEF Settled, Ticks
<1>2. /\ prefix.through = at /\ prefix.offset = F[at].offset /\ prefix.segment = F[at].segment
      /\ DOMAIN prefix.samples = {b \in DOMAIN WholeSamples(end) : b <= at}
      /\ \A b \in DOMAIN prefix.samples : prefix.samples[b] = WholeSamples(end)[b]
  BY DEF Prefix, Restrict
<1>3. /\ AreRows(rows) /\ \A t : t \in DOMAIN rows <=> t \in DOMAIN log /\ t > at /\ t < later
      /\ \A t \in DOMAIN rows : rows[t] = log[t]
  BY <1>1, <1>2, QueriedFacts
<1>4. /\ AreRows(others) /\ \A t : t \in DOMAIN others <=> t \in DOMAIN log /\ t < later
      /\ \A t \in DOMAIN others : others[t] = log[t]
      /\ Unwraps(W, others, Resumed(NoPrefix)) /\ Resumed(NoPrefix) \in UnwrapState
      /\ F[at] \in UnwrapState /\ F[at].at <= at
  <2>1. F[at] \in UnwrapState /\ InForce(F, Queried(NoPrefix, end), at)
    BY <1>1, WholeUnwraps
  <2> QED
    BY <2>1, WholeUnwraps DEF InForce
<1>5. F[at] = W[at]
  BY SampleIsSettled
<1>6. Unwraps(R, rows, Resumed(prefix))
  BY UnwrapSteps
<1> HIDE DEF rows, R, others, W
<1>7. Resumed(prefix) \in UnwrapState /\ Resumed(prefix).at <= at
      /\ Resumed(prefix).offset = F[at].offset /\ Resumed(prefix).segment = F[at].segment
  <2>1. CASE at \in DOMAIN prefix.samples
    <3>1. prefix.samples[at] = [value |-> F[at].value, at |-> F[at].at]
      BY <1>2, <2>1, WholeSamplesFacts
    <3>2. Resumed(prefix) = [offset |-> F[at].offset, segment |-> F[at].segment,
                             value |-> F[at].value, at |-> F[at].at]
      BY <1>2, <2>1, <3>1 DEF Resumed
    <3> QED
      BY <1>4, <3>2 DEF UnwrapState
  <2>2. CASE at \notin DOMAIN prefix.samples
    <3>1. Resumed(prefix) = [offset |-> F[at].offset, segment |-> F[at].segment,
                             value |-> Nothing, at |-> Nothing]
      BY <1>2, <2>2 DEF Resumed
    <3> QED
      BY <1>1, <1>4, <3>1 DEF UnwrapState, Nothing
  <2> QED
    BY <2>1, <2>2
<1>8. R[at] = Resumed(prefix)
  <2> DEFINE Good == {t \in -1..at : R[t] = Resumed(prefix)}
  <2>1. -1 \in Good
    BY <1>1, <1>6 DEF Unwraps
  <2>2. ASSUME NEW t \in -1 + 1..at, t - 1 \in Good PROVE t \in Good
    <3>1. t \in Ticks /\ t \in -1..at /\ ~(t > at)
      BY <1>1 DEF Ticks
    <3>2. R[t] = R[t - 1]
      BY <1>3, <1>6, <3>1 DEF Unwraps
    <3> QED
      BY <2>2, <3>1, <3>2
  <2> HIDE DEF Good
  <2>3. \A t \in -1..at : t \in Good
    BY <1>1, <2>1, <2>2, ReachesAll
  <2>4. at \in -1..at
    BY <1>1
  <2> QED
    BY <2>3, <2>4 DEF Good
<1>9. ASSUME NEW t \in at + 1..LastTick PROVE SameRow(rows, others, t)
  <2>1. t > at /\ t \in Nat /\ \A u \in DOMAIN log : u \in Nat
    BY <1>1 DEF AreRows, Ticks
  <2>2. \A u : u > t /\ u \in DOMAIN log => (u \in DOMAIN rows <=> u \in DOMAIN others)
    BY <1>1, <1>3, <1>4, <2>1
  <2>3. \A u \in DOMAIN rows : u \in DOMAIN others /\ rows[u] = others[u]
    BY <1>3, <1>4
  <2>4. \A u \in DOMAIN others : u > t => u \in DOMAIN rows /\ rows[u] = others[u]
    BY <1>3, <1>4, <2>2
  <2>5. ASSUME NEW s \in Values
        PROVE  IsTransientDrop(rows, t, s) <=> IsTransientDrop(others, t, s)
    BY <2>3, <2>4 DEF IsTransientDrop
  <2>6. t \in DOMAIN rows => rows[t] = others[t]
    BY <2>3
  <2>7. (\E u \in DOMAIN rows : u > t) <=> (\E u \in DOMAIN others : u > t)
    BY <2>3, <2>4
  <2> QED
    BY <1>3, <1>4, <2>1, <2>5, <2>6, <2>7 DEF SameRow, IsReset
<1>10. \A t \in at..LastTick : AlikeSince(R, W, at, t)
  <2>1. R[at].offset = W[at].offset /\ R[at].segment = W[at].segment
    BY <1>5, <1>7, <1>8
  <2>2. LastTick \in -1..LastTick
    BY <1>1
  <2> QED
    BY <1>1, <1>3, <1>4, <1>6, <1>7, <1>9, <2>1, <2>2, UnwrapsAlike
<1>11. \A t \in -1..LastTick : R[t] \in UnwrapState
  BY <1>3, <1>6, <1>7, UnwrapTyped
<1> QED
  BY <1>1, <1>7, <1>8, <1>10, <1>11 DEF R, W, rows

LEMMA StaleAlike ==
  ASSUME NEW F, NEW G, NEW b, F[b].at = G[b].at, F[b].value = G[b].value,
         Counted(F, b) = Counted(G, b), Counted(F, b) \in SUBSET Nat,
         \A t \in Counted(F, b) : F[t].value = G[t].value
  PROVE  IsCarryStale(F, b) <=> IsCarryStale(G, b)
<1>1. CASE Counted(F, b) = {}
  BY <1>1, StaleByNext
<1>2. CASE Counted(F, b) # {}
  <2>1. Min(Counted(F, b)) \in Counted(F, b)
    BY <1>2, LeastOf
  <2>2. F[Min(Counted(F, b))].value = G[Min(Counted(G, b))].value
    BY <2>1
  <2> QED
    BY <1>2, <2>2, StaleByNext
<1> QED
  BY <1>1, <1>2

(* A read that resumes samples the day as a read of the whole of it does. *)
LEMMA ResumedReadsWhole ==
  ASSUME AreRows(log), Speaks, Steady, now \in Ticks, NEW end \in Nat, NEW later \in Nat,
         end <= later, later <= now, NEW at \in Settled(end),
         NEW prefix, prefix = Prefix(WholeSamples(end), WholeState(end), at)
  PROVE  Samples(Unwrapped(Queried(prefix, later), prefix), prefix, later) = WholeSamples(later)
<1> DEFINE R == Unwrapped(Queried(prefix, later), prefix)
           W == WholeState(later)
           F == WholeState(end)
           pending == {b \in Boundaries(later) : b > prefix.through /\ R[b].value # Nothing
                                                 /\ ~IsCarryStale(R, b)}
<1>1. /\ at \in Boundaries(end) /\ at \in Ticks /\ at \in Nat /\ at > 0 /\ at + Rebound < end
      /\ now \in Nat /\ end <= now /\ LastTick \in Nat /\ at \in -1..LastTick
      /\ at \in at..LastTick
  BY BoundaryFacts, StalenessFacts DEF Settled, Ticks
<1>2. /\ prefix.through = at
      /\ DOMAIN prefix.samples = {b \in DOMAIN WholeSamples(end) : b <= at}
      /\ \A b \in DOMAIN prefix.samples : prefix.samples[b] = WholeSamples(end)[b]
  BY DEF Prefix, Restrict
<1>3. /\ R[at] = Resumed(prefix) /\ \A t \in at..LastTick : AlikeSince(R, W, at, t)
      /\ \A t \in -1..LastTick : R[t] \in UnwrapState
      /\ R[at].at <= at
  BY ResumesAlike
<1>4. /\ \A t \in -1..LastTick : W[t] \in UnwrapState /\ InForce(W, Queried(NoPrefix, later), t)
  BY WholeUnwraps
<1>5. F[at] = W[at]
  BY SampleIsSettled
<1>6. Samples(R, prefix, later) =
        [b \in pending \cup DOMAIN prefix.samples |->
          IF b \in pending THEN [value |-> R[b].value, at |-> R[b].at] ELSE prefix.samples[b]]
  BY Zenon DEF Samples
<1> HIDE DEF R, W, F
\* What was kept had settled.
<1>7. ASSUME NEW b \in Boundaries(later), b <= at
      PROVE  /\ b \notin pending
             /\ b \in DOMAIN prefix.samples <=> b \in DOMAIN WholeSamples(later)
             /\ b \in DOMAIN prefix.samples => prefix.samples[b] = WholeSamples(later)[b]
  <2>1. b \in Settled(end) /\ b \in Nat
    BY <1>1, <1>7, BoundaryFacts, StalenessFacts DEF Settled, Boundaries
  <2>2. b \notin pending
    BY <1>1, <1>2, <1>7, <2>1
  <2>3. /\ b \in DOMAIN WholeSamples(end) <=> b \in DOMAIN WholeSamples(later)
        /\ b \in DOMAIN WholeSamples(end) => WholeSamples(end)[b] = WholeSamples(later)[b]
    BY <2>1, SampleIsSettled
  <2> HIDE DEF pending
  <2> QED
    BY <1>2, <1>7, <2>2, <2>3
\* Behind it the states are alike, but for a carry that was not kept.
<1>8. ASSUME NEW b \in Boundaries(later), ~(b <= at)
      PROVE  /\ b \in pending <=> b \in DOMAIN WholeSamples(later)
             /\ b \in pending =>
                  WholeSamples(later)[b] = [value |-> R[b].value, at |-> R[b].at]
             /\ b \notin DOMAIN prefix.samples
  <2>1. b \in Ticks /\ b \in Nat /\ b > at /\ b \in at..LastTick /\ b \in -1..LastTick
    BY <1>1, <1>8, BoundaryFacts DEF Ticks
  <2>2. /\ AlikeSince(R, W, at, b) /\ R[b] \in UnwrapState /\ W[b] \in UnwrapState
        /\ W[at] \in UnwrapState /\ R[at] \in UnwrapState
        /\ InForce(W, Queried(NoPrefix, later), b) /\ InForce(W, Queried(NoPrefix, later), at)
    BY <1>1, <1>3, <1>4, <2>1
  <2>3. R[at].at \in Int /\ W[at].at \in Int /\ W[at].at <= at
    BY <2>2 DEF InForce, UnwrapState
  <2>4. /\ Counted(R, b) = Counted(W, b) /\ Counted(R, b) \in SUBSET Nat
        /\ \A t \in Counted(R, b) : R[t].value = W[t].value
    <3>1. ASSUME NEW t \in b + 1..LastTick
          PROVE  /\ R[t].at = t <=> W[t].at = t
                 /\ R[t].at = t => R[t].value = W[t].value
      <4>1. t \in at..LastTick /\ t > at /\ t \in Int
        BY <1>1, <2>1
      <4>2. AlikeSince(R, W, at, t)
        BY <1>3, <4>1
      <4> QED
        BY <1>1, <1>3, <2>3, <4>1, <4>2 DEF AlikeSince
    <3> QED
      BY <1>1, <2>1, <3>1 DEF Counted
  <2>5. b \in pending <=> IsSampled(R, b)
    BY <1>2, <2>1 DEF IsSampled
  <2>6. /\ b \in DOMAIN WholeSamples(later) <=> IsSampled(W, b)
        /\ b \in DOMAIN WholeSamples(later) =>
             WholeSamples(later)[b] = [value |-> W[b].value, at |-> W[b].at]
    BY WholeSamplesFacts DEF W
  <2>7. b \notin DOMAIN prefix.samples
    BY <1>2, <1>8
  <2> HIDE DEF pending
  <2>8. CASE R[b].at = W[b].at /\ R[b].value = W[b].value
    <3>1. IsSampled(R, b) <=> IsSampled(W, b)
      BY <2>4, <2>8, StaleAlike DEF IsSampled
    <3> QED
      BY <2>5, <2>6, <2>7, <2>8, <3>1
  <2>9. CASE R[b].at = R[at].at /\ R[b].value = R[at].value
             /\ W[b].at = W[at].at /\ W[b].value = W[at].value
    <3>1. CASE at \in DOMAIN prefix.samples
      <4>1. prefix.samples[at] = [value |-> W[at].value, at |-> W[at].at]
        BY <1>2, <1>5, <3>1, WholeSamplesFacts DEF F
      <4>2. R[at].value = W[at].value /\ R[at].at = W[at].at
        BY <1>2, <1>3, <3>1, <4>1 DEF Resumed
      <4> QED
        BY <2>8, <2>9, <4>2
    <3>2. CASE at \notin DOMAIN prefix.samples
      <4>1. R[at].value = Nothing
        BY <1>2, <1>3, <3>2 DEF Resumed
      <4>2. ~IsSampled(R, b)
        BY <2>9, <4>1 DEF IsSampled
      <4>3. ~IsSampled(W, at)
        <5>1. at \in Boundaries(later) /\ at <= at
          BY <1>1, StalenessFacts DEF Boundaries
        <5>2. at \notin DOMAIN WholeSamples(later)
          BY <1>7, <3>2, <5>1
        <5> QED
          BY <5>1, <5>2, WholeSamplesFacts DEF W
      <4>4. ~IsSampled(W, b)
        <5>1. CASE W[at].value = Nothing
          BY <2>9, <5>1 DEF IsSampled
        <5>2. CASE IsCarryStale(W, at)
          <6>1. Counted(W, at) = Counted(W, b)
            <7>1. ASSUME NEW t \in at + 1..b PROVE W[t].at # t
              <8>1. t \in W[b].at..b /\ t > at
                BY <1>1, <2>1, <2>3, <2>9
              <8>2. W[t] = W[b]
                BY <2>2, <8>1 DEF InForce
              <8> QED
                BY <1>1, <2>1, <2>3, <2>9, <8>1, <8>2
            <7>2. \A t \in at + 1..LastTick : t \in at + 1..b \/ t \in b + 1..LastTick
              BY <1>1, <2>1
            <7>3. \A t \in b + 1..LastTick : t \in at + 1..LastTick
              BY <1>1, <2>1
            <7> QED
              BY <7>1, <7>2, <7>3 DEF Counted
          <6>2. b - W[b].at > Staleness
            BY <1>1, <2>1, <2>3, <2>9, <5>2, StaleByNext, StalenessFacts
          <6> QED
            BY <2>9, <5>2, <6>1, <6>2, StaleByNext DEF IsSampled
        <5> QED
          BY <4>3, <5>1, <5>2 DEF IsSampled
      <4> QED
        BY <2>5, <2>6, <2>7, <4>2, <4>4
    <3> QED
      BY <3>1, <3>2
  <2> QED
    BY <2>2, <2>8, <2>9 DEF AlikeSince
<1>9. DOMAIN WholeSamples(later) \subseteq Boundaries(later) /\ pending \subseteq Boundaries(later)
  BY WholeSamplesFacts
<1>10. DOMAIN prefix.samples \subseteq Boundaries(later)
  <2> SUFFICES ASSUME NEW b \in DOMAIN prefix.samples PROVE b \in Boundaries(later)
    OBVIOUS
  <2>1. b \in Boundaries(end)
    BY <1>2, WholeSamplesFacts
  <2> QED
    BY <2>1, StalenessFacts DEF Boundaries
<1> HIDE DEF pending
<1>11. pending \cup DOMAIN prefix.samples = DOMAIN WholeSamples(later)
  BY <1>7, <1>8, <1>9, <1>10
<1>12. ASSUME NEW b \in DOMAIN WholeSamples(later)
       PROVE  WholeSamples(later)[b] = IF b \in pending THEN [value |-> R[b].value, at |-> R[b].at]
                                       ELSE prefix.samples[b]
  BY <1>7, <1>8, <1>9, <1>11, <1>12
<1>13. WholeSamples(later) = [b \in DOMAIN WholeSamples(later) |-> WholeSamples(later)[b]]
  BY WholeSamplesFacts
<1>14. Samples(R, prefix, later) = WholeSamples(later)
  BY <1>6, <1>11, <1>12, <1>13
<1> QED
  BY <1>14 DEF R

LEMMA EndOfRead ==
  ASSUME now \in Ticks, now - ((now - DayStart) % SlotTicks) > DayStart
  PROVE  /\ now - DayStart \in Nat
         /\ (now - DayStart) % SlotTicks \in Nat
         /\ now - ((now - DayStart) % SlotTicks) \in DayStart..now
<1> DEFINE over == (now - DayStart) % SlotTicks
<1>1. /\ now \in Nat /\ SlotTicks \in Nat /\ SlotTicks > 0 /\ DayStart \in Nat
  BY StalenessFacts DEF Ticks
<1>2. now - DayStart \in Int /\ over \in Int /\ over >= 0
  BY <1>1
<1> HIDE DEF over
<1> QED
  BY <1>1, <1>2 DEF over

(* What is kept of a read. *)
PrefixTyped(prefix) ==
  /\ prefix.through \in {0} \cup {t \in Ticks : t >= DayStart}
  /\ DOMAIN prefix.samples \subseteq DayStart..prefix.through
  /\ \A b \in DOMAIN prefix.samples : prefix.samples[b] \in [value : Nat, at : Int]
  /\ prefix.segment \in Values \cup {Nothing} /\ prefix.offset \in Nat

EnergyTypeInv ==
  /\ EnergyTypeOK /\ DOMAIN reading = Readers
  /\ PrefixTyped(frozen) /\ \A r \in Readers : PrefixTyped(reading[r].prefix)

LEMMA NoPrefixTyped == PrefixTyped(NoPrefix)
<1>1. DOMAIN <<>> = {}
  OBVIOUS
<1> QED
  BY <1>1 DEF PrefixTyped, NoPrefix, Nothing

(* What a read finds, and what is kept of it, is of its type. *)
LEMMA ReadTyped ==
  ASSUME AreRows(log), now \in Ticks, NEW end \in 0..now, NEW prefix, PrefixTyped(prefix)
  PROVE  LET state   == Unwrapped(Queried(prefix, end), prefix)
             samples == Samples(state, prefix, end)
         IN /\ \A slot \in DOMAIN Energy(samples, end) : Energy(samples, end)[slot] \in Nat
            /\ \A at \in Settled(end) : PrefixTyped(Prefix(samples, state, at))
<1> DEFINE state   == Unwrapped(Queried(prefix, end), prefix)
           samples == Samples(state, prefix, end)
<1>1. end \in Nat /\ end <= now /\ now \in Nat /\ DayStart \in Nat
  BY StalenessFacts DEF Ticks
<1>2. Resumed(prefix) \in UnwrapState
  <2>1. prefix.through \in DOMAIN prefix.samples => prefix.samples[prefix.through] \in [value : Nat, at : Int]
    BY DEF PrefixTyped
  <2> QED
    BY <2>1 DEF Resumed, PrefixTyped, UnwrapState, Nothing
<1>3. \A b \in Boundaries(end) : state[b] \in UnwrapState /\ b \in Ticks /\ b >= DayStart
  <2>1. AreRows(Queried(prefix, end))
    BY QueriedFacts
  <2>2. \A t \in -1..LastTick : state[t] \in UnwrapState
    BY <1>2, <2>1, UnwrapSteps, UnwrapTyped
  <2> HIDE DEF state
  <2>3. \A b \in Boundaries(end) : b \in Ticks /\ b >= DayStart
    BY <1>1, BoundaryFacts
  <2>4. \A b \in Ticks : b \in -1..LastTick
    BY StalenessFacts DEF Ticks
  <2> QED
    BY <2>2, <2>3, <2>4
<1> DEFINE pending == {b \in Boundaries(end) : b > prefix.through /\ state[b].value # Nothing
                                               /\ ~IsCarryStale(state, b)}
<1>4. samples = [b \in pending \cup DOMAIN prefix.samples |->
                   IF b \in pending THEN [value |-> state[b].value, at |-> state[b].at]
                   ELSE prefix.samples[b]]
  BY Zenon DEF Samples
<1> HIDE DEF state, samples
<1>5. /\ DOMAIN samples = pending \cup DOMAIN prefix.samples
      /\ \A b \in DOMAIN samples : samples[b] \in [value : Nat, at : Int]
  <2>1. \A b \in pending : state[b].value \in Nat /\ state[b].at \in Int
    BY <1>3 DEF UnwrapState
  <2> HIDE DEF pending
  <2> QED
    BY <1>4, <2>1 DEF PrefixTyped
<1>6. \A b \in DOMAIN samples : b \in Int /\ b >= DayStart
  BY <1>1, <1>3, <1>5 DEF PrefixTyped, Ticks
<1> HIDE DEF pending
<1>7. ASSUME NEW slot \in DOMAIN Energy(samples, end) PROVE Energy(samples, end)[slot] \in Nat
  <2>1. /\ slot \in DOMAIN samples /\ slot + SlotTicks \in DOMAIN samples
        /\ samples[slot + SlotTicks].value >= samples[slot].value
        /\ Energy(samples, end)[slot] = samples[slot + SlotTicks].value - samples[slot].value
    BY DEF Energy
  <2>2. samples[slot + SlotTicks].value \in Nat /\ samples[slot].value \in Nat
    BY <1>5, <2>1
  <2> QED
    BY <2>1, <2>2
<1>8. ASSUME NEW at \in Settled(end) PROVE PrefixTyped(Prefix(samples, state, at))
  <2>1. at \in Ticks /\ at >= DayStart /\ state[at] \in UnwrapState /\ at \in Int
    BY <1>3 DEF Settled, Ticks
  <2>2. /\ Prefix(samples, state, at).through = at
        /\ Prefix(samples, state, at).offset = state[at].offset
        /\ Prefix(samples, state, at).segment = state[at].segment
        /\ DOMAIN Prefix(samples, state, at).samples = {b \in DOMAIN samples : b <= at}
        /\ \A b \in DOMAIN Prefix(samples, state, at).samples : Prefix(samples, state, at).samples[b] = samples[b]
    BY DEF Prefix, Restrict
  <2>3. DOMAIN Prefix(samples, state, at).samples \subseteq DayStart..at
    BY <1>1, <1>6, <2>1, <2>2
  <2> QED
    BY <1>5, <2>1, <2>2, <2>3 DEF PrefixTyped, UnwrapState
<1> QED
  BY <1>7, <1>8 DEF state, samples

LEMMA EnergyTypeStarts == EnergyInit => EnergyTypeInv
<1>1. 0 \in Ticks /\ 0 \in 0..0 /\ DOMAIN <<>> = {}
  BY StalenessFacts DEF Ticks
<1> QED
  BY <1>1, NoPrefixTyped DEF EnergyInit, EnergyTypeInv, EnergyTypeOK, NoPrefix, NoRead, Nothing

LEMMA EnergyTypeStep == EnergyTypeInv /\ [EnergyNext]_energyVars => EnergyTypeInv'
<1> SUFFICES ASSUME EnergyTypeInv, [EnergyNext]_energyVars PROVE EnergyTypeInv'
  OBVIOUS
<1>0. /\ now \in Ticks /\ now \in Nat /\ LastTick \in Nat /\ AreRows(log) /\ DOMAIN reading = Readers
      /\ PrefixTyped(frozen) /\ \A q \in Readers : PrefixTyped(reading[q].prefix) /\ reading[q].end \in 0..now
  BY StalenessFacts DEF EnergyTypeInv, EnergyTypeOK, Ticks, AreRows
<1>1. ASSUME NEW r \in Readers, StartRead(r) PROVE EnergyTypeInv'
  <2> DEFINE end == now - ((now - DayStart) % SlotTicks)
             prefix == IF frozen.through <= end THEN frozen ELSE NoPrefix
  <2>1. /\ end > DayStart /\ reading' = [reading EXCEPT ![r] = [end |-> end, prefix |-> prefix]]
        /\ UNCHANGED <<now, log, frozen, shown>>
    BY <1>1 DEF StartRead
  <2>2. end \in 0..now
    <3>1. end \in DayStart..now
      BY <1>0, <2>1, EndOfRead
    <3> HIDE DEF end
    <3> QED
      BY <1>0, <3>1, StalenessFacts
  <2>3. PrefixTyped(prefix)
    BY <1>0, NoPrefixTyped
  <2> HIDE DEF end, prefix
  <2>4. \A q \in Readers : PrefixTyped(reading'[q].prefix) /\ reading'[q].end \in 0..now
    BY <1>0, <2>1, <2>2, <2>3
  <2> QED
    BY <1>0, <2>1, <2>4 DEF EnergyTypeInv, EnergyTypeOK, PrefixTyped
<1>2. ASSUME NEW r \in Readers, FinishRead(r) PROVE EnergyTypeInv'
  <2> DEFINE end     == reading[r].end
             prefix  == reading[r].prefix
             state   == Unwrapped(Queried(prefix, end), prefix)
             samples == Samples(state, prefix, end)
             at      == IF Settled(end) = {} THEN 0 ELSE Max(Settled(end))
  <2>1. /\ shown' = [end |-> end, energy |-> Energy(samples, end)]
        /\ frozen' = IF at > prefix.through THEN Prefix(samples, state, at) ELSE frozen
        /\ reading' = [reading EXCEPT ![r] = NoRead] /\ UNCHANGED <<now, log>>
    BY <1>2 DEF FinishRead
  <2>2. PrefixTyped(prefix) /\ end \in 0..now
    BY <1>0
  <2> HIDE DEF end, prefix
  <2>3. /\ \A slot \in DOMAIN Energy(samples, end) : Energy(samples, end)[slot] \in Nat
        /\ \A t \in Settled(end) : PrefixTyped(Prefix(samples, state, t))
    BY <1>0, <2>2, ReadTyped
  <2> HIDE DEF samples, state
  <2>4. PrefixTyped(frozen')
    <3>1. CASE at > prefix.through
      <4>1. Settled(end) \in SUBSET (0..end) /\ end \in Nat
        BY <1>0, <2>2, StalenessFacts DEF Settled, Boundaries
      <4>2. Settled(end) # {}
        BY <2>2, <3>1, StalenessFacts DEF PrefixTyped, Ticks
      <4>3. at \in Settled(end)
        BY <4>1, <4>2, GreatestOf
      <4> HIDE DEF at
      <4> QED
        BY <2>1, <2>3, <3>1, <4>3
    <3> QED
      BY <1>0, <2>1, <3>1
  <2>5. \A q \in Readers : PrefixTyped(reading'[q].prefix) /\ reading'[q].end \in 0..now
    BY <1>0, <2>1, NoPrefixTyped DEF NoRead
  <2> QED
    BY <1>0, <2>1, <2>3, <2>4, <2>5 DEF EnergyTypeInv, EnergyTypeOK, PrefixTyped
<1>3. ASSUME MeterReports PROVE EnergyTypeInv'
  <2>1. PICK v \in Values : log' = [t \in {now} \cup DOMAIN log |-> IF t = now THEN v ELSE log[t]]
    BY <1>3 DEF MeterReports
  <2>2. UNCHANGED <<now, frozen, reading, shown>>
    BY <1>3 DEF MeterReports
  <2> QED
    BY <1>0, <2>1, <2>2 DEF EnergyTypeInv, EnergyTypeOK, PrefixTyped
<1>4. ASSUME Passes PROVE EnergyTypeInv'
  <2>1. now < LastTick /\ now' = now + 1 /\ UNCHANGED <<log, frozen, reading, shown>>
    BY <1>4 DEF Passes
  <2>2. now' \in Ticks /\ (\A x \in 0..now : x \in 0..now') /\ \A t \in DOMAIN log : t <= now'
    BY <1>0, <2>1 DEF Ticks, AreRows, EnergyTypeInv, EnergyTypeOK
  <2> QED
    BY <1>0, <2>1, <2>2 DEF EnergyTypeInv, EnergyTypeOK, PrefixTyped
<1>5. CASE UNCHANGED energyVars
  BY <1>5 DEF energyVars, EnergyTypeInv, EnergyTypeOK, PrefixTyped
<1> QED
  BY <1>1, <1>2, <1>3, <1>4, <1>5 DEF EnergyNext

LEMMA EnergyTypeInvHolds == EnergySpec => []EnergyTypeInv
  BY EnergyTypeStarts, EnergyTypeStep, PTL DEF EnergySpec

(* The day's energy is of its type: the recorder's rows, the kept prefix and the
   last answer, whatever the meter shows and however reads overlap. *)
THEOREM EnergyTypeCorrect == EnergySpec => []EnergyTypeOK
<1>1. EnergyTypeInv => EnergyTypeOK
  BY DEF EnergyTypeInv
<1> QED
  BY <1>1, EnergyTypeInvHolds, PTL

(* The last multiple of a step not behind a tick. *)
LEMMA LastMultiple ==
  ASSUME NEW d \in Nat, d > 0, NEW y \in Nat
  PROVE  /\ y - (y % d) \in 0..y /\ (y - (y % d)) % d = 0
         /\ \A x \in 0..y : x % d = 0 => x <= y - (y % d)
<1> DEFINE q == y \div d
<1>1. q \in Nat /\ y % d \in 0..(d - 1) /\ y = d * q + (y % d)
  OBVIOUS
<1> HIDE DEF q
<1>2. d * q \in Nat /\ (d * q) % d = 0
  BY <1>1
<1>3. ASSUME NEW x \in 0..y, x % d = 0 PROVE x <= d * q
  <2> DEFINE k == x \div d
  <2>1. k \in Nat /\ x = d * k
    BY <1>3
  <2> HIDE DEF k
  <2>2. CASE k <= q
    <3>1. d * k <= d * q
      BY <1>1, <2>1, <2>2
    <3> QED
      BY <2>1, <3>1
  <2>3. CASE k >= q + 1
    <3>1. d * k >= d * (q + 1) /\ d * (q + 1) = d * q + d
      BY <1>1, <2>1, <2>3
    <3> QED
      BY <1>1, <1>2, <2>1, <3>1
  <2> QED
    BY <1>1, <2>1, <2>2, <2>3
<1>4. y - (y % d) = d * q
  BY <1>1, <1>2
<1> QED
  BY <1>1, <1>2, <1>3, <1>4

(* What was kept, by a read that resumes and by one that has begun, was kept  *)
(* of a read of the whole day.                                                *)
EnergyInv ==
  /\ EnergyTypeInv /\ Speaks
  /\ shown.end \in 0..now /\ ReadsAsTheWholeDay
  /\ frozen = NoPrefix \/ \E end \in Boundaries(now) : KeptOf(frozen, end)
  /\ \A r \in Readers : reading[r].end # 0 =>
       /\ reading[r].end \in Boundaries(now)
       /\ \/ reading[r].prefix = NoPrefix
          \/ \E end \in Boundaries(reading[r].end) : KeptOf(reading[r].prefix, end)

LEMMA EnergyStarts == EnergyInit => EnergyInv
<1> SUFFICES ASSUME EnergyInit PROVE EnergyInv
  OBVIOUS
<1>1. 0 \in Ticks /\ 0 \in 0..0 /\ DOMAIN <<>> = {} /\ LastTick \in Nat
  BY StalenessFacts DEF Ticks
<1>2. EnergyTypeInv /\ Speaks
  BY <1>1, EnergyTypeStarts DEF EnergyInit, Speaks
<1>3. ReadsAsTheWholeDay
  <2>1. Boundaries(0) = {}
    BY StalenessFacts DEF Boundaries
  <2>2. DOMAIN WholeSamples(0) = {}
    BY <2>1, WholeSamplesFacts
  <2>3. WholeDay(0) = <<>>
    BY <2>2 DEF WholeDay, Energy
  <2> QED
    BY <2>3 DEF EnergyInit, ReadsAsTheWholeDay
<1> QED
  BY <1>1, <1>2, <1>3 DEF EnergyInit, EnergyInv, NoRead

LEMMA StartReadKeeps == ASSUME EnergyInv, NEW r \in Readers, StartRead(r) PROVE EnergyInv'
<1> DEFINE end == now - ((now - DayStart) % SlotTicks)
           prefix == IF frozen.through <= end THEN frozen ELSE NoPrefix
<1>1. /\ end > DayStart /\ reading' = [reading EXCEPT ![r] = [end |-> end, prefix |-> prefix]]
      /\ UNCHANGED <<now, log, frozen, shown>>
  BY DEF StartRead
<1>2. now \in Ticks /\ now \in Nat /\ DOMAIN reading = Readers /\ AreRows(log)
  BY StalenessFacts DEF EnergyInv, EnergyTypeInv, EnergyTypeOK, Ticks, AreRows
<1>3. /\ end \in Boundaries(now) /\ end \in 0..now /\ end \in Nat /\ end # 0
      /\ \A e \in Boundaries(now) : e <= end /\ e \in Boundaries(end)
  <2> DEFINE y == now - DayStart
             over == y % SlotTicks
  <2>0. SlotTicks \in Nat /\ SlotTicks > 0 /\ DayStart \in Nat
    BY StalenessFacts
  <2>1. y \in Nat
    <3>1. y \in Int /\ over >= 0
      BY <1>2, <2>0
    <3> HIDE DEF over
    <3> QED
      BY <1>1, <1>2, <2>0, <3>1 DEF over
  <2>2. /\ y - over \in 0..y /\ (y - over) % SlotTicks = 0
        /\ \A x \in 0..y : x % SlotTicks = 0 => x <= y - over
    BY <2>0, <2>1, LastMultiple
  <2>3. over \in Int
    BY <2>0, <2>1
  <2> HIDE DEF over
  <2>4. end = now - over /\ end - DayStart = y - over
    BY <1>2, <2>0, <2>3 DEF over
  <2> HIDE DEF end
  <2>5. end \in DayStart..now /\ end \in Nat
    BY <1>2, <2>0, <2>2, <2>3, <2>4
  <2>6. end \in Boundaries(now)
    BY <2>2, <2>4, <2>5 DEF Boundaries
  <2>7. ASSUME NEW e \in Boundaries(now) PROVE e <= end /\ e \in Boundaries(end)
    <3>1. e \in DayStart..now /\ (e - DayStart) % SlotTicks = 0
      BY DEF Boundaries
    <3>2. e - DayStart \in 0..y
      BY <1>2, <2>0, <3>1
    <3>3. e - DayStart <= y - over
      BY <2>2, <3>1, <3>2
    <3>4. e <= end
      BY <1>2, <2>0, <2>3, <2>4, <3>1, <3>3
    <3> QED
      BY <2>0, <2>5, <3>1, <3>4 DEF Boundaries
  <2> QED
    BY <1>1, <1>2, <2>0, <2>5, <2>6, <2>7
<1> HIDE DEF end
<1>4. prefix = NoPrefix \/ \E e \in Boundaries(end) : KeptOf(prefix, e)
  <2>1. frozen = NoPrefix \/ \E e \in Boundaries(now) : KeptOf(frozen, e)
    BY DEF EnergyInv
  <2> QED
    BY <1>3, <2>1
<1> HIDE DEF prefix
<1>5. ASSUME NEW q \in Readers
      PROVE  reading'[q].end # 0 =>
               /\ reading'[q].end \in Boundaries(now)
               /\ \/ reading'[q].prefix = NoPrefix
                  \/ \E e \in Boundaries(reading'[q].end) : KeptOf(reading'[q].prefix, e)
  <2>1. CASE q = r
    BY <1>1, <1>2, <1>3, <1>4, <2>1
  <2>2. CASE q # r
    BY <1>1, <1>2, <2>2 DEF EnergyInv
  <2> QED
    BY <2>1, <2>2
<1>6. EnergyTypeInv'
  BY EnergyTypeStep DEF EnergyInv, EnergyNext
<1>7. \A e : KeptOf(frozen, e)' <=> KeptOf(frozen, e)
  BY <1>1 DEF KeptOf, WholeSamples, WholeState, Queried
<1>8. ReadsAsTheWholeDay' /\ Speaks'
  BY <1>1 DEF EnergyInv, ReadsAsTheWholeDay, Speaks, WholeDay, WholeSamples, WholeState, Queried
<1>9. ASSUME NEW q \in Readers, (reading[q].end # 0)'
      PROVE  (/\ reading[q].end \in Boundaries(now)
              /\ \/ reading[q].prefix = NoPrefix
                 \/ \E e \in Boundaries(reading[q].end) : KeptOf(reading[q].prefix, e))'
  <2>1. \A e : KeptOf(reading[q].prefix, e)' <=> KeptOf(reading'[q].prefix, e)
    BY <1>1 DEF KeptOf, WholeSamples, WholeState, Queried
  <2> QED
    BY <1>1, <1>5, <1>9, <2>1
<1> QED
  BY <1>1, <1>2, <1>6, <1>7, <1>8, <1>9 DEF EnergyInv

LEMMA FinishReadKeeps == ASSUME Steady, EnergyInv, NEW r \in Readers, FinishRead(r) PROVE EnergyInv'
<1> DEFINE end     == reading[r].end
           prefix  == reading[r].prefix
           state   == Unwrapped(Queried(prefix, end), prefix)
           samples == Samples(state, prefix, end)
           at      == IF Settled(end) = {} THEN 0 ELSE Max(Settled(end))
           longer  == Prefix(samples, state, at)
<1>1. /\ end # 0 /\ shown' = [end |-> end, energy |-> Energy(samples, end)]
      /\ frozen' = IF at > prefix.through THEN longer ELSE frozen
      /\ reading' = [reading EXCEPT ![r] = NoRead]
      /\ UNCHANGED <<now, log>>
  BY DEF FinishRead
<1>2. now \in Ticks /\ now \in Nat /\ DOMAIN reading = Readers /\ AreRows(log) /\ Speaks
  BY StalenessFacts DEF EnergyInv, EnergyTypeInv, EnergyTypeOK, Ticks, AreRows
<1>3. /\ end \in Boundaries(now) /\ end \in Nat /\ end \in 0..now /\ end <= now
      /\ prefix = NoPrefix \/ \E e \in Boundaries(end) : KeptOf(prefix, e)
  <2>1. /\ end \in Boundaries(now) /\ end \in 0..now
        /\ prefix = NoPrefix \/ \E e \in Boundaries(end) : KeptOf(prefix, e)
    BY <1>1 DEF EnergyInv, EnergyTypeInv, EnergyTypeOK
  <2> HIDE DEF end
  <2> QED
    BY <1>2, <2>1
<1> HIDE DEF end, prefix
\* Whatever the read resumes from, it samples the day as a whole read does, ...
<1>4. /\ samples = WholeSamples(end)
      /\ \A a \in Settled(end) : a > prefix.through =>
           state[a].offset = WholeState(end)[a].offset /\ state[a].segment = WholeState(end)[a].segment
  <2>1. CASE prefix = NoPrefix
    BY <2>1 DEF WholeSamples, WholeState
  <2>2. CASE \E e \in Boundaries(end) : KeptOf(prefix, e)
    <3>1. PICK e \in Boundaries(end) : KeptOf(prefix, e)
      BY <2>2
    <3>2. PICK a0 \in Settled(e) : prefix = Prefix(WholeSamples(e), WholeState(e), a0)
      BY <3>1 DEF KeptOf
    <3>3. e \in Nat /\ e <= end /\ e <= now /\ e \in Boundaries(now)
      BY <1>2, <1>3, StalenessFacts DEF Boundaries
    <3>4. samples = WholeSamples(end)
      BY <1>2, <1>3, <3>2, <3>3, ResumedReadsWhole
    <3>5. a0 \in -1..LastTick /\ \A t \in a0..LastTick : AlikeSince(state, WholeState(end), a0, t)
      BY <1>2, <1>3, <3>2, <3>3, ResumesAlike
    <3>6. prefix.through = a0
      BY <3>2 DEF Prefix
    <3> HIDE DEF state, samples
    <3>7. ASSUME NEW a \in Settled(end), a > prefix.through
          PROVE  state[a].offset = WholeState(end)[a].offset /\ state[a].segment = WholeState(end)[a].segment
      <4>1. a \in Ticks
        BY <1>2, <1>3, BoundaryFacts DEF Settled
      <4>2. a \in a0..LastTick
        BY <3>5, <3>6, <3>7, <4>1, StalenessFacts DEF Ticks
      <4> QED
        BY <3>5, <4>2 DEF AlikeSince
    <3> QED
      BY <3>4, <3>7
  <2> QED
    BY <1>3, <2>1, <2>2
<1>5. prefix.through >= 0 /\ prefix.through \in Int
  BY StalenessFacts DEF EnergyInv, EnergyTypeInv, PrefixTyped, Ticks, prefix
<1> HIDE DEF state, samples
\* ... and what it keeps is what that read would keep.
<1>7. frozen' = NoPrefix \/ \E e \in Boundaries(now) : KeptOf(frozen', e)
  <2>1. CASE at > prefix.through
    <3>1. KeptOf(frozen', end)
      <4>1. at \in Settled(end)
        <5>1. Settled(end) \in SUBSET (0..end)
          BY <1>3, StalenessFacts DEF Settled, Boundaries
        <5>2. Settled(end) # {}
          BY <1>5, <2>1
        <5> QED
          BY <1>3, <5>1, <5>2, GreatestOf
      <4> HIDE DEF at
      <4>2. state[at].offset = WholeState(end)[at].offset /\ state[at].segment = WholeState(end)[at].segment
        BY <1>4, <2>1, <4>1
      <4>3. longer = Prefix(WholeSamples(end), WholeState(end), at)
        BY <1>4, <4>2 DEF Prefix
      <4> QED
        BY <1>1, <2>1, <4>1, <4>3 DEF KeptOf
    <3> QED
      BY <1>3, <3>1
  <2>2. CASE ~(at > prefix.through)
    BY <1>1, <2>2 DEF EnergyInv
  <2> QED
    BY <2>1, <2>2
<1>9. \A q \in Readers : reading'[q] = IF q = r THEN NoRead ELSE reading[q]
  BY <1>1, <1>2
<1>10. shown'.end = end /\ shown'.energy = WholeDay(end)
  BY <1>1, <1>4 DEF WholeDay
<1>11. EnergyTypeInv'
  BY EnergyTypeStep DEF EnergyInv, EnergyNext
<1>12. \A e : KeptOf(frozen, e)' <=> KeptOf(frozen', e)
  BY <1>1 DEF KeptOf, WholeSamples, WholeState, Queried
<1>13. ReadsAsTheWholeDay' /\ Speaks'
  <2>1. WholeDay(shown.end)' = WholeDay(shown'.end)
    BY <1>1 DEF WholeDay, WholeSamples, WholeState, Queried
  <2> QED
    BY <1>1, <1>2, <1>10, <2>1 DEF ReadsAsTheWholeDay, Speaks
<1>14. ASSUME NEW q \in Readers, (reading[q].end # 0)'
       PROVE  (/\ reading[q].end \in Boundaries(now)
               /\ \/ reading[q].prefix = NoPrefix
                  \/ \E e \in Boundaries(reading[q].end) : KeptOf(reading[q].prefix, e))'
  <2>1. \A e : KeptOf(reading[q].prefix, e)' <=> KeptOf(reading'[q].prefix, e)
    BY <1>1 DEF KeptOf, WholeSamples, WholeState, Queried
  <2>2. reading'[q] = reading[q]
    BY <1>9, <1>14 DEF NoRead
  <2> QED
    BY <1>1, <1>14, <2>1, <2>2 DEF EnergyInv
<1>15. shown'.end \in 0..now'
  BY <1>1, <1>2, <1>3, <1>10
<1> QED
  BY <1>1, <1>7, <1>11, <1>12, <1>13, <1>14, <1>15 DEF EnergyInv

LEMMA MeterReportsKeeps == ASSUME EnergyInv, MeterReports PROVE EnergyInv'
<1>1. PICK v \in Values : log' = [t \in {now} \cup DOMAIN log |-> IF t = now THEN v ELSE log[t]]
  BY DEF MeterReports
<1>2. UNCHANGED <<now, frozen, reading, shown>> /\ now \notin DOMAIN log
  BY DEF MeterReports
<1>3. now \in Ticks /\ now \in Nat /\ \A t \in DOMAIN log : t \in Nat /\ t <= now
  BY StalenessFacts DEF EnergyInv, EnergyTypeInv, EnergyTypeOK, Ticks
<1>4. DOMAIN log' = {now} \cup DOMAIN log /\ \A t \in DOMAIN log : log'[t] = log[t]
  BY <1>1, <1>2
\* No read has an end behind the new row.
<1>5. ASSUME NEW e \in 0..now PROVE Queried(NoPrefix, e)' = Queried(NoPrefix, e)
  <2>1. {t \in DOMAIN log' : (NoPrefix.through = 0 \/ t > NoPrefix.through) /\ t < e}
        = {t \in DOMAIN log : (NoPrefix.through = 0 \/ t > NoPrefix.through) /\ t < e}
    BY <1>3, <1>4, <1>5
  <2> QED
    BY <1>4, <2>1 DEF Queried, Restrict
<1>6. ASSUME NEW e \in 0..now
      PROVE  WholeDay(e)' = WholeDay(e) /\ \A p : KeptOf(p, e)' <=> KeptOf(p, e)
  BY <1>5 DEF KeptOf, WholeDay, WholeSamples, WholeState
<1>7. EnergyTypeInv'
  BY EnergyTypeStep DEF EnergyInv, EnergyNext
<1>8. Speaks'
  <2> SUFFICES ASSUME NEW t \in DOMAIN log', t + MaxQuiet < now
               PROVE  \E u \in DOMAIN log' : t < u /\ u <= t + MaxQuiet
    BY <1>2 DEF Speaks
  <2>1. t \in DOMAIN log
    BY <1>3, <1>4, StalenessFacts
  <2> QED
    BY <1>4, <2>1 DEF EnergyInv, Speaks
<1>9. \A e \in Boundaries(now) : e \in 0..now
  BY <1>3, StalenessFacts DEF Boundaries
<1>10. ReadsAsTheWholeDay'
  BY <1>2, <1>6 DEF EnergyInv, ReadsAsTheWholeDay
<1>11. (frozen = NoPrefix \/ \E end \in Boundaries(now) : KeptOf(frozen, end))'
  <2>1. \A e \in Boundaries(now) : KeptOf(frozen, e)' <=> KeptOf(frozen, e)
    BY <1>2, <1>6, <1>9 DEF KeptOf
  <2> QED
    BY <1>2, <2>1 DEF EnergyInv
<1>12. ASSUME NEW q \in Readers, (reading[q].end # 0)'
       PROVE  (/\ reading[q].end \in Boundaries(now)
               /\ \/ reading[q].prefix = NoPrefix
                  \/ \E e \in Boundaries(reading[q].end) : KeptOf(reading[q].prefix, e))'
  <2>1. reading[q].end \in Boundaries(now) /\ \A e \in Boundaries(reading[q].end) : e \in 0..now
    <3>1. reading[q].end \in Boundaries(now)
      BY <1>2, <1>12 DEF EnergyInv
    <3> QED
      BY <1>3, <1>9, <3>1, StalenessFacts DEF Boundaries
  <2>2. \A e \in Boundaries(reading[q].end) : KeptOf(reading[q].prefix, e)' <=> KeptOf(reading[q].prefix, e)
    BY <1>2, <1>6, <2>1 DEF KeptOf
  <2> QED
    BY <1>2, <1>12, <2>1, <2>2 DEF EnergyInv
<1> QED
  BY <1>2, <1>7, <1>8, <1>10, <1>11, <1>12 DEF EnergyInv

LEMMA PassesKeeps == ASSUME EnergyInv, Passes PROVE EnergyInv'
<1>1. now < LastTick /\ now' = now + 1 /\ QuietSince < MaxQuiet
      /\ UNCHANGED <<log, frozen, reading, shown>>
  BY DEF Passes
<1>2. now \in Ticks /\ now \in Nat /\ \A t \in DOMAIN log : t \in Nat /\ t <= now
  BY StalenessFacts DEF EnergyInv, EnergyTypeInv, EnergyTypeOK, Ticks
<1>3. /\ \A e : KeptOf(frozen, e)' <=> KeptOf(frozen, e)
      /\ \A q \in Readers : \A e : KeptOf(reading[q].prefix, e)' <=> KeptOf(reading[q].prefix, e)
      /\ ReadsAsTheWholeDay'
  BY <1>1 DEF EnergyInv, ReadsAsTheWholeDay, KeptOf, WholeDay, WholeSamples, WholeState, Queried
<1>4. Speaks'
  <2> SUFFICES ASSUME NEW t \in DOMAIN log, t + MaxQuiet < now + 1
               PROVE  \E u \in DOMAIN log : t < u /\ u <= t + MaxQuiet
    BY <1>1 DEF Speaks
  <2>1. MaxQuiet \in Nat /\ t \in Nat
    BY <1>2, StalenessFacts
  <2>2. CASE t + MaxQuiet < now
    BY <2>2 DEF EnergyInv, Speaks
  <2>3. CASE t + MaxQuiet = now
    <3> DEFINE last == Max(DOMAIN log)
    <3>1. DOMAIN log \in SUBSET (0..now) /\ DOMAIN log # {} /\ log # <<>>
      BY <1>2
    <3>2. last \in DOMAIN log
      BY <1>2, <3>1, GreatestOf
    <3>3. now - last < MaxQuiet
      BY <1>1, <3>1 DEF QuietSince
    <3> HIDE DEF last
    <3>4. t < last /\ last <= t + MaxQuiet
      BY <1>2, <2>1, <2>3, <3>2, <3>3
    <3> QED
      BY <3>2, <3>4
  <2> QED
    BY <1>2, <2>1, <2>2, <2>3
<1>5. now' \in Ticks /\ \A x \in 0..now : x \in 0..now'
  BY <1>1, <1>2, StalenessFacts DEF Ticks
<1>6. \A e \in Boundaries(now) : e \in Boundaries(now')
  BY <1>1, <1>2, StalenessFacts DEF Boundaries
<1>7. EnergyTypeInv'
  BY EnergyTypeStep DEF EnergyInv, EnergyNext
<1> QED
  BY <1>1, <1>3, <1>4, <1>5, <1>6, <1>7 DEF EnergyInv

LEMMA EnergyStepKeeps == Steady /\ EnergyInv /\ [EnergyNext]_energyVars => EnergyInv'
<1> SUFFICES ASSUME Steady, EnergyInv, [EnergyNext]_energyVars PROVE EnergyInv'
  OBVIOUS
<1>1. CASE \E r \in Readers : StartRead(r)
  BY <1>1, StartReadKeeps
<1>2. CASE \E r \in Readers : FinishRead(r)
  BY <1>2, FinishReadKeeps
<1>3. CASE MeterReports
  BY <1>3, MeterReportsKeeps
<1>4. CASE Passes
  BY <1>4, PassesKeeps
<1>5. CASE UNCHANGED energyVars
  <2>1. UNCHANGED <<now, log, frozen, reading, shown>>
    BY <1>5 DEF energyVars
  <2> QED
    BY <2>1, EnergyTypeStep DEF EnergyInv, Speaks, ReadsAsTheWholeDay, KeptOf, WholeDay, WholeSamples,
                WholeState, Queried
<1> QED
  BY <1>1, <1>2, <1>3, <1>4, <1>5 DEF EnergyNext

LEMMA EnergyInvHolds == ASSUME Steady PROVE EnergySpec => []EnergyInv
  BY EnergyStarts, EnergyStepKeeps, PTL DEF EnergySpec

(* A boundary that had settled when a read ended at one boundary has the same sample,
   or none, in a read of the whole day that ends later: _find_freeze_boundary's "can
   never change again", of a steady meter. *)
SettledIsFinal ==
  \A end, later \in Boundaries(now) : end <= later =>
    \A b \in Settled(end) :
      /\ b \in DOMAIN WholeSamples(end) <=> b \in DOMAIN WholeSamples(later)
      /\ b \in DOMAIN WholeSamples(end) => WholeSamples(end)[b] = WholeSamples(later)[b]

(* What has settled of the day is final, if the meter is steady. *)
THEOREM SettledStaysFinal == ASSUME Steady PROVE EnergySpec => []SettledIsFinal
<1>1. ASSUME EnergyInv PROVE SettledIsFinal
  <2>1. now \in Ticks /\ AreRows(log) /\ Speaks
    BY <1>1 DEF EnergyInv, EnergyTypeInv, EnergyTypeOK, AreRows
  <2>2. \A e \in Boundaries(now) : e \in Nat /\ e <= now
    BY <2>1, StalenessFacts DEF Boundaries, Ticks
  <2> QED
    BY <2>1, <2>2, SampleIsSettled DEF SettledIsFinal
<1> QED
  BY <1>1, EnergyInvHolds, PTL

(* The state beside the schedule is of its type, and a read of the day's energy that
   resumes from what an earlier one kept answers what a read of the whole day would,
   however many reads overlap and whenever the meter reports or resets; if it is steady. *)
THEOREM BackgroundHolds == ASSUME Steady PROVE Spec => []BackgroundInvariant
<1>1. Init => RealityInit /\ TrainingInit /\ EnergyInit
  BY DEF Init
<1>2. [Next]_backgroundVars =>
        [RealityNext]_realityVars /\ [TrainingNext]_trainingVars /\ [EnergyNext]_energyVars
  BY DEF Next, backgroundVars
<1>3. Spec => RealitySpec /\ TrainingSpec /\ EnergySpec
  BY <1>1, <1>2, PTL DEF Spec, RealitySpec, TrainingSpec, EnergySpec
<1>4. EnergyInv => ReadsAsTheWholeDay
  BY DEF EnergyInv
<1>5. RealityTypeOK /\ TrainingTypeOK /\ EnergyTypeOK /\ ReadsAsTheWholeDay => BackgroundInvariant
  BY DEF BackgroundInvariant
<1> QED
  BY <1>3, <1>4, <1>5, RealityTypeCorrect, TrainingTypeCorrect, EnergyTypeCorrect, EnergyInvHolds, PTL
=============================================================================
