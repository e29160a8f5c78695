---------------------------- MODULE TrainingBatch ----------------------------
(***************************************************************************)
(* The training batch (training/batch.py), the artifacts its jobs store    *)
(* (training/artifacts.py, TrainingArtifactsStore in storage.py), the      *)
(* refits a coordinator asks for when it starts, and the "train now"       *)
(* button (training/websocket.py), over config saves and restarts.         *)
(*                                                                         *)
(* Each load of the entry makes a coordinator of its own, a generation,    *)
(* with its batch and its copy of the artifacts' document.  The document   *)
(* has a section for each job but the solar one, which keeps its own       *)
(* store.  What a section holds is told by the configuration it was        *)
(* trained for, its fingerprint: a number, 0 for none.                     *)
(***************************************************************************)
EXTENDS Naturals, Sequences

CONSTANTS
  LastGeneration,   \* bound: the entry is loaded this many times
  MaxFailures,      \* bound: jobs that fail
  MaxClicks,        \* bound: clicks on "train now"
  Timer             \* "on" when the daily timer is set

ASSUME TrainingBounds ==
  LastGeneration \in Nat \ {0} /\ MaxFailures \in Nat /\ MaxClicks \in Nat
ASSUME TimerAssumption == Timer \in {"on", "off"}

Generations == 1..LastGeneration
Sections    == {"house", "appliance"}
AllJobs     == <<"solar", "house", "appliance">>
Configs     == 1..LastGeneration
Idle        == [by |-> "none", todo |-> <<>>, at |-> "start"]

VARIABLES
  gen,              \* the live generation
  cfg,              \* the configuration each generation was loaded with
  run,              \* each generation's _run_task: who started it, its jobs left, where the first is
  mem,              \* each generation's copy of the document
  disk,             \* the document on disk
  started,          \* "yes" once Home Assistant has started
  due,              \* refits that wait for the start
  click,            \* the click being served: its generation and its jobs
  failures, clicks

(* History, read by the properties only. *)
VARIABLE ranSince   \* the jobs that finished in the click's batch since the click

trainingVars == <<gen, cfg, run, mem, disk, started, due, click, failures, clicks, ranSince>>

Jobs(seq)   == {seq[i] : i \in DOMAIN seq}
NoClick     == [gen |-> 0, jobs |-> <<>>]
Running(g)  == run[g].by # "none"

TrainingTypeOK ==
  /\ gen \in Generations /\ cfg \in [Generations -> Configs]
  /\ \A g \in Generations :
       /\ run[g].by \in {"none", "refit", "nightly", "manual"}
       /\ run[g].at \in {"start", "reading", "rebuilding"}
       /\ Len(run[g].todo) <= 3 /\ Jobs(run[g].todo) \subseteq Jobs(AllJobs)
       /\ Running(g) = (run[g].todo # <<>>)
  /\ mem \in [Generations -> [Sections -> 0..LastGeneration]]
  /\ disk \in [Sections -> 0..LastGeneration]
  /\ started \in {"yes", "no"} /\ Jobs(due) \subseteq Sections
  /\ click.gen \in 0..LastGeneration /\ ranSince \subseteq Jobs(AllJobs)
  /\ failures \in 0..MaxFailures /\ clicks \in 0..MaxClicks

(* Sections whose stored artifact is missing or of another configuration: a *)
(* refit is due for each, in the order setup adopts them.                    *)
Stale(document, config) == {s \in Sections : document[s] # config}

Refits(document, config) ==
  LET refit(s) == IF s \in Stale(document, config) THEN <<s>> ELSE <<>>
  IN refit("appliance") \o refit("house")

TrainingInit ==
  /\ gen = 1 /\ cfg = [g \in Generations |-> 1]
  /\ run = [g \in Generations |-> Idle]
  /\ disk \in [Sections -> {0, 1}]
  /\ mem = [g \in Generations |-> disk]
  /\ started = "no" /\ due = Refits(disk, 1)
  /\ click = NoClick /\ ranSince = {}
  /\ failures = 0 /\ clicks = 0
-----------------------------------------------------------------------------
(* _async_single_flight: join the run in flight, whatever it runs, or start one. *)
SingleFlight(r, by, jobs) ==
  IF r.by # "none" THEN r ELSE [by |-> by, todo |-> jobs, at |-> "start"]

(* The refits of one start, each through the single flight: with the first   *)
(* there is a run in flight, and the others join it and return when it does.  *)
AfterRefits(r, refits) ==
  IF refits = <<>> THEN r ELSE SingleFlight(r, "refit", <<Head(refits)>>)

HomeAssistantStarts ==
  /\ started = "no" /\ started' = "yes"
  /\ run' = [run EXCEPT ![gen] = AfterRefits(@, due)]
  /\ due' = <<>>
  /\ UNCHANGED <<gen, cfg, mem, disk, click, failures, clicks, ranSince>>

(* Faulty variant: the timer runs the solar bias fit alone. *)
NightlySolarOnly ==
  /\ Timer = "on"
  /\ run' = [run EXCEPT ![gen] = SingleFlight(@, "nightly", <<"solar">>)]
  /\ UNCHANGED <<gen, cfg, mem, disk, started, due, click, failures, clicks, ranSince>>

(* The daily timer: the whole batch. *)
Nightly ==
  /\ Timer = "on"
  /\ run' = [run EXCEPT ![gen] = SingleFlight(@, "nightly", AllJobs)]
  /\ UNCHANGED <<gen, cfg, mem, disk, started, due, click, failures, clicks, ranSince>>

(* Faulty variant: no busy check, the click joins. *)
ClickableAlways == click = NoClick

(* ws_train_now rejects a click while a run is in flight. *)
Clickable == click = NoClick /\ ~Running(gen)

Click ==
  /\ Clickable
  /\ clicks < MaxClicks /\ clicks' = clicks + 1
  /\ \E jobs \in {AllJobs} \cup {<<j>> : j \in Jobs(AllJobs)} :
       /\ run' = [run EXCEPT ![gen] = SingleFlight(@, "manual", jobs)]
       /\ click' = [gen |-> gen, jobs |-> jobs]
  /\ ranSince' = {}
  /\ UNCHANGED <<gen, cfg, mem, disk, started, due, failures>>
-----------------------------------------------------------------------------
(* One job of the run of generation g, step by step. *)

Job(g) == Head(run[g].todo)

ReadRecorder(g) ==
  /\ Running(g) /\ run[g].at = "start"
  /\ run' = [run EXCEPT ![g].at = "reading"]
  /\ UNCHANGED <<gen, cfg, mem, disk, started, due, click, failures, clicks, ranSince>>

(* _async_write_section: the generation's copy with its section replaced is  *)
(* the document that goes to disk, whole.                                     *)
WriteSection(g, fingerprint) ==
  /\ mem' = [mem EXCEPT ![g][Job(g)] = fingerprint]
  /\ disk' = mem'[g]

(* Fitted for the configuration of the coordinator it runs under. *)
JobSucceeds(g) ==
  /\ Running(g) /\ run[g].at = "reading"
  /\ IF Job(g) \in Sections THEN WriteSection(g, cfg[g]) ELSE UNCHANGED <<mem, disk>>
  /\ run' = [run EXCEPT ![g].at = "rebuilding"]
  /\ UNCHANGED <<gen, cfg, started, due, click, failures, clicks, ranSince>>

(* Faulty variant: the failure's record replaces what was last trained. *)
FailureRecordBare(g) == 0

(* _async_record_failure keeps what was last trained. *)
FailureRecord(g) == mem[g][Job(g)]

JobFails(g) ==
  /\ Running(g) /\ run[g].at = "reading"
  /\ failures < MaxFailures /\ failures' = failures + 1
  /\ IF Job(g) \in Sections THEN WriteSection(g, FailureRecord(g)) ELSE UNCHANGED <<mem, disk>>
  /\ run' = [run EXCEPT ![g].at = "rebuilding"]
  /\ UNCHANGED <<gen, cfg, started, due, click, clicks, ranSince>>

(* Faulty variant: the flight is never over. *)
AfterJobStaysBusy(r) == [r EXCEPT !.todo = Tail(@), !.at = "start"]

(* The next job, failed or not; the flight ends behind the last. *)
AfterJob(r) ==
  IF Len(r.todo) = 1 THEN Idle ELSE [r EXCEPT !.todo = Tail(@), !.at = "start"]

(* The result is adopted, the forecast rebuilt, and the job's outcome kept. *)
JobEnds(g) ==
  /\ Running(g) /\ run[g].at = "rebuilding"
  /\ run' = [run EXCEPT ![g] = AfterJob(@)]
  /\ ranSince' = IF click.gen = g THEN ranSince \cup {Job(g)} ELSE ranSince
  /\ UNCHANGED <<gen, cfg, mem, disk, started, due, click, failures, clicks>>

(* The run a click started is over: a coordinator that has taken its place   *)
(* reads the document again, asking for no refit, and the click is answered. *)
ClickAnswered ==
  /\ click # NoClick /\ ~Running(click.gen)
  /\ mem' = IF click.gen = gen THEN mem ELSE [mem EXCEPT ![gen] = disk]
  /\ click' = NoClick
  /\ UNCHANGED <<gen, cfg, run, disk, started, due, failures, clicks, ranSince>>
-----------------------------------------------------------------------------
(* What ends a run with the coordinator: the tasks of its refits are         *)
(* cancelled, the others run on under a coordinator nobody uses.             *)
AfterUnload(r) == IF r.by = "refit" THEN Idle ELSE r

Load(config, runs, startedNow) ==
  LET g == gen + 1
      refits == Refits(disk, config)
  IN /\ g \in Generations /\ gen' = g
     /\ cfg' = [cfg EXCEPT ![g] = config]
     /\ mem' = [mem EXCEPT ![g] = disk]
     /\ run' = IF startedNow = "yes" THEN [runs EXCEPT ![g] = AfterRefits(@, refits)] ELSE runs
     /\ due' = IF startedNow = "yes" THEN <<>> ELSE refits
     /\ started' = startedNow
     /\ UNCHANGED <<disk, failures, clicks>>

(* A config save reloads the entry, with the configuration changed for the   *)
(* trainers or not.                                                           *)
ConfigSave ==
  /\ \E config \in {cfg[gen], gen + 1} :
       Load(config, [run EXCEPT ![gen] = AfterUnload(@)], started)
  /\ UNCHANGED <<click, ranSince>>

(* Home Assistant stops and starts: every run is lost. *)
HomeAssistantRestarts ==
  /\ Load(cfg[gen], [g \in Generations |-> Idle], "no")
  /\ click' = NoClick /\ ranSince' = {}

Step(g) == ReadRecorder(g) \/ JobSucceeds(g) \/ JobFails(g) \/ JobEnds(g)

TrainingNext ==
  \/ HomeAssistantStarts \/ Nightly \/ Click \/ ClickAnswered
  \/ \E g \in Generations : Step(g)
  \/ ConfigSave \/ HomeAssistantRestarts

TrainingSpec == TrainingInit /\ [][TrainingNext]_trainingVars

(* Home Assistant starts, every night comes, and a run under way goes on. *)
TrainingFair ==
  /\ WF_trainingVars(HomeAssistantStarts) /\ SF_trainingVars(Nightly) /\ WF_trainingVars(ClickAnswered)
  /\ \A g \in Generations : WF_trainingVars(Step(g))
-----------------------------------------------------------------------------
(* What the batch promises. *)

(* A click is answered once every job it asked for has finished in its batch *)
(* since: never with the outcome of another run.                              *)
ClickGetsItsOwnOutcome ==
  [][click # NoClick /\ click' = NoClick /\ gen' = gen => Jobs(click.jobs) \subseteq ranSince]_trainingVars

(* While the live coordinator's copy is the document and no superseded one   *)
(* has a run in flight, an artifact that answers the configuration is not    *)
(* replaced by one that does not, by failed jobs least of all.               *)
FittedIsKept ==
  [][gen' = gen /\ mem[gen] = disk /\ (\A g \in Generations \ {gen} : ~Running(g)) =>
       \A s \in Sections : disk[s] = cfg[gen] => disk'[s] = cfg[gen]]_trainingVars

(* In the end every section answers the live configuration, in memory as on  *)
(* disk: what a lost or dropped refit leaves behind, a night repairs.         *)
NightsRepair == <>[](Stale(mem[gen], cfg[gen]) = {} /\ disk = mem[gen])
-----------------------------------------------------------------------------
(* Not kept by the code; TLC refutes them (README, "Known limits").          *)

(* Every refit due when Home Assistant starts is made, without waiting for   *)
(* the night.                                                                 *)
EveryDueIsRefitted == <>(Stale(mem[gen], cfg[gen]) = {})

(* FittedIsKept, whatever the coordinators before the last are still doing. *)
FittedIsKeptAcrossReloads ==
  [][gen' = gen => \A s \in Sections : disk[s] = cfg[gen] => disk'[s] = cfg[gen]]_trainingVars

(* No two jobs read the recorder at the same time. *)
ReadsNeverOverlap ==
  \A g, h \in Generations : g # h => ~(run[g].at = "reading" /\ run[h].at = "reading")
=============================================================================
