# Helman, specified

Helman is a Home Assistant integration (Python, `src/custom_components/helman/`) with cards, a
configuration panel and dialogs (TypeScript, `src/frontend/`). It forecasts a house's solar yield and
consumption, plans what the battery inverter and the large appliances should do in each quarter of an
hour, and, when *execution* is on, makes the hardware follow the plan. This directory holds TLA+
modules of the parts whose correctness depends on the order of things. On the server: the execution
switch and the worker behind it, the executors that drive appliances and the inverter, the
automation run that rewrites the schedule, the requests that start it, the forecast it plans from,
the check that defers a stale plan, the training batch, the resumable reader of energy meters and the
charging ledger. In the browser: what a tab's views share, the day editor, the configuration's
editors, the solar inspector, the energy cards with their details, and the dialogs on the browser's
history.

Paths below are relative to `src/custom_components/helman/` unless they begin with `src/` or
`cards/` or `config-editor/` (under `src/frontend/`).

## 1. The system

### 1.1 How it runs

Everything but recorder queries and the optimizers' arithmetic runs on one asyncio event loop. No
two pieces of code run at once, but every `await` of a lock, the disk, a service call or an executor
job lets any other task run. The hard behaviours are therefore interleavings *at awaits*, not at
instructions: state read before an await and used after it, requests that arrive during one, a task
cancelled in one, a service call that fails, or takes effect after its caller gave up. Restarts and
reloads (a config save unloads the entry and sets up a new coordinator in the same process) end
tasks in the middle. The actions of the modules are what one task does between two awaits.

The browser is the same again: one event loop a tab, tasks for messages, timers and presses, and
promise continuations that run before the next task. What makes it hard is the wire: an answer
describes the house at some moment since it was asked for, answers to different requests come in
any order or not at all, an announcement of a change may arrive while a read that left before the
change is still out, other clients write the same documents, and the person goes on pressing, browsing and
going Back meanwhile.

What the parts share:

    websocket calls, cards                    timers: 30 s, 15 min, nightly
        |        \                              |        |         |
        v         v                             v        v         v
    set_schedule  set_schedule_execution    executor   forecast   training
        |         |        \                  ^   |      |  ^       batch
        v         v         \ enable waits    |   |      |  +--------+ adopted
     ScheduleService (document, locks) -------+   |      |    results
        ^         ^          request_reconcile    |      v
        |         |                               |   triggers <--+ reality check:
        |         +---- run persists its plan     |      |        | re-plan
        |                      ^                  |      v        |
      storage            AutomationRunner <-------+-- one run ----+
                                                  v
                             InverterExecutor, AppliancesExecutor
                                    |                 |
                              mode select      drivers: switch, climate, EV
                                    v                 v
                             vendor entities   appliance entities

    power changes, tick, details --> EvSessionService (ledger, lock) --> storage

    server --- websocket --- tab: change feed --> shared store --> cards, details, badges
                              |                      |
                              |                      +--> schedule owner --> day editor host
                              |                                                 | day editor, band
                              +--> configuration panel, dialogs, switches       |
                              +--> solar inspector          dialogs' history <--+-- node details

### 1.2 Components

For each: the state it keeps, its operations, what is hard, what makes it correct, and the module.

**Automation triggers** (`automation/triggers.py`). State: a pending request with a debounce task, a
run task, one follow-up request, a shutdown flag. Operations: immediate request, debounced request,
shutdown. Hard: a request between a run's end and the loop's look at the follow-up; cancelling a
debounce that has just fired. Correct: at most one run; the newest request is never lost and an
older one never runs behind it; nothing after shutdown. *AutomationTriggers*, *LatestRequest*,
*PlanningProofs*.

**Execution switch** (`scheduling/schedule_service.py`). State: the schedule document (flag and
slots) in memory and on disk, a document lock, a flag lock, a generation counter. Operations:
`set_execution`, `set_slots`, reads that prune, the automation's persist. Hard: an enable stores the
flag, then *waits* for a hardware attempt without the locks; anything may overtake it. Correct: the
flag is what the newest decision made it; a disable that was answered holds; a failed enable undoes
itself and nothing newer. *ScheduleExecution*, *ScheduleProofs*.

**Reconcile worker and actuator gate** (`scheduling/schedule_executor.py`, `scheduling/actuation.py`).
State: one pending request with waiters, a worker task, the runtime (what was last applied, what the
card shows). Operations: request, request-and-wait, an attempt (reality check, read, inverter,
appliances, publish), start, tick, stop, unload. Hard: a request during an attempt; a disable between
two hardware calls; cancelled workers with waiters. Correct: no call begins after a disable was
answered; every waiter is resolved; every write is read by an attempt that comes to its end, or an attempt taken
up after it defers or raises. *ScheduleExecution*.

**Appliance execution** (`appliances/execution.py`, `appliances/drivers.py`). State: per appliance a
memory of the last applied action, the slot, and a latch for a refused start. Operations: apply an
action, leave alone, stop a run that ended. Hard: an EV start is turn-on, wait, select; failures
between; restarts that lose the memory; users who switch by hand. *ApplianceExecution*, *PlanningProofs*.

**Inverter execution, mode select, vendor mode tables** (`scheduling/schedule_executor.py`
`InverterExecutor`, `scheduling/action_resolution.py`, `select.py`, `vendors/`). State: the last
applied action, the noop cache, the select's option and lock, the vendor registers. Operations:
resolve, pick, restore after an override, drift repair. Hard: a mode is several register writes; the
user may pick too; the registers move on their own. *InverterExecution*, *InverterExecutionProofs*.

**Schedule document and ownership** (`scheduling/schedule.py`, `automation/ownership.py`,
`automation/base.py`). State: slot by slot, lane by lane, an action and whose it is. Operations:
strip, merge, veto, patch, prune, registry normalization. *ScheduleOwnership*.

**Automation run** (`automation/pipeline.py`). State: the working copy, phase and place in the
optimizer loop, the explanation and day-band records. Operations: load and strip, gather, three
phases of optimizers, record, persist, ask for a reconcile. Hard: awaits everywhere under a lock the
registry does not respect; failures in any phase; restarts. Correct: the stored plan is one run's;
the user's actions survive. *AutomationRun*, *ScheduleProofs*.

**Day contexts** (`automation/day_context.py`, `automation/day_context_store.py`). State: for each day
and optimizer the band (surplus, tight, deficit) it was last planned by, on disk. Operations: load
before a run's loop, classify with a deadband around the held band, the battery's veto on a surplus,
record behind the loop, merged and pruned. Hard: runs that fail or are cut short, days without
prices, optimizers and days beside each other. Correct: a ratio that hovers at a threshold flips no
band. *DayBands*, *PlanningProofs*.

**Execution conditions and the reality check** (`automation/condition_evaluator.py`,
`automation/conditions/evaluation.py`, `coordinator.py`). State: the map of the conditions the plan
was built from and when. Operations: evaluate, compare, defer and re-plan, record. Hard: conditions flip and
plans are made between the check and the read; the check itself may raise. Correct: nothing of a stale
plan is applied that a check found unmet, and attempts are not deferred for good. *RealityCheck*,
*BackgroundProofs*.

**Training batch and artifacts** (`training/batch.py`, `training/artifacts.py`, `storage.py`). State:
the run in flight, one document of fitted sections with the configuration each answers, in memory
(once per coordinator) and on disk. Operations: nightly run, refits at start or config save, train
now. Hard: single flight joins; runs that outlive a reload. *TrainingBatch*,
*BackgroundProofs*.

**The day's energy slots** (`today_slot_readers.py`, `energy_unwrap.py`, `recorder_slot_energy.py`).
State: a kept prefix of the day per meter: samples, offset, segment. Operations: read the whole day
by resuming from the prefix; keep what has settled. Hard: counters reset, glitch and round; the
classification of a drop needs readings behind it; reads overlap. *SlotEnergy*.

**Forecast service** (`forecast/service.py`). State: the canonical snapshots, the single-flight
refresh, a pipeline lock, a cached pipeline with what it was built from. Operations: refresh at a
slot's start and behind training results and bias changes, read (build under the lock, or take the
cache), unload. Hard: a reader and the refresh build behind awaits from what they read before them.
Correct: no read is answered with what was superseded before its turn; what was learned last is
served in the end. *ForecastPipeline*, *PlanningProofs*.

**Charging ledger** (`ev_sessions/`, with the walk in `node_details/ev_charger.py`). State: per
charger, segments of charging with their energy, how far the history was read forwards and
backwards, in memory and on disk. Operations: reconcile for a power change, the tick or a detail;
backfill a day; delayed save; unload. Hard: reads overlap and repeat, a reconciliation's *now* is
taken before it waits for the lock, a change may be newer than it. Correct: no change is left unread, no
energy is kept for other bounds, and, as long as no read was behind a change it saw, the ledger is what one
read of the whole history would give. *ChargingLedger*, *ScheduleProofs*.

**Change feed, shared store, shared schedule** (`cards/shared/data/`, `cards/shared/schedule/
schedule-owner.ts`). State: the revisions announced, the reads on their way, the schedule with its
writes, the subscribers. Correct: what is kept or handed out is not older than what was announced;
views at rest are current. *DataFeed*, *SharedStore*, *ScheduleOwner*; *WebSharedProofs*.

**Day editor** (`cards/shared/schedule/dialogs/`, `components/scheduling-entity-day-band.ts`,
`model/`). State: the draft per lane, the session that places a block, the press under way, the
host's write. Hard: a second finger or a lost pointer in the middle of a press, a schedule that
changes under the draft, a save's answer that meets another opening. Correct: blocks and edges stay
apart, a pan takes nothing, what is saved is what is shown, the dialog closes over its own success.
*DayEditor*, *DayBand*, *DayEditorHost*; *DayBandProofs*, *WebSharedProofs* (the host).

**Configuration editors** (`config-editor/helman-config-editor.ts`, `cards/shared/devices/`, `cards/shared/
optimizer/`, `cards/node-detail/admin-config-controller.ts`, `cards/shared/config/`). State: a draft of
the whole document, the revision it was loaded at, whether it has unsaved edits, checks and saves on
their way. Hard: edits while an answer is out; other clients' saves. Correct: the mark of unsaved
edits can be relied on, others' work is not replaced, nothing older is shown over something newer.
*ConfigWire*, *ConfigPanel*, *ConfigDialogs*, *AdminSwitch*, *DraftAnswers*; *WebViewsProofs*.

**Solar inspector** (`cards/helman-solar-inspector/`). State: what is browsed, each view's data and
request, the stops and pills, what is picked. Correct: at rest the view is of what is browsed, what
is picked is lit, nothing goes back to older data. *Inspector*, *SlotSelection*, *WebViewsProofs*.

**Energy cards, node details** (`cards/shared/energy-card-host.ts`, `cards/node-detail/`). State: the
tree, history and inverter of a card with its engine; a detail's overview and sections with their
ages. Correct: one engine, never blank without a reason, figures known to be as old as they are.
*EnergyCard* (*WebSharedProofs*), *NodeDetail* (*WebViewsProofs*).

**Dialogs and the browser's history** (`cards/shared/dialog-history-controller.ts`). State: the
entries on the tab's history and which dialog answers for each. Correct: one Back for each dialog in
the order they opened. *DialogHistory*; *DialogHistoryProofs*.

Parts without a module, or that need none:

| Part | State and operations | Why not |
|---|---|---|
| Optimizers, rails, ranking (`automation/optimizers/`) | pure choice of actions from price, surplus and projection series | *AutomationRun* takes any choice they may make; their own arithmetic needs small discretised instances (plan) |
| Optimizer configuration and migration | one-call document rewrites | no state, no concurrency |
| Trainers (`training/house_consumption.py`, ...) | fits over recorder rows | numeric, one call |
| Solar bias (`solar_bias_correction/`) | training and application of factors, a status | numeric |
| Battery simulation | floating-point projection of state of charge | plan: a pure function on a grid |
| Coordinator | wires the parts; the calls that join modelled parts are in their modules | the rest is sensor and report plumbing |
| Storage | one JSON value per store; memory before disk | the schedule's, the artifacts' and the ledger's are modelled with their users |
| Websocket API, configuration validation, controllables | argument checks around one call; a pure check of one document | shallow |
| Live power, sensors, groups | ring buffers recomputed every 5 s | nothing but buffers is carried over |
| Recorder readers, backfills | reads, an external-statistics cursor | the cursor is in the plan |
| Inspectors' and details' server side, device reports | read-only views | no state |
| Forms, charts, diagrams, device editor's fields | drawing and edits of a draft by one pair of hands | the draft's life is in *ConfigPanel* and *ConfigDialogs* |
| Vendor EV profile, dev stub, scripts | tables and tooling | nothing depends on them |

## 2. The modules

One module per component; a module's header says what an action is and what was abstracted. Names
follow the code. A definition called like another with a suffix (`StripWhoever`,
`SettledTooSoon`, ...) is a *faulty variant*, one plausible bug, there to show that a property can
tell the difference; no specification uses it.

Components that interact are composed: *ScheduleExecution* is switch, worker and gate, *AutomationRun*
uses *ScheduleOwnership*, *DayEditorHost* stands on *ScheduleOwner*, and that on *DataFeed*; *DayBand* on
*DayEditor*; *ConfigPanel*, *ConfigDialogs* and *AdminSwitch* on *ConfigWire*; *Inspector* on
*SlotSelection*. Components that share nothing but a process are put side by side for checking only:
*MCPlanning*, *MCSchedule*, *MCBackground*, *MCWebShared* and *MCWebViews* choose one of their parts at
the start, and the behaviour is that part's, the others resting in an initial state. What holds of
such a sum holds of each part, with the part's own fairness.

### AutomationTriggers, LatestRequest
`pending`, `followUp`, `debounceTask` and `shutdown` are the coordinator's fields; `phase[t]` is
where the run loop serving request `t` stands, so two loops are expressible. Requests are numbered
as they are accepted, and `accepted`, `serving`, `handed` remember the newest accepted, running and
handed ones. `RequestImmediate` and `RequestDebounced` are the two entry points, `DebounceDispatch` the
end of the sleep, `CallbackReturns`/`TakeFollowUp` the run loop with the await between them,
`Shutdown`/`ShutdownReturns`/`RunUnwinds` the cancellation. LatestRequest is the promise: a box that
holds the newest request, hands each at most once and in order, and closes; the refinement maps its
request to the pending, follow-up or dispatched one.

### ScheduleExecution (composition of switch, worker, gate)
`flag`/`slots`/`disk` is the document, `flagLock`/`docLock` the two locks, `generation` the counter
a rollback compares, `pc[c]` the place of each caller in `set_execution`, `pending`/`serving` the
waiters of the queued request and of the attempt, `worker` the attempt's place, `runtime` whether
what the card shows is of this on-period. `decided`, `enabler` and `ackOff` are history. Every
await is a state: waiting for a lock, for the disk, for the hardware, for a waiter. `looked` is history: the
version of the slots an attempt was taken up with, or the one it has read since. An attempt that defers, or
raises, is credited with no more, so a request lost behind it does not pass for served. The
reconcile's result is `applied`, `deferred` (reality check), `failed` (a `ScheduleError`) or
`broken` (any other exception); *ApplianceExecution* and *InverterExecution* open up what `applied`
means. Slots are a version number: what is in them is *AutomationRun*'s.

### ApplianceExecution
One appliance, one memory. The rigid variable `driver` says whether it is set by a single call (switch,
climate) or is an EV charger with its sequence of calls. `plan` is the slots' actions,
`charge`/`mode`/`limit` the device, `order` a turn-on the charger has yet to carry out, `memory` the
executor's memory with its latch, `pc`/`act`/`at` the attempt. History: `run` is what Helman last carried
through, `owned` whether the appliance runs by Helman's doing, `touched` whether something else
changed it since the last successful apply, `failing` whether an attempt failed since that the memory
knows nothing of, `refused` what the last refused start looked like. A
call may be refused, or unanswered and yet take effect. `Effect` and `ComesOn` are the device.

### InverterExecution
`hw` is the vendor registers over the SolaX table, `seen` what Home Assistant polled of them last,
`shown` the select's option, `pick[p]` the write sequence of each picker (the executor, the user)
under the select's lock, `attempt` the executor's attempt behind its pick, `memory` what it applied
last and the noop cache. History: `moved` is the registers something else moved, `owned` whether an
override the executor recorded is in force, `applied` its last success. The battery's state of charge
is short of the target, has met it, or is unknown.

### ScheduleOwnership, AutomationRun
A document maps (slot, lane) to nobody's, the user's or the automation's action, the latter with the
run and phase that placed it; the operators are the code's pure functions. The run's actions follow
`AutomationRunner.run` stage by stage; an optimizer may write any slots of its lane, fail, or do
nothing. The document lock is held from `Begin` to the end, so user edits and readers wait, but
`RefreshRegistry` and restarts do not. Explanation and day bands are the number of the run they are
of. `live` is what the entities would accept, `known` what the registry last read.

### DayBands
A ratio is a point of a grid on which the thresholds and the deadband lie; one (day, optimizer), any,
is `watched` at every ratio, with the battery full or not, the others at the extremes. A run loads
(`previous`), its optimizers emit over any of today and tomorrow, and `RecordsBands` merges and prunes
before the plan is stored; it may fail or be cut short in each place. `last` and `crossed` are history:
the band recorded while it could be read again, and the ratio at which it crossed each threshold.

### RealityCheck
One slot, stamped with the group that committed it; `planned` is the map of the last recorded plan,
`age` whether the freshness window has passed since, `docAge` since the stored plan was made. The
executor's attempt is `Attempt` (with the check), `Read`, `Apply`; the run is `Gather` and `Persist`,
with the reconcile it asks for before the record, in the code's order. Any subset of groups
is met at any time; conditions may flip at any step. `Check` ends in one of three ways: it defers, it lets the
attempt go on, or it raises (`CheckRaises`: the automation's configuration cannot be read, or the evaluation
as a whole fails), and then the plan is executed as it is. `checked` is history: "no" from a check that
raised to the end of its attempt. One entry that raises counts as not met, and is a group that is not in `met`.

### TrainingBatch
Coordinators are generations: a reload makes the next one while runs of the older go on. Each has
its copy `mem[g]` of the artifacts' document; a section's value is the configuration it was fitted
for. `run[g]` is the single flight; a job is started, reads the recorder, writes, rebuilds the
forecast. `click` is a train-now call with the coordinator it began on.

### SlotEnergy
Time is in ticks, a slot two of them, the rebound window four, the readings a function from some
ticks to values. `frozen` is the kept prefix, `reading[r]` a read under way, which took the prefix
before it queried and keeps its own behind. `WholeDay` is the reference: the same query with no
prefix. The recorder's exclusive end bound is kept, with the end of a read in the future of none of
its readings.

### ForecastPipeline
`house` is the published snapshots by the profile and bias they were made with, `learned` what there is
to be made from, `refresh` the single flight's place, `line` the pipeline's lock with its queue,
`work[w]` a reader or the refresh's own warming read: asked, preparing (with the lock) or building,
with the age of the snapshots and the schedule it has in hand. Times and ages are relative and
saturate (`Oldest`, `MaxAge`), so nothing counts up. `lag` is history: how far the last answer was behind what
was current when its turn came.

### ChargingLedger
`power` is the history of the charge power, as the instants at which it crosses; `ledger` and `stored`
are the segments with the cursors in memory and on disk, `queue` the lock, `asOf[p]` the *now* a task
was begun with. The folding is the code's: `ChargingRuns` walks a read into runs, `FoldRuns` lays them on
the segments, `Closed` ends the active ones a live read no longer sees, `Measured` reads the energy of
what is not final; all of them are functions over what has been read so far. A segment's energy is the
bounds it was measured for. The reference in `FoldsAsTheWholeHistory` is the same walk over all that was ever
recorded, at once. `told`, `missed` and `phantom` are history: whether the newest live read saw every
crossing, whether one failed since, and whether one has left a segment that ends before it starts. With
such a segment in the ledger the two need not be alike ever after: it can take over a stretch that comes
later over a bridged gap, or cut its start, which takes three crossings, or two and a restart. So
`FoldsAsTheWholeHistory` speaks of behaviours without one, and `PhantomsComeLate` says what it takes to get one.

### DataFeed, SharedStore, ScheduleOwner
The tab's connection keeps the order of what the server sends; what the tab asks is taken up in any
order. Data is its version. *SharedStore* is the roster and the automation's record with four
readers that come and go; a call counts in `again` the overtaken answers it asked again behind, since a failing
read is asked for once more for each (`cards/shared/data/store.ts:150`). *ScheduleOwner* is the shared schedule with
its reads, writes and cues, where `Resumes` runs the promise continuations a task freed before the next task. An answer of the store reaches
all who await it in one turn. `Ids` are names for the reads on their way: one for each write and two more
are enough, since the store forgets the read it knows of only behind a write (`NamesAssumption`; that
no name is given twice is part of `OwnerInv`).

### DayEditor, DayBand, DayEditorHost
`ed` is the editor's state: lane, drafts, the edges that hold equal neighbours apart, the session with
the block it places, and what was there before. `now` is the slot the editor last sampled, `clock` the real
one. *DayBand* is the press under way (`drag`, `paint`, `pan`, the pointers down) over a window of
slots. *DayEditorHost* has the opening, the write and the refusals; there a draft is the number of
its last edit.

### ConfigWire, ConfigPanel, ConfigDialogs, AdminSwitch, DraftAnswers
A document is the number of other clients' saves it contains and the marks this client's edits set; a
revision is the document. The wire has one admin connection with reads, saves and the announcement
behind a reload. The panel, the dialogs and the switches are each one such client; a dialog is one
opening. *DraftAnswers* has the polls and lookups about a draft.

### Inspector, SlotSelection
Days are numbers; a month is two days, a year two months. `day` and `span` are the two kinds of view with what
they show and wait for, `flying` the requests, each with the moment of the house its answer will carry;
`SpanKeys` are what may be asked for.
*SlotSelection* is the pure transitions of what is picked.

### EnergyCard, NodeDetail, DialogHistory
*EnergyCard*: `card` is the host with its calls, `reads` what the tab shares, `pushed` what Home Assistant last sent
of each entity. *NodeDetail*: `detail` is the overview and one section of one of three kinds, with the time it
was last asked for and read; `missed` is history: the reads that failed, and `"news"` once a detail that
leaves the page calls off what was to bring an announcement's data (its own reload, or the section's
read behind it). *DialogHistory*: `tab` is the browser's entries, each with the keys of the
dialogs at the time, the traversals on their way (`going`), and each dialog's own list of ids.

## 3. The runs

Twelve runs: eight that hold and four that show where the code departs from what its own text says.

| Run | Parts and bounds | Asks | Answer |
|---|---|---|---|
| planning | triggers: 5 requests, a shutdown; forecast: 1 reader, 1 change of profile and bias, 1 save, 1 raise or failed rebuild; bands: 2 optimizers, 2 days, 5 ratios, 1 reload; appliance: both kinds of driver, 2 slots, 3 edits, 1 hand, 1 failing call | the triggers implement *LatestRequest*; reads are current, answered, and what was learned is served; no band flips on a hovering ratio; a success leaves the appliance as planned, only own runs are stopped, a refused start is not repeated, it converges | holds |
| forecast_superseded | 1 reader, 1 change | nothing superseded stays cached behind a refresh | **violated** |
| schedule | execution: 2 callers, 3 calls, 1 slot write, 1 hardware call, failures and raises; automation: 2 slots, the inverter, 1 appliance, 2 runs, 1 edit, 1 flip, 1 restart; ledger: 1 charger, 2 days of 3 instants, 2 crossings, 1 call, 1 mishap | the flag is the newest decision, no call behind an answered disable; the plan is one run's, the user's actions survive; every change is read, no energy is final under bounds that moved, no segment ends before it starts until a live read leaves one, and before that the ledger is what one read of the whole history gives | holds |
| execution_live | 2 callers, 2 calls, 1 write, attempts that break, fair | every call returns; every write is read, or an attempt taken up after it defers or raises | holds |
| ledger_phantom | the ledger, no mishap | every segment is a stretch | **violated** |
| appliance_half_started | the charger, 3 edits, 1 refused call | after a success the appliance is as planned, whatever became of the attempts before | **violated** |
| inverter | 2 kinds of override, 2 slots, 2 edits, 1 hand, 1 failing write, fair | the option shown is one option's registers, only own overrides are reset, it converges | holds |
| background | reality: 2 groups, 3 flips, 1 failing run, 1 restart; training: 2 generations, 1 failure, 1 click; energy: 2 readers, 4 readings in 11 ticks; fair | nothing stale that its check found unmet is applied, deferring ends unless an optimizer is broken; a click's own outcome, fitted is kept, nights repair; resuming answers as a whole-day read would | holds |
| energy_quiet_meter | 1 reader, one value, 2 readings in 10 ticks, silent up to 9 | a resumed read has what a whole-day read has, whatever the silence | **violated** |
| web_shared | 3 changes, 2 writes, 1 failure, 2 edits, 2 openings; 2 news, 3 visits; 2 configurations, 5 loads | views at rest are current, errors are about this draft, the dialog closes on its own success; nothing is handed out behind what was announced; the card's one engine | holds |
| web_editor | 2 lanes of 3 slots, 3 acts, 2 touches and a mouse, 1 foreign write | blocks and edges, pans, drags, and what a save sends | holds |
| web_views | 2 other saves, 2 edits, 4 requests; 3 drafts, 6 polls; 3 presses of the inspector; 2 nodes and 8 touches; 5 reads of a detail | marks, others' work, closing, what is picked and shown, one Back each, ages; nothing shown goes back | holds |

**Bounds.** Every bound is a constant (`Max...`, `Last...`) in a guard. They are the smallest with
which each faulty variant is caught and every action fires: two callers and three calls let a
disable *and* a second enable overtake a waiting one, which is the longest overtaking the generation
counter has to tell apart; two slots give a run's end followed by an empty slot; two runs give an
older plan to be replaced; two generations a superseded coordinator; four readings a value, a drop,
what classifies it and one more; a day and a day behind it with a read margin over midnight, a
stretch over it, and a gap longer than the one that is bridged; eight touches a trail of two nodes
opened and left with Backs in between. One reader beside the refresh is enough for the forecast's
liveness and its counterexample; that reads are current is proved for any number. Five reads of a detail
show a refresh over a refresh; a detail that leaves the page during the reload behind an announcement
takes seven, which no run of this size reaches, and *WebViewsProofs* covers any number. One appliance and one
system optimizer are enough in *MCSchedule*, any number is in the proofs. The two callers, and the
two touches, are interchangeable, and the runs without liveness use that symmetry.

**Fairness.** Weak fairness of each task's steps is what the event loop gives: a task that can run
runs. Strong fairness stands where a task competes for a lock, which asyncio serves first come first
served, and for the nightly timer, which comes every night but may find a run in flight. Hardware
and disk calls end because the actuator bounds them with a timeout and the loop's executor returns.
The tick is fair because Home Assistant's timer is. Nothing makes a user call, edit, flip or restart;
liveness is about the behaviour once these stop, and their bounds make them stop. Where bounds run
out, a coordinator has shut down or an executor is unloaded, nothing is left to do: those
configurations, and only those, switch deadlock checking off. The browser's parts are checked for
safety; "in the end" is said there as what holds at rest, with nothing on its way.

**What the models assume of the browser.** A connection's messages are handled in order, one turn
at a time. There is one pair of hands, with at most two touches down; Back moves one entry; nobody
leaves the page while a write waits its turn, or presses something while a dialog's history entry is
being released or its own traversal is on its way. Show more's 500 ms timer, and the last slot of
the day editor's horizon running out, are not modelled. Today does not change under the inspector,
and its pills' history reads are left out.

**Where code and text disagree.**

- *appliance_half_started*: a charger's turn-on worked, the select behind it failed, the slot ends.
  The memory does not have the run, so the empty slot finds nothing to stop and the charger charges
  on, though "it finds the slot covering now and makes the inverter and each appliance match it"
  (`src/README.md:370`). The same gap has a second way out: the plan is edited, the attempt at the new
  action fails after its first call took effect, and the plan is edited back within the slot. The
  memory still holds the first action of this slot, `Applied` skips it as a noop
  (`appliances/execution.py:112-116`), and "ok" is reported over an appliance that is not so.
  `MatchesPlan` and `Settled` of the passing run therefore speak of runs an attempt carried through
  (`run = "started"`), and leave out what is remembered from before a failure (`failing`).
- *forecast_superseded*: a reader asked for later than the slot's start has the lock when the refresh
  publishes. It samples the cache's revision after that, so what it then builds of the snapshots it had
  is stored, and being the later one keeps the refresh's own pipeline out: just what the comment
  at `forecast/service.py:2125-2134` says must not happen. The next reader that compares with the
  canonical snapshots mends it; those that take the cache without a signature meanwhile do not.
  The window is the wait for the schedule's document in `prepare`, which a prune's save can hold.
- *ledger_phantom*: a reconciliation's *now* is taken before it waits for the lock and reads, and
  `with_live_state` adds the state that holds when it has read. When charging began in between, the
  walk closes that run at the older *now*, before its start. The next read finds the stretch again,
  makes a second segment of the same id, and the first stays, with no energy. It takes a crossing
  within the read of another reconciliation (the tick's, a detail's). Nothing else makes such a segment
  (`PhantomsComeLate`, proved in section 4), and until one is made the ledger folds as it should.
- *energy_quiet_meter*: a boundary whose carry is too old, with no later reading yet, is kept without a
  sample once the rebound window has passed (`_settled_prefix`, `today_slot_readers.py:283-310`). The
  reading that then shows the same value tells a read of the whole day that nothing moved, and gives
  the silent slots the energy zero; the reads that resume never look at kept boundaries again, and lack
  those slots until midnight. `today_slot_readers.py:294` takes a kept boundary for one "whose sample can
  never change again", and `tests/test_recorder_carry_staleness.py:376-377` has a resumed read judge
  staleness "exactly as a fresh, cold read of the same data would". With the states of that file's own
  quiet meter (305-310), read at a quarter past eleven after a read at each boundary, the two differ.
  The passing run keeps `MaxQuiet` within `Rebound`; that this is what it takes is proved (section 4).

**Known limits.** What else the models show the code not to keep, each with the precondition or the
bound by which the passing runs step around it. A property named here stands in its module, mostly
under "Not kept by the code"; naming it in a configuration of the module shows the trace.

On the server:

- An attempt that is past its gate when a disable resets the runtime publishes into the new one
  (`RuntimeOfThisPeriod`, `scheduling/schedule_executor.py:718`).
- A restart forgets what Helman left running: the slots it would be looked up in are pruned by the
  next save of the document (`scheduling/schedule_executor.py:861`). `Forget` gives the appliance
  away.
- A timed-out call that did take effect begins a run that the memory does not have either
  (`AlwaysMatchesPlan` with `Faults = {"unanswered"}`).
- An override of the inverter that failed behind its first write is not recorded, and an empty slot
  leaves it in place until something is scheduled again; `owned` means *recorded and in force*.
- Registers that match no option at the very first start leave the select without a state, and the
  executor does not pick from an unknown state (`Start = "foreign"`, `Converges`).
- The explanation of a run is recorded before a persist that can still fail on a registry that
  changed meanwhile (`ExplainedRunCompleted`, `automation/pipeline.py:513`).
- A registry that loses and regains an appliance during a run: the stored document is normalised
  without the user's action, the run's copy still has it, and the merge stores it as the automation's
  (`NothingTakenOver`, needs `MaxFlips = 2`).
- Only a completed run records its map of conditions. An optimizer that raises on every run leaves
  the old one, and once a condition has flipped every attempt is deferred, the user's own slots
  included (`AppliesAgain`, `DeferringAlwaysEnds`).
- A check that raises is passed over: when the automation's configuration or the evaluation as a whole raises,
  the stale plan is executed as it is, met or not, in the log's words "as-is"
  (`UnmetNeverApplied`, `automation/condition_evaluator.py:68`, `coordinator.py:1461`).
  `UnmetNotApplied` exempts such an attempt.
- The groups of an optimizer are compared as one truth value, and a stored plan is not checked until
  the first run after a restart (`OwnConditionHolds`); `UnmetNotApplied` asks for less.
- A run asks for its reconcile before its map is recorded, so a re-plan can ask for one more
  (`ReplanSettles`, `automation/pipeline.py:533`).
- With both sections due at a start, the second refit joins the first one's run and is not made until
  the night (`EveryDueIsRefitted`; no night, `Timer = "off"`).
- A manual or nightly training run outlives the reload of its coordinator: it reads the recorder
  beside the new one's refit (`ReadsNeverOverlap`) and saves its older document over a section the
  new one has fitted (`FittedIsKeptAcrossReloads`). `NightsRepair` shows that a night mends it.
- A refresh asked for by a training result joins the one under way, which has read the older profile
  (`training/artifacts.py:73-75`); so does one asked for by a bias that changed after the publication
  (`coordinator.py:610-613`). Both wait for the next quarter of an hour; `LearnedIsServed` holds
  because time passes.
- A meter whose last word is a reset, and that stays silent for longer than the rebound window
  (`MaxQuiet` above `Rebound`): the drop is frozen before it is recognised, and the hour is dropped. A meter
  that wavers within a tenth of its value: a kept prefix is resumed from the value its carry had, where the
  whole-day read has dropped the wavering rows (`Values = {9, 10}`).
- Within a read margin of midnight, a backfill whose read misses what the live read has already folded
  (the recorder commits late) takes the end of a stretch back until the next live read; and a live
  read whose *now* is older than a read's before it leaves the stretch still going inactive until the next
  (`told` leaves both out).

- The bands of an optimizer that is switched off are pruned by the next run, since it is handed the enabled
  optimizers (`automation/pipeline.py:502-508`), not the configured ones `day_context_store.py:76-78` speaks of: switched
  on again, it has nothing that damps its first band. A surplus the battery takes away and gives back
  is not damped either; the deadband is the ratio's.

In the browser:

- Of two writes that overlap, the older one's answer may come second: it is committed over the newer's
  and stays until the next cue (`AlwaysCurrentWhenQuiet`, `schedule-owner.ts:185-187`). Likewise the read
  owed after the first of them may fail while the second is out: the second's answer, made before what
  that read was for, then clears the failure's mark. `overtaken` remembers either.
- The roster and badges keep the old data when the re-read behind an announcement fails, until the next
  one; the history engine of a card stays stopped after a failed reload behind a reconnect; a
  reconnect that overtakes a configuration's re-read may join reads from before it.
- A slot that ends between a press on the band and its first move lets the drag reshape the block that was
  selected before (`AlwaysDragsItsOwnBlock`, band 1344-1346).
- The day editor stays editable while its save is out, and the save's success closes it over what was
  edited meanwhile (`NeverClosesOverAnUnsavedEdit`, `scheduling-day-editor-host.ts:449`).
- An edit typed into a clean draft while an announced reload's read is out is replaced by what the read
  brings, without being asked about (`EditsSurviveLoads`, `helman-config-editor.ts:379-392`); a document that
  changes while a load or a save is under way is not always called stale (`StaleIsSaid`).
- Another client's work is overwritten in two cases (`OthersWorkIsAlwaysKept`): its save reaches the server
  after this one's revision was compared and before this one is on disk, or a dialog is told to reload while
  its own load is out. The switches of a Control view may rest on the document before the newest when an
  announcement meets a press (`SwitchesCatchUp`).
- A press on a lane while a cancelled editor is still on its way out reopens it with the cancelled draft
  (`CancelledIsGone`, *DayEditorHost*; compare `scheduling-entity-day-editor.ts:2332-2338`); a press that
  replaces an editor whose save is out leaves that save's refusal unsaid (`RefusalIsShown`).
- The inspector: a day's load that a browsing in a month or a year supersedes leaves its request and
  its overlay standing (`OverlayEnds`; compare `helman-solar-inspector.ts:1565-1570`); an announcement during
  a load of the same day is dropped with it (`AnnouncedIsShown`); a silent refresh behind a failed load
  clears the error and leaves the view empty; a failed span leaves its request standing.
- Dialogs on the history: a reload of the tree that loses the detail's node takes the dialog out of
  the page with its entry left behind (`energy-card-host.ts:242-247`; the day editor guards against this);
  Forward into a dialog that was closed; an editor whose write succeeds under a detail opened over
  it takes the detail's entry; and a release under a detail with a longer trail steps back too
  little (`dialog-history-controller.ts:73-90`). Such a behaviour ends as `astray`, and the invariant
  is about those that are not.
- Back in a trail can open a node of the tree before the last reload, and an open detail keeps the
  node of the tree it was opened from.
- A detail taken out of the page and put back keeps a section's figures through announcements it
  did not hear, or whose refresh it called off by leaving, until they are old; a failed refresh behind a change of mode is not tried again; and a
  reader that returns to a hidden page receiving pushes need not catch up at once.

## 4. The proofs

TLC checks the instances above; the theorems hold for every value of the constants that satisfies
the modules' assumptions, with every leaf checked. A proofs module follows a run: what the run puts
side by side is proved part by part, then of the whole, since a step of one part leaves the others alone.

**PlanningProofs** (the run *planning*).

*AutomationTriggers*, any number of requests. The inductive invariant `IInv` is `TypeOK`,
`TasksAgree` (a sleeping debounce is *the* debounce task and has a pending request, an active run is
the one run whose phase is not over, nothing of either while closed) and `RequestsAgree` (`handed`,
`followUp`, `pending` and `accepted` are in order, and the newest accepted is one of the others).
Neither `OneRunAtATime` nor `NewestRequestKept` is inductive by itself: that a second run cannot start
follows only from `activeRun` naming the one that lives, and that the newest request survives a run's
end only from the order of the numbers. From `IInv` follow `TypeCorrect`, `OneRun`, `NewestKept`,
`DebounceIdle`, `Quiet` and, step by step, `OnlyNewer`; `Implements` shows that each action is a step of
LatestRequest or leaves its state alone. The run keeps the refinement, which has the liveness in it.

*ForecastPipeline*, any readers and any numbers of changes, saves and failures. `PipelineInv` is
`Turn(w)` of every worker and `RefreshInv`. `Turn` is what the lock gives: who holds it has seen whatever was
published before its turn, ages with every publication since as the answer's reference does, and
builds with a schedule at least as new as the one stored when it was asked for. `ReadsAreCurrent`
is not inductive without it, since an answer is given many steps after its turn came. `EveryReadIsCurrent`
follows; `QuietAfterUnload` is a step by step argument from `RefreshInv`. The type needs more than any of
these, `LockInv`: that whoever is on its way stands in the line once, and that all but its head
wait (`InLine`). Without it nothing says that the head is the one that leaves.

*DayBands*, any optimizers, days, thresholds and deadband. `BandsAreDamped` is about the ratio of
a crossing made runs ago; what carries it is that the store's record of the watched pair is the band
last recorded (`StoreIsLast`), that a run holds what it loaded until it records (`RunHoldsTheStore`),
and that what was emitted was classified against that (`EmittedByReading`). `BandsReturnBySwings` follows: between
two crossings of one threshold the ratio moves by twice the deadband.

*ApplianceExecution*, any modes, slots and numbers of edits, hands and failing calls, both kinds of
driver and of failure. `ApplianceInv` is the type, `ForItsAct` (which calls an attempt may be waiting for,
given its action), `MemoryKnows` (the memory, the newest run and the last refusal are of one mind),
`AsDecided` (while nobody else touches the appliance, a call under way finds it as the attempt did),
`DoneIsDone` and `MatchesPlan`. `MatchesPlan` alone is not inductive: a success that is a noop is as good as the
memory, so what the memory says must be true of the appliance (`DoneIsDone`), and what it says of an
empty slot must be the newest run's (`MemoryKnows`), which is also what `StopsOnlyOwnRuns` and `RefusalsHold`
rest on. That an appliance is never switched off on the document's word needs `EmptySlotHasNoLast`: in the
slot that is empty, nothing before it is left to be the last scheduled action.

`PlanningHolds` puts the four together: the invariant the run checks.

**InverterExecutionProofs**: any starting mode, slots and numbers of edits, hands and failed writes, of
both kinds. `InverterInv` is `InType` (the type, picks that go through their writes in order, one of
them inside the select's lock), `MemoryKnows` and `RegistersKnown`. `MemoryKnows`: an attempt for an
empty slot executes *normal*, an override of the executor's own is one its memory would still stop, what
it would stop it applied last, and no override is left behind an empty slot. `RegistersKnown` carries
`ShownIsOneOption` over the many steps of a pick: the writes done so far are in the registers
(`WrittenSoFar`), what is shown between picks is what they hold (`ShownKept`), and before anything is
shown what Home Assistant sees of them (`SeenKept`), each but for what something else moved and what a
pick of another option has written. `InverterSound` and `StopsOnlyOwnOverrides` follow.

**ScheduleProofs** (the run *schedule*, whose parts do not step together; `PartsAreThemselves` says that
what is proved of each by itself holds in the run).

*ScheduleExecution*, any callers, calls, writes and hardware calls. `ExecutionInv` is `TypeOK` and five
parts. `LocksHeld`: who holds `flagLock` or `docLock` is who stands in the section it guards.
`DocumentSound`: disk and memory differ only while a client holds the document lock, and an edit under
way still has the flag it read. `FlagDecided`: the flag is the newest decision's but while a client
makes another, and what an answered disable left holds meanwhile. `GenerationTells`: an enable whose
generation is the present one is the enabler of the present on-period, and one whose generation is not
has been decided over; this is what the code's `generation` comparison relies on and what none of the
properties says by itself. `QueueSound`: a waiter is in exactly one of the pending request and the attempt,
and one that was told "ok" was really served. Each part is kept by a lemma of its own, with one step per
action; `FlagDecided` needs the generations (a rollback may write only if nobody decided since) and
`GenerationTells` the locks (two decisions never overlap). From `ExecutionInv` follow `ExecutionTypeCorrect`,
`NewestDecision`, `DisableHolds` and `WaitersServed`, and step by step `CallsGated`, `RollbackOwn`,
`AnnouncedOnce` and `FailedUndone`.

*AutomationRun*, any appliances, optimizers, slots and bounds. `AutomationInv` is its type; `Control`
(where a run stands and what it has by then); `Plain` of the document and of the run's copy (an
action of nobody's carries no run number); `PlanIsOfOneRun` and `OffMeansNoPlan`; and `RunInv`: what
the run's copy carries of the user's is what the document still has, up to what the registry has
dropped since (`Carried`), and whatever it has of the automation's is this run's (`WorkingPlan`).
`MergeNeverConflicts` needs all of it: the merge happens many steps after the copy was taken, and
what keeps the two alike meanwhile is that every writer of the document waits for the run's lock and
that the readers who do not only take away. Proved are `AutomationTypeCorrect`, `PlanOfOneRun`,
`NoPlanWhenOff`, `NoConflict`, and as action properties `UserSurvives` and `PlanChangesReconciled`.

*ChargingLedger*, any history, gaps, waits, failures, reloads and crashes. `LedgerInv` says of the lock's
queue that each task stands in it once, and that those that are to read stand in the order of the moments
they read up to (`QueueStands`), and of the last change that, unless a read of it failed, the cursor is past
it, a task in the queue is to read past it, or the running one was told (`ChangeIsToBeRead`). The order is
what makes the second inductive: a read moves the cursor to its own now, and must neither move it back nor
pass by a task that waits with an older one. `ChangesFolded`, the conjunct `ChangesAreFolded` of the
run's `LedgerInvariant`, is the case of tasks at rest.

The rest of `LedgerInvariant` is about what the folds leave, `MeasuredInv`: what is kept is made of `Segments`, whose
bounds lie between instants that have been, whose energy, once final, is that of the bounds as they are, and
which, unless a late read has left one (`phantom`), do not end before they start; and nothing that a read
begins from is ahead of the moment it reads up to (`Dated`). That the walk, the merge, the close, the sort and the
measurement keep this is proved for sequences of any length: `RecursionExists` says that a function built step
after step is there, `Reaches`, by a least counterexample, that what each step keeps holds at the last. The
walk keeps starts before ends because the rows it walks are in the order of their instants (`Ordered`): the rows
of one read are, the row in force comes first only if the read begins before it ends (`ReadStartIs`, which
needs the queue's order again, since a task that waits must not be behind what another seeds meanwhile), and the live
state comes last only if the task's own now is not older. The last is what the code does not see to. The merge
keeps it because a run lands only on a segment it touches. `LedgerHolds` and, step by step, `PhantomsHaveOneCause`
follow: *ledger_phantom* has one cause.

**BackgroundProofs** (the run *background*).

*RealityCheck*, any groups and numbers of flips, re-plans, failures and restarts. `RealityInv` is the
type, `RecordIsOfThePlan` (a fresh record is of a fresh plan, and what a record says of a committed
action had some group met) and `CheckHeld`: an attempt that is past its check and reads a plan older
than the window found a group met, or no record of one, or its check raised. `UnmetIsNotApplied` is a step of the attempt that
comes after the check, with flips and re-plans between the two, so it needs all three.

*TrainingBatch*, any generations, configurations, failures and clicks. `BatchInv` is the type, with the
flight's jobs in order (`InFlight`: there is a run exactly while it has jobs left), and `ClickServed`: the
jobs a click asked for have finished since, or are the manual run's of the click's own coordinator, finished
or left. `ClicksAreServed` is the promise to the one who clicked, though the run may be joined by a refit and
its coordinator be replaced; `WhatIsFittedIsKept` is a step by step argument over the type, under the
property's own condition that only the live coordinator runs (without it the code does not keep it,
section 3).

*SlotEnergy*, any readers, readings, slots and windows. A read that resumes has thrown away the rows its prefix
stands for, so `ReadsAsTheWholeDay` is about rows it does not see. `EnergyInv` says what the prefix has
instead: every one, kept or in the hands of a read under way, was kept of a read of the whole day that
ended at some boundary before (`KeptOf`), and the meter has not been silent for longer than it may be
(`Speaks`). The argument goes along the unwrap. Two reads of which one ends later unwrap alike up to what has
settled (`ResetsAreSettled`, `WholeIsSettled`): whether a drop is a reset is decided within the rebound window.
What differs behind it does so only until the next row at or above the segment's maximum, and then not at
all (`UnwrapsAlike`); so does a read that resumes (`ResumesAlike`). A sample may also change by the staleness
limit, which looks *ahead* to the next reading that counts: `OldCarryClimbsBack` shows that one which is too
old to be carried, but for that reading, has found it within the window. With these a settled boundary has
the sample it has for good (`SampleIsSettled`) and a read that resumes has all of the whole day's
(`ResumedReadsWhole`). `SettledStaysFinal`, `EnergyTypeCorrect` and `BackgroundHolds`, the run's
`BackgroundInvariant`, follow.

The two that speak of samples assume a `Steady` meter: no silence longer than the rebound window (`MaxQuiet <= Rebound`), and
no drop that stays within a tenth of the value. The code sees to neither, and without either they are
false: *energy_quiet_meter* is a meter without the first, the wavering meter of section 3 one without the
second. The proof found the former; until then the run's bounds had hidden it. The run satisfies both.

**WebSharedProofs** (the run *web_shared*): any readers, kinds of data, events, visits and failures; any
names, commands and lost answers.

*SharedStore*. `StoreInv` is `StoreSound` and that every mounted reader is `CaughtUp`. `StoreSound` says of the
reads under way that the one to join was asked for since the last announcement (`ReadsStand`), of
what is kept that it is not behind it and has no read beside it (`KeptStands`), of the calls that each
has its read and Explain's is of this turn (`CallsStand`), and of what is shown that it is not ahead of what
may be given next (`SeenStands`). The last is what makes `ReadersGetOnlyCurrent` provable: that a reader
is never given less than it has is not a fact about the store, but about every read that could
still answer.

*EnergyCard*. `CardInv` says that the read a call awaits, or one that would be joined, is of the last
announcement, unless the call was overtaken (`LoadStands`); that what is neither loaded nor being loaded
has failed, and what runs is the one engine (`CardProgress`); and that what is drawn is watched and what is
watched is there (`CardWatches`). `CardHolds` is the property the run checks.

*ScheduleOwner*, *DayEditorHost*. The wire first (`WireInv`): each command
has one name and one answer, and an answer that is not of the newest schedule has the announcement of a
newer one behind it on the connection. `OwnerInv` is the type with that (`Typed`), `Linked` (whoever
waits, waits for something that is under way), `Attached` (who listens, given who looks), `Counted` (there are no
more unnamed reads than writes, so that a free name is left) and `Accounted`, which is the reason for the
others: as long as a view looks, what is shown is the newest schedule, or something is under way that will
make it so (an announcement, a read owed or out, a write whose answer is the newest), or a failure is shown or
will be. `CurrentWhenQuiet` is its case with nothing under way. `HostInv` adds the day editor's host: a
save is out from its press to its answer, and while it is no reason is kept; a reason that is kept is
a refusal's (`ReasonsStand`). With `HostIsOwner` (every step of the host is one of the owner's or leaves it
alone) follow `HostIsCurrentWhenQuiet`, `ReasonIsOfARefusal` and, step by step, `DialogClosesOnItsOwn`.
`SharedIsItsParts` shows that a behaviour of the whole tab is one of each of its parts, from which
`SharedHolds` and `TabKeepsUp`.

**DayBandProofs** (the run *web_editor*): any lanes, actions and number of slots, any plans read and written
meanwhile, any pointers, keys and moments for the slots to pass. `BandInv` is `Typed`, `HandsStand` and
`PressedIsThere`. The heart of `Typed` is `EditorSound`, kept by every method of *DayEditor*: an edge
is kept only where the draft shows the same on both sides (`EdgesHold`), and an open session was opened on a
block of the user's as it was in the draft the session restores before it places anything
(`SessionStands`, `OpenedOn`). Both `LettingGoKeepsTheBlocks` and `MovedBackIsAsBefore` say what would be
drawn *if*, so what they need is a fact about the past, and it must survive a slot that passes below the
session. `HandsStand` says which presses may be under way beside one another and where the editor of before
the press is: in the snapshot until a second finger restores it, and there still afterwards; from it
`PansLeaveTheDraft`. `PressedIsThere` (what a press has not yet decided about is on the band, unless a slot ended)
is what `DragsReshapeWhatTheyPressed` takes its block from. `SavesSendWhatIsShown` is a step from
`Typed`: what the patches leave of another's writes is computed from the draft, slot by slot. First in the
module are lemmas of what the band draws (`BlocksAre`, `BlockIsOfOne`, `SameBlocks`), which every method's
lemma rests on; that a block shows one thing is an induction over its slots, made with the least
counterexample.

**WebViewsProofs**: the run *web_views*, but for the dialogs' history, which has a module of its own; any numbers of edits, requests and
other clients' saves, any drafts and profiles, any days and grids.

*The wire* (`WireTyped`) carries three sorts of command. What every surface needs to know of it is in a few
predicates: none of a sort is out (`NoneOut`), at most one is (`OneOut`), those that are out are of this document
(`Carries`), a save was sent with the others' work in it (`SavesSafe`), an answer that comes is at
least of these saves (`AnswersFrom`). That the server's own steps keep them is proved once, and used
by every surface.

*Panel, dialogs, switches, answers.* `PanelInv`: `PanelLinks` (a draft without unsaved edits is the document that was
saved, and a report of it was made from it), `PanelOut` (what is out is what the panel waits for, a
check's report before a read's answer), `PanelCarries` (while the draft is clean, a check or a save that is out
is of it) and `PanelSafe` (the draft has what others had saved in the revision it is saved
against). The badge is right only by the third: the report arrives after edits and saves the check knew nothing of.
`DialogInv` and `AdminInv` are built alike; the switches add that nothing on its way has less than is shown
or more than is stored (`AdminFrom`). `DraftInv` orders the polls by the drafts they are
about. `ConfigHolds`, `OthersWorkSurvives` and `DialogClosesOnTheDraft` follow.

*NodeDetail*. `DetailInv`: each read has a number of its own (`ReadsSound`); the one that may still answer is of nothing
older than what is shown or was announced, and what shows as loading has one (`OverviewAwaited`); the
section's age is when its figures were asked for (`SectionKnown`); what was announced is in the section, or a
read is out for it, or the overview's behind which it is read (`SectionNews`); what is to be looked
at will be when the element renders (`OverviewShown`). `DetailHolds` follows. The proof showed a
case out of the run's reach, a detail that leaves the page during the reload behind an announcement and
keeps the older section when it returns; it is among the known limits now and in `missed`.

*Inspector*. `InspectorInv`: selections lie in their grid with focus and anchor among them (`ViewHolds`); each
read has its number (`FlyingHolds`); the read whose answer will be shown was asked for after what is
shown came (`DayHolds`, `SpanHolds`); and what is browsed is shown, on its way, or said to have failed
(`DayShown`, `SpanShown`), with nothing picked that is not drawn. Each transition of *SlotSelection* has
a lemma of what it leaves picked. `InspectorHolds` follows, and with the switches, the polls and the details
`NothingShownGoesBack`, step by step.

**DialogHistoryProofs**: any nodes and any number of touches. `HistoryInvariant` speaks of a tab at rest and
`BackTakesOne` of one step; neither is inductive, since what a traversal meets when it lands was decided
when it was sent off, under other dialogs. `Orderly` is built from four layers.

- What may lie over what: one of seven stacks (`Stacks`), up to editor, detail and control.
- The entries: `Path` says of every entry up to the one landed on which key of which dialog it holds,
  computed from the stack and the dialogs' own lists of ids; `Beyond`, that an entry after it holds a key
  nobody answers for, and that a dialog which covers another has no entry after it at all. With `Numbered`
  (each id was given out once) they are the `Book`. That Forward can still land beyond, on an entry of a
  node the trail has left, is why `Beyond` cannot simply say that there is nothing.
- The dialogs (`Placed`, `Standing`, `Trailed`): who has entries is open and in front of whom, who has none
  is fading, and the trail is as long as the detail's list. A tab is `Sound` up to an entry when all this
  fits, and `Calm` when it is sound where it stands and no dialog with entries sleeps.
- What is on its way (`Underway`): nothing, or one Back or two (`Still`); a Forward with perhaps a Back behind it
  (`Ahead`); a dialog's own steps back, with the tab sound already where they will land (`Stepping`; the detail's
  from an entry its trail has left, which a Forward found, is one of them); that same step with a Back
  pressed before it, which lands first and wakes the detail (`Doubled`), and what is then left of it (`Owed`);
  and the two releases (`ReleasesEditor`, `ReleasesDetail`), in which the other dialog sleeps through the
  popstate and the entry is rewritten to what was retained.

Each operator of the controller has a lemma of what it makes of the book (`BookGrows`, `BookShrinks`,
`BookRestacks`), each action one lemma, and each case of `Underway` one for its landing; `TabKeepsOrder` joins
them, and `HistoryHolds` and `BackTakesOneHolds` follow. A history gone astray (section 3) is out of it by the property's
own condition: `HistoryNext` ends there. `DialogsAreTheirOwn` of *WebViewsProofs* says that a behaviour of the run
is one of *DialogHistory*. While it was proved, *DialogHistory*'s two ways of taking a dialog off the stack
became `RemoveFirst`, as no dialog is on it twice.

What is proved need not be checked: the runs keep the proved properties that hazards are about
(`FlagIsNewestDecision`, `NoCallAfterDisable`, `ReadsAreCurrent`, `PlanIsOfOneRun`, `UserActionsSurvive`,
`PlanningInvariant`, `OnlyOwnRunsStopped`, `RefusedNotRetried`, `InverterInvariant`, `OnlyOwnOverridesStopped`,
`UnmetNotApplied`, `ClickGetsItsOwnOutcome`, `FittedIsKept`, `BackgroundInvariant`, `LedgerInvariant`, `CurrentWhenQuiet`,
`SharedInvariant` (with `ErrorIsAboutThisDraft`), `ClosesOnItsOwnSuccess`, `GivenOnlyCurrent`, `ConfigInvariant`, `InspectorInvariant`,
`DetailInvariant`, `OthersWorkIsKept`, `ClosesOnWhatIsSaved`, `ShownNeverGoesBack`, `BandInvariant`,
`PanLeavesTheDraftAlone`, `SavesWhatIsShown`, `DragsItsOwnBlock`, `HistoryInvariant`, `BackTakesOne`), each with a faulty variant
that breaks it, and leave the others to the theorems (`OneRunAtATime`, `NewestRequestKept`,
`DebounceOnlyWhenIdle`, `QuietWhenDown`, `RunsOnlyNewer`, `QuietOnceUnloaded`, `AcknowledgedDisableHolds`,
`WaiterHasServer`, `RollbackUndoesOnlyItsOwn`, `TransitionAnnounced`, `FailedEnableIsUndone`,
`MergeNeverConflicts`, `OffMeansNoPlan`, `ChangesAreReconciled`, `PhantomsComeLate`, and the type invariants of *ScheduleExecution*
and *AutomationRun*).

Assumed are the named assumptions of the modules: bounds are naturals; the sets of lanes, members
and fickle appliances are what their names say; a value that stands for nothing (`None`, `Nil`, `Unread`, the
pipeline's `Warmer`) is none of the values it stands beside (`NoNode` and the word for the editor
are no nodes); the names of reads suffice; the mouse is no
finger, and the band's window has a slot and is no wider than the day; today and the
history's floor lie within the horizon; a day of the ledger has at least an instant and ends within the
modelled time, and what the recorder holds at first is some history of the power up to the set-up. TLC
evaluates them in the runs.

Only model-checked: every liveness property (`CallsReturn`, `WritesAreLookedAt`, `ForecastIsServed`,
both convergences, `DeferringEnds`, `MissedIsRepaired`, and the liveness in
*LatestRequest*), since fairness and ENABLED are beyond the prover; and `FoldsAsTheWholeHistory`, which compares two
walks of different lengths over the same rows, with merges in any order between them: it needs an account of
what a merge of overlapping reads amounts to, over all the orders they may come in, and the invariant for that
has not been found. It was checked on larger instances than the run's besides: all histories over five
instants with two crossings and a mishap, and, at random, over longer ones with up to five.

## 5. What is left out

The table of section 1.2 gives the reasons part by part. Within the modelled parts:

- what optimizers choose, the wording of errors and reports, logging and serialization;
- service calls' order *within* one call of Home Assistant, and the vendor integrations behind it,
  which are external definitions made from how the code uses them;
- `async_restore_normal` and `clear_appliance_memories`, which nothing calls;
- real time: a window (freshness, rebound, debounce, staleness) has passed or not, in units of what
  the code compares;
- several appliances at once in *ApplianceExecution*: each has its own memory, and the attempt that
  visits them one after another is *ScheduleExecution*'s;
- a crash of Home Assistant in *InverterExecution*: `Restart` brings back the option the select showed, which Home
  Assistant stores at every ordinary stop; behind a crash it may bring back one some minutes old;
- what a day's ratio is computed from, and its prices and import bands;
- the forecast's numbers, its prices and the start of the backfills;
- the ledger's slices and what they are attributed, its figures, a change of the power or meter
  entity, a purge or a late commit of the recorder, several chargers, and a tick that comes while the
  last one is still under way;
- pixels, charts, wording and the fields of the forms; the device editor's YAML per card.

### Not modelled

What stays unmodelled is, in the order of its size: drawing (charts, diagrams, rows, styles, forms:
most of the frontend's lines), which has no state of its own to go wrong in an order; numeric code
(forecast builders, trainers, bias, battery simulation, optimizers), where a model would repeat the
arithmetic; one-call documents (configuration validation, migration, websocket handlers); and read-only
views assembled for the cards. The components' notes in PROJECT.json say it one by one.

## 6. Plan

In order of what is worth most:

1. **The ledger as the whole history's**: an invariant that says of which rows the segments are the stretches,
   from which `FoldsAsTheWholeHistory` follows.
2. **DeviceDraft** (`cards/shared/devices/`): the device editor's draft between form and YAML; what
   a removed group or a dragged assignment leaves of the YAML texts of the cards.
3. Several chargers and a rebound power entity in *ChargingLedger*; the backfill of statistics with
   its cursor; the battery simulation on a grid; the optimizers' arithmetic on discretised prices.
