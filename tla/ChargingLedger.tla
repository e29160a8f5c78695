--------------------------- MODULE ChargingLedger ---------------------------
(***************************************************************************)
(* The charging ledger of one charger (ev_sessions/service.py, ledger.py): *)
(* stretches of charging read from the recorder's history of the charge    *)
(* power, folded into stored segments by a power change's reconciliation,  *)
(* the periodic one and a detail's, with a backfill of older days a day at *)
(* a time, all under one lock.                                             *)
(*                                                                         *)
(* Time is in ticks.  The power is "charging", on "standby" or a "gap"     *)
(* (unavailable), and crosses at most once a tick.  A segment's energy is  *)
(* the bounds it was last measured for.  What it is attributed, a change   *)
(* of the entities and the recorder's late commits are left out.           *)
(***************************************************************************)
EXTENDS Integers, SequencesExt, Functions, TLC

CONSTANTS
  MaxGap,           \* SEGMENT_MAX_GAP
  SettleTicks,      \* _ENERGY_SETTLE
  DayTicks,         \* a local day
  Histories,        \* what the recorder may hold when the ledger is set up
  LastInstant,         \* bound: the model's time is over
  MaxRows,          \* bound: crossings
  MaxAsked,         \* bound: periodic reconciliations and details opened
  MaxMishaps        \* bound: failing reads, reloads and crashes

ASSUME LedgerAssumption ==
  /\ {MaxGap, SettleTicks, LastInstant, MaxRows, MaxAsked, MaxMishaps} \subseteq Nat
  /\ DayTicks \in 1..LastInstant

Never  == -1
Instants == 0..LastInstant
ReadMargin == MaxGap + 1                     \* _READ_MARGIN
LedgerTasks == {"change", "tick", "ask"}     \* _async_reconcile_changes, _async_run, async_history

VARIABLES
  instant,
  power,            \* the power's changes: instant -> what it became
  ledger,           \* ChargerLedger, in memory
  stored,           \* the one on disk
  unsaved,          \* it is to be written
  queue,            \* the tasks that hold (the first) or wait for the lock
  doing,            \* where each task stands
  asOf,             \* the "now" its reconciliation was begun with
  changeAgain,      \* _change_again
  spent

(* History, read by the properties only: whether the newest live read saw    *)
(* every row, whether a read failed or was lost since a good one, and whether *)
(* one has left a segment that ends before it starts.                         *)
VARIABLES told, missed, phantom

ledgerVars == <<instant, power, ledger, stored, unsaved, queue, doing, asOf, changeAgain, spent,
                told, missed, phantom>>

NoLedger == [segments |-> <<>>, cursor |-> Never, liveSince |-> Never, before |-> Never, done |-> FALSE]

(* The day the ledger is set up in is the second. *)
SetUp == DayTicks

ASSUME HistoriesAssumption ==
  \A h \in Histories : /\ DOMAIN h \subseteq 0..SetUp /\ DOMAIN h # {}
                        /\ h \in [DOMAIN h -> {"charging", "standby", "gap"}]

LedgerTypeOK ==
  /\ instant \in Instants
  /\ DOMAIN power \subseteq 0..instant /\ Range(power) \subseteq {"charging", "standby", "gap"}
  /\ \A l \in {ledger, stored} :
       /\ {l.cursor, l.liveSince, l.before} \subseteq Instants \cup {Never}
       /\ l.done \in BOOLEAN
       /\ \A s \in ToSet(l.segments) :
            /\ {s.start, s.end, s.seen} \subseteq Instants
            /\ {s.startKnown, s.endKnown, s.active, s.final} \subseteq BOOLEAN
  /\ {unsaved, changeAgain} \subseteq BOOLEAN
  /\ IsInjective(queue) /\ ToSet(queue) \subseteq LedgerTasks
  /\ doing \in [LedgerTasks -> {"idle", "reading", "settling", "breathing", "backfilling", "dating"}]
  /\ asOf \in [LedgerTasks -> Instants]
  /\ {told, missed, phantom} \subseteq {"yes", "no"}

LedgerInit ==
  /\ instant = SetUp /\ power \in Histories
  /\ ledger = NoLedger /\ stored = NoLedger /\ unsaved = FALSE
  /\ queue = <<"tick">> /\ changeAgain = FALSE
  /\ doing = [p \in LedgerTasks |-> IF p = "tick" THEN "reading" ELSE "idle"]
  /\ asOf = [p \in LedgerTasks |-> SetUp]
  /\ spent = [rows |-> 0, calls |-> 0, mishaps |-> 0]
  /\ told = "no" /\ missed = "no" /\ phantom = "no"
-----------------------------------------------------------------------------
(* One read: the rows from start on and before end, the row in force at      *)
(* start restamped to it, and the live state if it is newer.                 *)

StateAt(t, when) == [at |-> when, is |-> power[t]]

(* The rows from start on and before end, in their order. *)
Rows(start, end) ==
  LET until[t \in 0..end] ==
        IF t = 0 THEN <<>>
        ELSE IF start < t /\ t - 1 \in DOMAIN power THEN Append(until[t - 1], StateAt(t - 1, t - 1))
        ELSE until[t - 1]
  IN until[end]

ReadStates(start, end) ==
  LET before == {t \in DOMAIN power : t < start}
  IN (IF before = {} THEN <<>> ELSE <<StateAt(Max(before), start)>>) \o Rows(start, end)

(* with_live_state *)
WithLive(states) ==
  LET live == Max(DOMAIN power)
  IN IF states = <<>> \/ live > Last(states).at THEN Append(states, StateAt(live, live)) ELSE states

(* charging_runs: one state after another. *)
Walk(w, s) ==
  LET charging == s.is = "charging"
      inGap    == w.gapFrom # Never
      longGap  == inGap /\ s.at - w.gapFrom > MaxGap
      lost     == w.since # Never /\ inGap /\ (~charging \/ longGap)
      ended    == w.since # Never /\ ~lost /\ ~charging
      since    == IF lost \/ ended THEN Never ELSE w.since
      Run(end, known) == [start |-> w.since, end |-> end, open |-> FALSE,
                          startKnown |-> w.known, endKnown |-> known]
  IN IF s.is = "gap"
     THEN [w EXCEPT !.gapFrom = IF inGap THEN @ ELSE s.at]
     ELSE [runs    |-> w.runs \o (IF lost THEN <<Run(w.gapFrom, FALSE)>>
                                  ELSE IF ended THEN <<Run(s.at, TRUE)>> ELSE <<>>),
           since   |-> IF charging /\ since = Never THEN s.at ELSE since,
           known   |-> IF charging /\ since = Never THEN w.last = "standby" /\ ~inGap ELSE w.known,
           last    |-> s.is,
           gapFrom |-> Never]

Unwalked == [runs |-> <<>>, since |-> Never, known |-> FALSE, last |-> "none", gapFrom |-> Never]

ChargingRuns(states, end) ==
  LET walked[i \in 0..Len(states)] == IF i = 0 THEN Unwalked ELSE Walk(walked[i - 1], states[i])
      w == walked[Len(states)]
      lost == w.gapFrom # Never /\ end - w.gapFrom > MaxGap
  IN IF w.since = Never THEN w.runs
     ELSE Append(w.runs, [start |-> w.since, end |-> IF lost THEN w.gapFrom ELSE end, open |-> ~lost,
                          startKnown |-> w.known, endKnown |-> FALSE])
-----------------------------------------------------------------------------
(* merge_runs, close_unseen. *)

Unmeasured == <<Never, Never>>
Touches(segment, run) == segment.start <= run.end /\ run.start <= segment.end

NewSegment(run, readEnd, live) ==
  [start |-> run.start, end |-> run.end, startKnown |-> run.startKnown, endKnown |-> run.endKnown,
   active |-> run.open /\ live, seen |-> readEnd, final |-> FALSE, measured |-> Unmeasured]

BoundsOf(segment) ==
  <<segment.start, segment.end, segment.startKnown, segment.endKnown, segment.active>>

(* Faulty variant: the bounds' move does not reopen the energy. *)
MovedStaysFinal(segment, run, readEnd, live) ==
  LET earlier == run.start < segment.start /\ (run.startKnown \/ ~live)
      later   == readEnd >= segment.seen /\ (live \/ ~segment.active)
  IN [segment EXCEPT
        !.start = IF earlier THEN run.start ELSE @,
        !.startKnown = IF earlier THEN run.startKnown ELSE @ \/ (run.start = segment.start /\ run.startKnown),
        !.end = IF later THEN run.end ELSE @,
        !.endKnown = IF later THEN run.endKnown ELSE @,
        !.active = IF later THEN run.open /\ live ELSE @,
        !.seen = IF later THEN readEnd ELSE @]

Moved(segment, run, readEnd, live) ==
  LET m == MovedStaysFinal(segment, run, readEnd, live)
  IN [m EXCEPT !.final = @ /\ BoundsOf(m) = BoundsOf(segment)]

(* A run and the segment it lands on, or the new one. *)
Landing(m, run, readEnd, live) ==
  LET matches == {i \in DOMAIN m.segments : Touches(m.segments[i], run)}
  IN IF matches = {}
     THEN [segments |-> Append(m.segments, NewSegment(run, readEnd, live)),
           landed   |-> m.landed \cup {Len(m.segments) + 1}]
     ELSE [segments |-> [m.segments EXCEPT ![Min(matches)] = Moved(@, run, readEnd, live)],
           landed   |-> m.landed \cup {Min(matches)}]

(* One run after another, in the order of the read. *)
FoldRuns(segments, runs, readEnd, live) ==
  LET folded[i \in 0..Len(runs)] ==
        IF i = 0 THEN [segments |-> segments, landed |-> {}]
        ELSE Landing(folded[i - 1], runs[i], readEnd, live)
  IN folded[Len(runs)]

(* Active segments a live read did not see are over. *)
Closed(m) ==
  [i \in DOMAIN m.segments |->
     IF m.segments[i].active /\ i \notin m.landed
     THEN [m.segments[i] EXCEPT !.active = FALSE, !.endKnown = FALSE, !.final = FALSE]
     ELSE m.segments[i]]

(* In the order of their starts, those of one start as they were. *)
Placed(sorted, segment) ==
  InsertAt(sorted, Max({0} \cup {i \in DOMAIN sorted : sorted[i].start <= segment.start}) + 1, segment)

ByStart(segments) ==
  LET sorted[i \in 0..Len(segments)] == IF i = 0 THEN <<>> ELSE Placed(sorted[i - 1], segments[i])
  IN sorted[Len(segments)]

(* _measure: what is not final is read; what ended long enough ago is final. *)
Measured(segments, time) ==
  [i \in DOMAIN segments |->
     IF segments[i].final THEN segments[i]
     ELSE [segments[i] EXCEPT !.measured = <<segments[i].start, segments[i].end>>,
                              !.final = ~segments[i].active /\ time >= segments[i].end + SettleTicks]]
-----------------------------------------------------------------------------
(* The tasks. *)

HoldsLock(p) == queue # <<>> /\ Head(queue) = p
Spend(f) == spent' = [spent EXCEPT ![f] = @ + 1]
MidnightOf(t) == DayTicks * (t \div DayTicks)

(* A reconciliation begins at once: its now is taken, and it waits for the lock. *)
Begins(p) ==
  /\ doing' = [doing EXCEPT ![p] = "reading"]
  /\ asOf' = [asOf EXCEPT ![p] = instant]
  /\ queue' = Append(queue, p)

(* Of what is stored, the reads begin here: the live ones' first day. *)
Seeded(time) ==
  IF ledger.liveSince # Never THEN ledger
  ELSE [ledger EXCEPT !.liveSince = MidnightOf(time), !.before = MidnightOf(time)]

ReadStart(l) ==
  Min({IF l.cursor = Never THEN l.liveSince ELSE l.cursor}
      \cup {l.segments[i].start : i \in {j \in DOMAIN l.segments : l.segments[j].active}}) - ReadMargin

Proper(l) == {s \in ToSet(l.segments) : s.start <= s.end}

(* The history has been read, up to the task's now: folded. *)
LiveRead(p) ==
  LET l    == Seeded(asOf[p])
      runs == ChargingRuns(WithLive(ReadStates(ReadStart(l), asOf[p])), asOf[p])
  IN /\ HoldsLock(p) /\ doing[p] = "reading"
     /\ ledger' = [l EXCEPT !.segments = ByStart(Closed(FoldRuns(l.segments, runs, asOf[p], TRUE))),
                            !.cursor = asOf[p]]
     /\ doing' = [doing EXCEPT ![p] = "settling"]
     /\ told' = IF /\ Max(DOMAIN power) <= asOf[p]
                   /\ \A s \in ToSet(ledger.segments) : s.seen <= asOf[p] THEN "yes" ELSE "no"
     /\ missed' = IF Max(DOMAIN power) <= asOf[p] THEN "no" ELSE missed
     /\ phantom' = IF Proper(ledger') = ToSet(ledger'.segments) THEN phantom ELSE "yes"
     /\ UNCHANGED <<instant, power, stored, unsaved, queue, asOf, changeAgain, spent>>

(* What a task does when it lets go of the lock: the power changed meanwhile, *)
(* or older days are still to be read, or it is over.                         *)
LetsGo(p) ==
  /\ IF p = "change" /\ changeAgain
     THEN /\ doing' = [doing EXCEPT ![p] = "reading"] /\ asOf' = [asOf EXCEPT ![p] = instant]
          /\ queue' = Append(Tail(queue), p)
     ELSE /\ doing' = [doing EXCEPT ![p] = IF p = "tick" THEN "breathing" ELSE "idle"]
          /\ queue' = Tail(queue) /\ asOf' = [asOf EXCEPT ![p] = SetUp]
  /\ changeAgain' = (changeAgain /\ p # "change")
  /\ unsaved' = TRUE

(* The read, or the meter's, raises: what was folded stays. *)
LiveReadFails(p) ==
  /\ HoldsLock(p) /\ doing[p] = "reading" /\ spent.mishaps < MaxMishaps
  /\ ledger' = Seeded(asOf[p])
  /\ missed' = "yes"
  /\ LetsGo(p) /\ Spend("mishaps")
  /\ UNCHANGED <<instant, power, stored, told, phantom>>

MeterRead(p) ==
  /\ HoldsLock(p) /\ doing[p] = "settling"
  /\ ledger' = [ledger EXCEPT !.segments = Measured(@, asOf[p])]
  /\ LetsGo(p)
  /\ UNCHANGED <<instant, power, stored, spent, told, missed, phantom>>

MeterReadFails(p) ==
  /\ HoldsLock(p) /\ doing[p] = "settling" /\ spent.mishaps < MaxMishaps
  /\ LetsGo(p) /\ Spend("mishaps")
  /\ UNCHANGED <<instant, power, ledger, stored, told, missed, phantom>>

(* async_backfill, between two days. *)
Backfill ==
  /\ doing["tick"] = "breathing"
  /\ IF ledger.done \/ ledger.before = Never
     THEN doing' = [doing EXCEPT !["tick"] = "idle"] /\ UNCHANGED queue
     ELSE doing' = [doing EXCEPT !["tick"] = "backfilling"] /\ queue' = Append(queue, "tick")
  /\ UNCHANGED <<instant, power, ledger, stored, unsaved, asOf, changeAgain, spent, told, missed, phantom>>

(* Faulty variant: a run open at the end of an older read goes on. *)
OlderReadLive(l, end) ==
  LET runs == ChargingRuns(ReadStates(MidnightOf(l.before - 1) - ReadMargin, end), end)
  IN ByStart(FoldRuns(l.segments, runs, end, TRUE).segments)

OlderRead(l, end) ==
  LET runs == ChargingRuns(ReadStates(MidnightOf(l.before - 1) - ReadMargin, end), end)
  IN ByStart(FoldRuns(l.segments, runs, end, FALSE).segments)

(* The day before the oldest one read, if the recorder goes back to it. *)
DayToRead == MidnightOf(ledger.before - 1)

NoOlderDay ==
  /\ HoldsLock("tick") /\ doing["tick"] = "backfilling"
  /\ DayToRead < MidnightOf(Min(DOMAIN power))
  /\ ledger' = [ledger EXCEPT !.done = TRUE]
  /\ LetsGo("tick")
  /\ UNCHANGED <<instant, power, stored, spent, told, missed, phantom>>

BackfillDay ==
  LET end == Min({instant, ledger.before + ReadMargin})
  IN /\ HoldsLock("tick") /\ doing["tick"] = "backfilling"
     /\ DayToRead >= MidnightOf(Min(DOMAIN power))
     /\ ledger' = [ledger EXCEPT !.segments = OlderRead(ledger, end)]
     /\ doing' = [doing EXCEPT !["tick"] = "dating"]
     /\ asOf' = [asOf EXCEPT !["tick"] = instant]
     /\ told' = IF end \in DOMAIN power THEN "no" ELSE told
     /\ UNCHANGED <<instant, power, stored, unsaved, queue, changeAgain, spent, missed, phantom>>

BackfillMeasured ==
  /\ HoldsLock("tick") /\ doing["tick"] = "dating"
  /\ ledger' = [ledger EXCEPT !.segments = Measured(@, asOf["tick"]), !.before = DayToRead]
  /\ LetsGo("tick")
  /\ UNCHANGED <<instant, power, stored, spent, told, missed, phantom>>

(* The day is read again at the next tick. *)
BackfillFails ==
  /\ HoldsLock("tick") /\ doing["tick"] \in {"backfilling", "dating"} /\ spent.mishaps < MaxMishaps
  /\ doing' = [doing EXCEPT !["tick"] = "idle"] /\ queue' = Tail(queue)
  /\ asOf' = [asOf EXCEPT !["tick"] = SetUp]
  /\ unsaved' = TRUE /\ Spend("mishaps")
  /\ UNCHANGED <<instant, power, ledger, stored, changeAgain, told, missed, phantom>>
-----------------------------------------------------------------------------
(* The charger, the clock, the callers, the recorder and the store. *)

(* Faulty variant: what changes under a running reconciliation is left to it. *)
HeardOnce ==
  /\ IF doing["change"] = "idle" THEN Begins("change") ELSE UNCHANGED <<doing, asOf, queue>>
  /\ UNCHANGED changeAgain

(* _on_power_changed *)
Heard ==
  IF doing["change"] = "idle"
  THEN Begins("change") /\ UNCHANGED changeAgain
  ELSE changeAgain' = TRUE /\ UNCHANGED <<doing, asOf, queue>>

(* The recorder's history, with the power's change at t. *)
Became(is, t) == [x \in {t} \cup DOMAIN power |-> IF x = t THEN is ELSE power[x]]

PowerCrosses ==
  /\ instant \notin DOMAIN power /\ spent.rows < MaxRows
  /\ \E is \in {"charging", "standby", "gap"} \ {power[Max(DOMAIN power)]} : power' = Became(is, instant)
  /\ Heard /\ Spend("rows")
  /\ told' = "no"
  /\ UNCHANGED <<instant, ledger, stored, unsaved, missed, phantom>>

Called(p) ==
  /\ doing[p] = "idle" /\ p # "change" /\ spent.calls < MaxAsked
  /\ Begins(p) /\ Spend("calls")
  /\ UNCHANGED <<instant, power, ledger, stored, unsaved, changeAgain, told, missed, phantom>>

InstantPasses ==
  /\ instant < LastInstant /\ ~unsaved
  /\ instant' = instant + 1
  /\ UNCHANGED <<power, ledger, stored, unsaved, queue, doing, asOf, changeAgain, spent, told, missed, phantom>>

LedgerSaved ==
  /\ unsaved /\ unsaved' = FALSE /\ stored' = ledger
  /\ UNCHANGED <<instant, power, ledger, queue, doing, asOf, changeAgain, spent, told, missed, phantom>>

(* The tasks are cancelled where they stand, and setup reads once more. *)
SetUpAgain(kept) ==
  /\ ledger' = kept /\ stored' = kept /\ unsaved' = FALSE
  /\ queue' = <<"tick">> /\ changeAgain' = FALSE
  /\ doing' = [p \in LedgerTasks |-> IF p = "tick" THEN "reading" ELSE "idle"]
  /\ asOf' = [p \in LedgerTasks |-> IF p = "tick" THEN instant' ELSE SetUp]
  /\ told' = "no" /\ missed' = "yes" /\ Spend("mishaps")
  /\ UNCHANGED phantom

(* async_unload flushes what was marked; what was folded since is not. *)
LedgerReloads ==
  /\ spent.mishaps < MaxMishaps
  /\ UNCHANGED <<instant, power>>
  /\ SetUpAgain(IF unsaved THEN ledger ELSE stored)

(* Home Assistant dies, with what was not written, and comes back later; the *)
(* entity's first state is recorded then.                                     *)
LedgerCrashes ==
  /\ spent.mishaps < MaxMishaps
  /\ instant' \in {instant + 1, instant + MaxGap + 1} /\ instant' <= LastInstant
  /\ \E is \in {"charging", "standby", "gap"} : power' = Became(is, instant')
  /\ SetUpAgain(stored)

LedgerNext ==
  \/ \E p \in LedgerTasks : \/ LiveRead(p) \/ LiveReadFails(p)
                             \/ MeterRead(p) \/ MeterReadFails(p) \/ Called(p)
  \/ Backfill \/ NoOlderDay \/ BackfillDay \/ BackfillMeasured \/ BackfillFails
  \/ PowerCrosses \/ InstantPasses \/ LedgerSaved \/ LedgerReloads \/ LedgerCrashes

LedgerSpec == LedgerInit /\ [][LedgerNext]_ledgerVars
-----------------------------------------------------------------------------
Resting == queue = <<>> /\ \A p \in LedgerTasks : doing[p] = "idle"

(* Once the tasks rest, every change of the power has been read, unless a    *)
(* read failed or was cancelled and none has succeeded since: nobody waits    *)
(* for a later event to learn of it.                                          *)
ChangesAreFolded == Resting /\ missed = "no" => Max(DOMAIN power) <= ledger.cursor

(* Read in pieces, in any order and more than once, the ledger is what one   *)
(* read of the whole history would have made of it, as long as no read was    *)
(* behind a change that it saw: what that leaves may take over a later stretch. *)
FoldsAsTheWholeHistory ==
  (phantom = "no" /\ told = "yes" /\ ledger.done /\ queue = <<>>) =>
    LET whole == ChargingRuns(Rows(0, instant + 1), ledger.cursor)
    IN {BoundsOf(s) : s \in ToSet(ledger.segments)}
         = {<<r.start, r.end, r.startKnown, r.endKnown, r.open>> : r \in ToSet(whole)}

(* An energy that is never read again is that of the segment as it is. *)
FinalIsMeasured ==
  \A s \in ToSet(ledger.segments) : s.final => ~s.active /\ s.measured = <<s.start, s.end>>

(* A segment is one continuous recorded stretch of charging: once a read has *)
(* seen every change, none ends before it starts.  Not kept by the code; TLC  *)
(* refutes it.                                                                *)
SegmentsAreStretches ==
  Resting /\ told = "yes" => Proper(ledger) = ToSet(ledger.segments)

(* Until a live read leaves one, no segment ends before it starts: a fold, an *)
(* older day, a failure or a restart does not make one.                       *)
StretchesUnlessLate == phantom = "no" => Proper(ledger) = ToSet(ledger.segments)

(* And such a live read was begun before the newest change that it then saw.   *)
PhantomsComeLate ==
  [][phantom' # phantom =>
       \E p \in LedgerTasks : doing[p] = "reading" /\ asOf[p] < Max(DOMAIN power)]_ledgerVars

(* No change is missed, no energy is kept for a stretch that was another, and *)
(* segments are stretches but for what a late read has left.                  *)
LedgerInvariant == LedgerTypeOK /\ ChangesAreFolded /\ FinalIsMeasured /\ StretchesUnlessLate
=============================================================================
