------------------------------ MODULE DayBands ------------------------------
(***************************************************************************)
(* The band of a day, surplus, tight or deficit, that an optimizer plans it *)
(* by: classified in every run (automation/day_context.py), damped by the   *)
(* band the last run gave the same day and optimizer, which                 *)
(* automation/day_context_store.py keeps; where AutomationRunner.run loads, *)
(* uses and stores it (automation/pipeline.py).                             *)
(*                                                                         *)
(* A ratio of solar to consumption is a number on a grid: what it is        *)
(* computed from is not modelled, and a run may read any ratio, whatever    *)
(* the run before read.                                                     *)
(***************************************************************************)
EXTENDS Integers

CONSTANTS
  Planners,         \* the optimizers' ids
  LastDay,          \* bound: days are 0..LastDay
  TopRatio,         \* bound: ratios are 0..TopRatio
  DeficitBelow,     \* deficit_below_ratio, on the grid
  SurplusAbove,     \* surplus_above_ratio
  Deadband,         \* _CLASSIFICATION_DEADBAND_RATIO
  MaxReloads        \* bound: restarts and config reloads

ASSUME DayBandsAssumption ==
  /\ LastDay \in Nat /\ TopRatio \in Nat /\ MaxReloads \in Nat
  /\ Deadband \in Nat
  /\ DeficitBelow \in Nat /\ SurplusAbove \in Nat /\ DeficitBelow < SurplusAbove

VARIABLES
  today,            \* the local date
  active,           \* the enabled optimizers
  kept,             \* the store's records: a (day, optimizer)'s band, or none
  bandStage,        \* where the run is; "idle": there is none
  planned,          \* the run's local date
  previous,         \* the bands it loaded
  emitted           \* the bands its optimizers planned by

(* History, of one (day, optimizer), any: the ratio the run read for it,    *)
(* and whether only the battery kept it from surplus; the band last         *)
(* recorded of it while it could be read again; and the ratio at which that *)
(* band last crossed each threshold.  And a bound's counter.                *)
VARIABLES watched, read, last, crossed, reloads

run_     == <<bandStage, planned, previous, emitted, read>>
crossings == <<last, crossed>>
bandVars == <<today, active, kept, run_, watched, crossings, reloads>>

Bands == {"surplus", "tight", "deficit"}
NoBand == "none"
Days == 0..LastDay
Pairs == Days \X Planners
NoBands == [p \in Pairs |-> NoBand]
Records == [Pairs -> Bands \cup {NoBand}]
Ratios == 0..TopRatio

\* a day's solar over its consumption, and whether the baseline fills the battery
DayReadings == [ratio : Ratios, full : BOOLEAN]
NotRead == -1
NoReading == [ratio |-> NotRead, demoted |-> FALSE]
Thresholds == {"deficit", "surplus"}
Uncrossed == [t \in Thresholds |-> NotRead]

DayBandsTypeOK ==
  /\ today \in Days /\ planned \in Days
  /\ active \subseteq Planners
  /\ kept \in Records /\ previous \in Records /\ emitted \in Records
  /\ bandStage \in {"idle", "loop", "placed", "recorded"}
  /\ watched \in Pairs
  /\ read \in [ratio : Ratios \cup {NotRead}, demoted : BOOLEAN]
  /\ last \in Bands \cup {NoBand}
  /\ crossed \in [Thresholds -> Ratios \cup {NotRead}]
  /\ reloads \in 0..MaxReloads

DayBandsInit ==
  /\ today = 0 /\ active \in SUBSET Planners
  /\ kept = NoBands
  /\ bandStage = "idle" /\ planned = 0 /\ previous = NoBands /\ emitted = NoBands
  /\ watched \in Pairs /\ read = NoReading
  /\ last = NoBand /\ crossed = Uncrossed
  /\ reloads = 0

----------------------------------------------------------------------------
(* The classification. *)

\* A plausible bug: the deadband is not there for a day that is in deficit.
DeficitUndamped(held) == IF held \in {NoBand, "deficit"} THEN DeficitBelow ELSE DeficitBelow - Deadband

\* up to what ratio a day is in deficit, and from what ratio it has a surplus:
\* displaced away from the band it holds
DeficitUpTo(held) ==
  CASE held = NoBand -> DeficitBelow
    [] held = "deficit" -> DeficitBelow + Deadband
    [] OTHER -> DeficitBelow - Deadband
SurplusFrom(held) ==
  CASE held = NoBand -> SurplusAbove
    [] held = "surplus" -> SurplusAbove - Deadband
    [] OTHER -> SurplusAbove + Deadband

ByRatio(ratio, held) ==
  IF ratio >= SurplusFrom(held) THEN "surplus"
  ELSE IF ratio <= DeficitUpTo(held) THEN "deficit" ELSE "tight"

\* a surplus that does not fill the battery is none
Demoted(reading, held) == ByRatio(reading.ratio, held) = "surplus" /\ ~reading.full

\* _classify
Classify(reading, held) ==
  IF Demoted(reading, held) THEN "tight" ELSE ByRatio(reading.ratio, held)

----------------------------------------------------------------------------
(* The run and the store. *)

\* what can be read again: not the past, and nothing of an optimizer not given
Readable(p, day, ids) == p[1] >= day /\ p[2] \in ids

\* A plausible bug: the store holds what this run emitted, and only that.
RecordedOnly(day, ids) ==
  [p \in Pairs |-> IF Readable(p, day, ids) THEN emitted[p] ELSE NoBand]

\* async_save_and_prune: a pair this run did not emit keeps its band
Merged(day, ids) ==
  [p \in Pairs |-> IF ~Readable(p, day, ids) THEN NoBand
                   ELSE IF emitted[p] # NoBand THEN emitted[p] ELSE previous[p]]

EndBandRun ==
  bandStage' = "idle" /\ previous' = NoBands /\ emitted' = NoBands /\ read' = NoReading

\* a run loads the bands before its loop
BeginsBands ==
  /\ bandStage = "idle" /\ active # {}
  /\ bandStage' = "loop" /\ planned' = today /\ previous' = kept
  /\ UNCHANGED <<today, active, kept, emitted, read, watched, crossings, reloads>>

\* The days with both forecast and prices: any of today and tomorrow
Covered == SUBSET ({planned, planned + 1} \cap Days)

\* Every optimizer plans each covered day by the band of what it reads of it, in
\* the last phase it plans in.  Of the pairs that are not watched, the extremes.
OptimizersEmit ==
  /\ bandStage = "loop"
  /\ \E days \in Covered, reading \in DayReadings, others \in {0, TopRatio} :
       LET emits(p) == p[1] \in days /\ p[2] \in active
           readingOf(p) == IF p = watched THEN reading ELSE [ratio |-> others, full |-> TRUE]
       IN /\ emitted' = [p \in Pairs |->
                           IF emits(p) THEN Classify(readingOf(p), previous[p]) ELSE NoBand]
          /\ read' = IF emits(watched)
                       THEN [ratio |-> reading.ratio, demoted |-> Demoted(reading, previous[watched])]
                       ELSE NoReading
  /\ bandStage' = "placed"
  /\ UNCHANGED <<today, active, kept, planned, previous, watched, crossings, reloads>>

\* an optimizer raises: the run ends, and records nothing
OptimizersFail ==
  /\ bandStage = "loop"
  /\ EndBandRun
  /\ UNCHANGED <<today, active, kept, planned, watched, crossings, reloads>>

\* the recorded band changes sides of a threshold
Crosses(t) ==
  last # NoBand /\ emitted[watched] # NoBand /\ (last = t) # (emitted[watched] = t)

\* history: a surplus the battery takes away is no crossing of the ratio's
NoteBand ==
  IF ~Readable(watched, planned, active)
  THEN last' = NoBand /\ crossed' = Uncrossed
  ELSE /\ last' = IF emitted[watched] # NoBand THEN emitted[watched] ELSE last
       /\ crossed' = [t \in Thresholds |->
            IF ~Crosses(t) THEN crossed[t]
            ELSE IF t = "surplus" /\ read.demoted THEN NotRead
            ELSE read.ratio]

\* async_persist_day_context_bands, before the plan itself is stored
RecordsBands ==
  /\ bandStage = "placed"
  /\ kept' = Merged(planned, active)
  /\ NoteBand
  /\ bandStage' = "recorded"
  /\ UNCHANGED <<today, active, planned, previous, emitted, read, watched, reloads>>

\* persist_automation_result, or its failure
EndsBands ==
  /\ bandStage = "recorded"
  /\ EndBandRun
  /\ UNCHANGED <<today, active, kept, planned, watched, crossings, reloads>>

----------------------------------------------------------------------------
(* Surroundings. *)

Midnight ==
  /\ today < LastDay
  /\ today' = today + 1
  /\ UNCHANGED <<active, kept, run_, watched, crossings, reloads>>

\* a restart or a reload, anywhere in a run, with other optimizers enabled or the same
Reloads ==
  /\ reloads < MaxReloads
  /\ reloads' = reloads + 1
  /\ active' \in SUBSET Planners
  /\ EndBandRun
  /\ UNCHANGED <<today, kept, planned, watched, crossings>>

DayBandsNext ==
  \/ BeginsBands \/ OptimizersEmit \/ OptimizersFail \/ RecordsBands \/ EndsBands
  \/ Midnight \/ Reloads

DayBandsSpec == DayBandsInit /\ [][DayBandsNext]_bandVars

----------------------------------------------------------------------------
(* Properties. *)

(* A ratio that hovers at a threshold flips no band: whenever an            *)
(* optimizer's band of a day last crossed a threshold, the ratio was past   *)
(* it by the deadband, on the side the band is on since; whatever runs      *)
(* failed or were cut short, whatever runs had no prices for the day in     *)
(* between, and whatever the other days and optimizers were given.          *)
BandsAreDamped ==
  /\ crossed["deficit"] # NotRead =>
       IF last = "deficit" THEN crossed["deficit"] <= DeficitBelow - Deadband
                           ELSE crossed["deficit"] > DeficitBelow + Deadband
  /\ crossed["surplus"] # NotRead =>
       IF last = "surplus" THEN crossed["surplus"] >= SurplusAbove + Deadband
                           ELSE crossed["surplus"] < SurplusAbove - Deadband
=============================================================================
