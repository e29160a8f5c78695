------------------------------ MODULE SlotEnergy ------------------------------
(***************************************************************************)
(* Today's energy per slot of one cumulative meter: TodaySlotEnergyReader  *)
(* (today_slot_readers.py), which keeps the settled part of the day and    *)
(* reads only what is new, the unwrap of a counter that resets             *)
(* (energy_unwrap.py) and the samples at the slots' boundaries             *)
(* (recorder_slot_energy.py).                                              *)
(*                                                                         *)
(* Time is in ticks, a slot SlotTicks of them.  The day starts at tick     *)
(* Staleness, behind the lookback of a cold read.  A reading is a whole    *)
(* number; the tolerance of equal readings is none.                        *)
(***************************************************************************)
EXTENDS Integers, FiniteSetsExt, Functions, TLC

CONSTANTS
  Readers,          \* the forecast's and the inspector's reads, which share one reader
  Values,           \* what the meter may show
  SlotTicks,        \* interval_minutes
  Rebound,          \* _TRANSIENT_REBOUND_WINDOW
  LastTick,         \* bound: the model's day is over
  MaxReadings,      \* bound: readings the recorder holds
  MaxQuiet          \* the longest the meter goes without a reading

ASSUME ValuesAssumption == Values \subseteq Nat /\ Values # {}
ASSUME TicksAssumption ==
  /\ {SlotTicks, Rebound, MaxQuiet} \subseteq Nat \ {0} /\ LastTick \in Nat /\ MaxReadings \in Nat

(* _carry_staleness_limit: two slots, half an hour at least. *)
Staleness == Max({2 * SlotTicks, Rebound})

DayStart == Staleness
Ticks    == 0..LastTick
Nothing  == -1

VARIABLES
  now,
  log,              \* the recorder's rows: tick -> reading
  frozen,           \* the kept prefix: through, samples, offset, segment; through = 0 without one
  reading,          \* each reader's read: its end (0: none) and the prefix it resumes from
  shown             \* the last answer: its end and each slot's energy

energyVars == <<now, log, frozen, reading, shown>>

NoPrefix == [through |-> 0, samples |-> <<>>, offset |-> 0, segment |-> Nothing]
NoRead   == [end |-> 0, prefix |-> NoPrefix]

EnergyTypeOK ==
  /\ now \in Ticks
  /\ DOMAIN log \subseteq Ticks /\ \A t \in DOMAIN log : t <= now /\ log[t] \in Values
  /\ frozen.through \in {0} \cup {t \in Ticks : t >= DayStart}
  /\ DOMAIN frozen.samples \subseteq DayStart..frozen.through
  /\ frozen.segment \in Values \cup {Nothing} /\ frozen.offset \in Nat
  /\ \A r \in Readers : reading[r].end \in 0..now
  /\ \A slot \in DOMAIN shown.energy : shown.energy[slot] \in Nat

EnergyInit ==
  /\ now = 0 /\ log = <<>>
  /\ frozen = NoPrefix
  /\ reading = [r \in Readers |-> NoRead]
  /\ shown = [end |-> 0, energy |-> <<>>]
-----------------------------------------------------------------------------
(* The unwrap, of the rows one query returned. *)

(* A read's query, as observations: behind its prefix, before its end. *)
Queried(prefix, end) ==
  Restrict(log, {t \in DOMAIN log : (prefix.through = 0 \/ t > prefix.through) /\ t < end})

(* A drop that climbs back within the window is a dip, not a reset. *)
IsTransientDrop(rows, t, segment) ==
  \E u \in DOMAIN rows : t < u /\ u <= t + Rebound /\ rows[u] >= segment

(* _unwrap_energy_observations: a drop below nine tenths of the segment's    *)
(* maximum, neither a dip nor the last reading of all, restarts the segment. *)
IsReset(rows, t, segment) ==
  /\ rows[t] * 10 < segment * 9
  /\ ~IsTransientDrop(rows, t, segment)
  /\ \E u \in DOMAIN rows : u > t

(* What a read resumes from, and what a reading makes of it: the offset, the *)
(* segment's maximum, and the reading in force with the tick it was made at.  *)
Resumed(prefix) ==
  LET carried == prefix.through \in DOMAIN prefix.samples
  IN [offset  |-> prefix.offset, segment |-> prefix.segment,
      value   |-> IF carried THEN prefix.samples[prefix.through].value ELSE Nothing,
      at      |-> IF carried THEN prefix.samples[prefix.through].at ELSE Nothing]

After(rows, s, t) ==
  CASE s.segment = Nothing \/ rows[t] >= s.segment ->
         [s EXCEPT !.segment = rows[t], !.value = s.offset + rows[t], !.at = t]
    [] s.segment # Nothing /\ rows[t] < s.segment /\ IsReset(rows, t, s.segment) ->
         [offset |-> s.offset + s.segment, segment |-> rows[t],
          value |-> s.offset + s.segment + rows[t], at |-> t]
    [] OTHER -> s

Unwrapped(rows, prefix) ==
  LET state[t \in -1..LastTick] ==
        IF t = -1 THEN Resumed(prefix)
        ELSE IF t \in DOMAIN rows THEN After(rows, state[t - 1], t) ELSE state[t - 1]
  IN state
-----------------------------------------------------------------------------
(* The samples. *)

Boundaries(end) == {b \in DayStart..end : (b - DayStart) % SlotTicks = 0}

(* _is_carry_stale: an old reading is distrusted unless the next one that    *)
(* counts shows the same.                                                     *)
IsCarryStale(state, b) ==
  LET next == {t \in b + 1..LastTick : state[t].at = t}
  IN /\ state[b].at # Nothing /\ b - state[b].at > Staleness
     /\ next = {} \/ state[Min(next)].value # state[b].value

(* _sample_energy_observations_at_boundaries, behind the prefix's samples. *)
Samples(state, prefix, end) ==
  LET pending == {b \in Boundaries(end) : b > prefix.through /\ state[b].value # Nothing
                                          /\ ~IsCarryStale(state, b)}
  IN [b \in pending \cup DOMAIN prefix.samples |->
        IF b \in pending THEN [value |-> state[b].value, at |-> state[b].at] ELSE prefix.samples[b]]

(* _build_slot_energy_changes_from_boundaries *)
Energy(samples, end) ==
  LET slots == {b \in DOMAIN samples :
                  /\ b + SlotTicks <= end /\ b + SlotTicks \in DOMAIN samples
                  /\ samples[b + SlotTicks].value >= samples[b].value}
  IN [b \in slots |-> samples[b + SlotTicks].value - samples[b].value]

(* What a read of the whole day would answer. *)
WholeState(end)   == Unwrapped(Queried(NoPrefix, end), NoPrefix)
WholeSamples(end) == Samples(WholeState(end), NoPrefix, end)
WholeDay(end)     == Energy(WholeSamples(end), end)
-----------------------------------------------------------------------------
(* The reader. *)

(* Faulty variant: a rebound on the read's end is taken for seen. *)
SettledTooSoon(end) == {b \in Boundaries(end) : b + Rebound <= end}

(* _find_freeze_boundary *)
Settled(end) == {b \in Boundaries(end) : b + Rebound < end}

(* _FrozenSlotBoundaries *)
Prefix(samples, state, at) ==
  [through |-> at, samples |-> Restrict(samples, {b \in DOMAIN samples : b <= at}),
   offset |-> state[at].offset, segment |-> state[at].segment]

StartRead(r) ==
  LET end == now - ((now - DayStart) % SlotTicks) IN
  /\ reading[r].end = 0 /\ end > DayStart
  /\ reading' = [reading EXCEPT ![r] = [end |-> end,
                   prefix |-> IF frozen.through <= end THEN frozen ELSE NoPrefix]]
  /\ UNCHANGED <<now, log, frozen, shown>>

(* The recorder's executor thread has read: the answer, and a longer prefix  *)
(* than the one this read resumed from.                                       *)
FinishRead(r) ==
  LET end     == reading[r].end
      prefix  == reading[r].prefix
      state   == Unwrapped(Queried(prefix, end), prefix)
      samples == Samples(state, prefix, end)
      at      == IF Settled(end) = {} THEN 0 ELSE Max(Settled(end))
  IN /\ end # 0
     /\ shown' = [end |-> end, energy |-> Energy(samples, end)]
     /\ frozen' = IF at > prefix.through THEN Prefix(samples, state, at) ELSE frozen
     /\ reading' = [reading EXCEPT ![r] = NoRead]
     /\ UNCHANGED <<now, log>>
-----------------------------------------------------------------------------
(* The meter and the clock. *)

MeterReports ==
  /\ now \notin DOMAIN log
  /\ Cardinality(DOMAIN log) < MaxReadings
  /\ \E v \in Values : log' = [t \in {now} \cup DOMAIN log |-> IF t = now THEN v ELSE log[t]]
  /\ UNCHANGED <<now, frozen, reading, shown>>

QuietSince == IF log = <<>> THEN now ELSE now - Max(DOMAIN log)

Passes ==
  /\ now < LastTick /\ QuietSince < MaxQuiet
  /\ now' = now + 1
  /\ UNCHANGED <<log, frozen, reading, shown>>

EnergyNext ==
  \/ \E r \in Readers : StartRead(r) \/ FinishRead(r)
  \/ MeterReports \/ Passes

EnergySpec == EnergyInit /\ [][EnergyNext]_energyVars
-----------------------------------------------------------------------------
(* Whatever was read when, a read that resumes answers what a read of the    *)
(* whole day would: what was kept of the day had settled.                     *)
ReadsAsTheWholeDay == shown.energy = WholeDay(shown.end)
=============================================================================
