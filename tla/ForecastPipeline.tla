-------------------------- MODULE ForecastPipeline --------------------------
(***************************************************************************)
(* The forecast service (forecast/service.py): the single-flight refresh   *)
(* that rebuilds the canonical snapshots, and the pipeline every reader is *)
(* answered from, which one builder at a time computes under a lock and    *)
(* caches.                                                                 *)
(*                                                                         *)
(* The house snapshot and the solar one are one here, told by the profile  *)
(* and the bias it was made with; the solar bias is read when a rebuild is *)
(* published, the house profile when it starts.  Time is relative, half a  *)
(* slot at a time: 0 is the first half of the current slot, 1 its second,  *)
(* and what is negative lies in the slots before.  A snapshot's age, for   *)
(* its generatedAt, counts the publications since its own: 0 is canonical. *)
(***************************************************************************)
EXTENDS Integers, SequencesExt

CONSTANTS
  Readers,          \* whoever asks for a forecast: the card, the inspector, a run
  MaxChanges,       \* bound: adopted profiles, and adopted biases
  MaxSaves,         \* bound: schedules saved
  MaxRaises         \* bound: steps that raise, and rebuilds that come back unavailable

ASSUME PipelineBounds ==
  MaxChanges \in Nat \ {0} /\ MaxSaves \in Nat /\ MaxRaises \in Nat

Warmer  == "warmer"                 \* the refresh, when it warms the pipeline
Workers == Readers \cup {Warmer}

ASSUME ReadersAssumption == Warmer \notin Readers

Oldest  == -2                       \* bound: earlier moments are not told apart
MaxAge  == 2                        \* bound: older snapshots are not told apart
Ttl     == 1                        \* a third of a slot, rounded up to half of one
Later(a) == IF a = MaxAge THEN a ELSE a + 1

VARIABLES
  now,              \* 0 or 1
  learned,          \* the house profile (0: none yet) and the solar bias in force
  saved,            \* the stored schedule
  house,            \* _cached_forecast and _cached_solar_forecast
  cache,            \* _pipeline_cache, NoPipeline for None
  refresh,          \* _forecast_refresh_task: where it is, and the profile it read
  work,             \* each worker's way through _async_current_pipeline
  line,             \* who holds the pipeline lock and who waits for it, in order
  loaded,           \* "no" once the entry is unloaded
  raises

(* History, read by the properties only. *)
VARIABLE
  lag               \* of the last answer given: the publications it missed before its
                    \* turn, the saved schedules before it was asked for

pipelineVars == <<now, learned, saved, house, cache, refresh, work, line, loaded, raises, lag>>

NoPipeline == <<>>
NoRefresh  == [at |-> "idle", started |-> 0, profile |-> 0]
Ages       == 0..MaxAge
NoLag      == [house |-> 0, schedule |-> 0]
(* fresh: the cache was not invalidated since revision was sampled.  since and *)
(* asked are history: the publications since the lock was taken, and the       *)
(* schedule stored when the forecast was asked for.                            *)
NoWork     == [at |-> "idle", started |-> 0, age |-> 0, schedule |-> 0,
               fresh |-> "no", since |-> 0, asked |-> 0]

PipelineTypeOK ==
  /\ now \in {0, 1} /\ loaded \in {"yes", "no"} /\ raises \in 0..MaxRaises
  /\ {learned, house} \subseteq [profile : 0..MaxChanges, bias : 0..MaxChanges]
  /\ saved \in 0..MaxSaves
  /\ cache = NoPipeline \/ cache \in
       [started : Oldest..1, age : Ages, schedule : 0..MaxSaves]
  /\ refresh.at \in {"idle", "reading", "saving", "warming", "ending"}
  /\ DOMAIN work = Workers
  /\ \A w \in Workers :
       /\ work[w].at \in {"idle", "queued", "preparing", "building"}
       /\ work[w].age \in Ages
       /\ work[w].at \in {"queued", "preparing", "building"} <=> Contains(line, w)
  /\ \A i \in DOMAIN line : i > 1 => work[line[i]].at = "queued"

PipelineInit ==
  /\ now = 0 /\ saved = 0 /\ loaded = "yes" /\ raises = 0
  /\ learned \in [profile : {0, 1}, bias : {0}]
  /\ house \in {[profile |-> 0, bias |-> 0], learned}     \* as stored
  /\ cache = NoPipeline /\ refresh = NoRefresh
  /\ work = [w \in Workers |-> NoWork] /\ line = <<>> /\ lag = NoLag
-----------------------------------------------------------------------------
(* The refresh.                                                            *)

(* A refresh under way is joined: its caller asks for nothing of its own. *)
RefreshFrom(started) ==
  refresh' = IF loaded = "yes" /\ refresh.at = "idle"
             THEN [at |-> "reading", started |-> started, profile |-> learned'.profile]
             ELSE refresh

(* A fit is adopted, or the bias changed: "so it shows up at once instead *)
(* of at the next quarter hour".                                           *)
Learn(what) ==
  /\ loaded = "yes" /\ learned[what] < MaxChanges
  /\ learned' = [learned EXCEPT ![what] = @ + 1]
  /\ RefreshFrom(now)
  /\ UNCHANGED <<now, saved, house, cache, work, line, loaded, raises, lag>>

(* The quarter hour starts a refresh whose reference time is the slot's start. *)
Shifted(t) == IF t - 2 < Oldest THEN Oldest ELSE t - 2
Moved(x)   == [x EXCEPT !.started = Shifted(@)]

NextHalf ==
  /\ loaded = "yes" /\ now = 0 /\ now' = 1
  /\ UNCHANGED <<learned, saved, house, cache, refresh, work, line, loaded, raises, lag>>

NextSlotOnlyPasses ==
  /\ loaded = "yes" /\ now = 1 /\ now' = 0
  /\ cache'   = IF cache = NoPipeline THEN cache ELSE Moved(cache)
  /\ work'    = [w \in Workers |-> IF Contains(line, w) THEN Moved(work[w]) ELSE work[w]]
  /\ refresh' = IF refresh.at = "idle" THEN refresh ELSE Moved(refresh)
  /\ UNCHANGED <<learned, saved, house, line, loaded, raises, lag>>

NextSlot ==
  /\ loaded = "yes" /\ now = 1 /\ now' = 0
  /\ cache' = IF cache = NoPipeline THEN cache ELSE Moved(cache)
  /\ work'  = [w \in Workers |-> IF Contains(line, w) THEN Moved(work[w]) ELSE work[w]]
  /\ UNCHANGED <<learned, saved, house, line, loaded, raises, lag>>
  /\ IF refresh.at = "idle" THEN RefreshFrom(0) ELSE refresh' = Moved(refresh)

(* The snapshots are published, and nothing computed from the last ones is *)
(* served from here on.                                                     *)
Overtaken(w) ==
  IF Contains(line, w)
  THEN [work[w] EXCEPT !.age = Later(@), !.since = Later(@), !.fresh = "no"]
  ELSE work[w]

Raises == raises < MaxRaises /\ raises' = raises + 1

(* The solar half is kept as it was when its rebuild came back unavailable. *)
Publish ==
  /\ refresh.at = "reading" /\ refresh' = [refresh EXCEPT !.at = "saving"]
  /\ \/ house' = [profile |-> refresh.profile, bias |-> learned.bias] /\ UNCHANGED raises
     \/ house' = [house EXCEPT !.profile = refresh.profile] /\ Raises
  /\ cache' = NoPipeline
  /\ work'  = [w \in Workers |-> Overtaken(w)]
  /\ UNCHANGED <<now, learned, saved, line, loaded, lag>>

(* A read or the store raises: nothing more is done of this refresh. *)
RefreshRaises ==
  /\ refresh.at \in {"reading", "saving"} /\ Raises
  /\ refresh' = [refresh EXCEPT !.at = "ending"]
  /\ UNCHANGED <<now, learned, saved, house, cache, work, line, loaded, lag>>

(* Stored; the pipeline is warmed with what was just built, if it is available. *)
Warm ==
  /\ refresh.at = "saving" /\ house.profile # 0
  /\ refresh' = [refresh EXCEPT !.at = "warming"]
  /\ work' = [work EXCEPT ![Warmer] = [NoWork EXCEPT !.at = "queued",
                !.started = refresh.started, !.asked = saved]]
  /\ line' = Append(line, Warmer)
  /\ UNCHANGED <<now, learned, saved, house, cache, loaded, raises, lag>>

LeaveCold ==
  /\ refresh.at = "saving" /\ house.profile = 0
  /\ refresh' = [refresh EXCEPT !.at = "ending"]
  /\ UNCHANGED <<now, learned, saved, house, cache, work, line, loaded, raises, lag>>

Warmed ==
  /\ refresh.at = "warming" /\ ~Contains(line, Warmer)
  /\ refresh' = [refresh EXCEPT !.at = "ending"]
  /\ work' = [work EXCEPT ![Warmer] = NoWork]
  /\ UNCHANGED <<now, learned, saved, house, cache, line, loaded, raises, lag>>

(* Published, and a plan asked for where one is due: the task is done. *)
End ==
  /\ refresh.at = "ending" /\ refresh' = NoRefresh
  /\ UNCHANGED <<now, learned, saved, house, cache, work, line, loaded, raises, lag>>
-----------------------------------------------------------------------------
(* The readers, and the refresh among them.                                *)

Ask(r) ==
  /\ loaded = "yes" /\ ~Contains(line, r)
  /\ work' = [work EXCEPT ![r] = [NoWork EXCEPT !.at = "queued", !.started = now,
                                                !.asked = saved]]
  /\ line' = Append(line, r)
  /\ UNCHANGED <<now, learned, saved, house, cache, refresh, loaded, raises, lag>>

(* It has the lock; what was read while it waited is not looked at again. *)
TakeWhatWasRead(w) ==
  /\ line # <<>> /\ Head(line) = w /\ work[w].at = "queued" /\ loaded = "yes"
  /\ work' = [work EXCEPT ![w].at = "preparing", ![w].since = 0]
  /\ UNCHANGED <<now, learned, saved, house, cache, refresh, line, loaded, raises, lag>>

(* It has the lock: a reader takes the snapshots as they are now; no other has *)
(* been published since those the refresh comes with.                          *)
Take(w) ==
  /\ line # <<>> /\ Head(line) = w /\ work[w].at = "queued" /\ loaded = "yes"
  /\ work' = [work EXCEPT ![w].at = "preparing", ![w].age = 0, ![w].since = 0]
  /\ UNCHANGED <<now, learned, saved, house, cache, refresh, line, loaded, raises, lag>>

Leaves(w) ==
  /\ work' = [work EXCEPT ![w] = NoWork]
  /\ line' = Tail(line)

(* The answer is given, and the lock with it. *)
Behind(a, b) == IF a > b THEN a - b ELSE 0

Answered(w, age, schedule) ==
  /\ Leaves(w)
  /\ lag' = [house    |-> Behind(age, work[w].since),
             schedule |-> Behind(work[w].asked, schedule)]

(* The entry fits a worker that has just read the schedule.  Whatever fits, *)
(* the battery may have drifted too far.                                    *)
Fits(w) ==
  /\ cache # NoPipeline /\ cache.age = work[w].age /\ cache.schedule = saved
  /\ (cache.started + 4) \div 2 = (work[w].started + 4) \div 2
  /\ work[w].started < cache.started + Ttl

Hit(w) ==
  /\ work[w].at = "preparing" /\ loaded = "yes" /\ Fits(w)
  /\ Answered(w, cache.age, cache.schedule)
  /\ UNCHANGED <<now, learned, saved, house, cache, refresh, loaded, raises>>

(* The revision is sampled here, after the schedule was read. *)
Miss(w) ==
  /\ work[w].at = "preparing" /\ loaded = "yes"
  /\ work' = [work EXCEPT ![w].at = "building", ![w].schedule = saved, ![w].fresh = "yes"]
  /\ UNCHANGED <<now, learned, saved, house, cache, refresh, line, loaded, raises, lag>>

HoldsNewer(w) ==
  /\ cache # NoPipeline
  /\ cache.started > work[w].started \/ cache.age < work[w].age

Superseded(w) == loaded = "no" \/ work[w].fresh = "no" \/ HoldsNewer(w)

(* The build is served whatever happened meanwhile, and cached unless superseded. *)
Build(w) ==
  /\ work[w].at = "building"
  /\ cache' = IF Superseded(w) THEN cache
               ELSE [started |-> work[w].started, age |-> work[w].age,
                     schedule |-> work[w].schedule]
  /\ Answered(w, work[w].age, work[w].schedule)
  /\ UNCHANGED <<now, learned, saved, house, refresh, loaded, raises>>

BuildRaises(w) ==
  /\ work[w].at \in {"preparing", "building"} /\ Raises
  /\ Leaves(w)
  /\ UNCHANGED <<now, learned, saved, house, cache, refresh, loaded, lag>>

(* The service was unloaded meanwhile. *)
Refused(w) ==
  /\ loaded = "no" /\ line # <<>> /\ Head(line) = w
  /\ Leaves(w)
  /\ UNCHANGED <<now, learned, saved, house, cache, refresh, loaded, raises, lag>>
-----------------------------------------------------------------------------
(* The schedule, and the end of the entry.                                 *)

Save ==
  /\ loaded = "yes" /\ saved < MaxSaves /\ saved' = saved + 1
  /\ UNCHANGED <<now, learned, house, cache, refresh, work, line, loaded, raises, lag>>

(* The refresh is cancelled wherever it waits, for the lock too. *)
Unload ==
  /\ loaded = "yes" /\ loaded' = "no"
  /\ refresh' = NoRefresh
  /\ line' = RemoveFirst(line, Warmer) /\ work' = [work EXCEPT ![Warmer] = NoWork]
  /\ UNCHANGED <<now, learned, saved, house, cache, raises, lag>>

UnloadEnds ==
  /\ loaded = "no" /\ cache # NoPipeline /\ cache' = NoPipeline
  /\ UNCHANGED <<now, learned, saved, house, refresh, work, line, loaded, raises, lag>>
-----------------------------------------------------------------------------
RefreshStep == Publish \/ Warm \/ LeaveCold \/ Warmed \/ End
Works(w)    == Take(w) \/ Hit(w) \/ Miss(w) \/ Build(w) \/ Refused(w)

PipelineNext ==
  \/ NextHalf \/ NextSlot \/ RefreshStep \/ RefreshRaises \/ Save \/ Unload \/ UnloadEnds
  \/ \E what \in {"profile", "bias"} : Learn(what)
  \/ \E r \in Readers : Ask(r)
  \/ \E w \in Workers : Works(w) \/ BuildRaises(w)

PipelineSpec == PipelineInit /\ [][PipelineNext]_pipelineVars

(* Time passes, and what was started goes on: every wait is for a recorder, *)
(* a store or a lock that answers.                                          *)
PipelineFairSpec ==
  /\ PipelineSpec /\ WF_pipelineVars(NextHalf \/ NextSlot) /\ WF_pipelineVars(RefreshStep)
  /\ \A w \in Workers : WF_pipelineVars(Works(w))
-----------------------------------------------------------------------------
(* A read is answered with nothing that was superseded before its turn came, *)
(* nor with a schedule older than the one stored when it was asked for:      *)
(* "a waiting reader sees a refresh published while it waited".              *)
ReadsAreCurrent == lag = NoLag

(* Nothing is published or cached once the service is unloaded, by builds *)
(* that were under way either.                                            *)
QuietOnceUnloaded ==
  [][loaded = "no" => house' = house /\ cache' \in {cache, NoPipeline}]_pipelineVars

(* Every read is answered, in its turn. *)
ReadsReturn ==
  \A r \in Readers : work[r].at = "queued" ~> work[r].at = "idle"

(* What was learned last is in the snapshots in the end, the change that came *)
(* while a refresh was under way included.                                    *)
LearnedIsServed ==
  <>[](loaded = "no" \/ (house.profile = learned.profile /\ house.bias = learned.bias))

(* Once a refresh has warmed the pipeline, the cache holds none of superseded *)
(* snapshots: "the readers that serve it without a signature would publish it *)
(* for the rest of the slot".  Not kept by the code; TLC refutes it: a read    *)
(* that had the lock when the refresh published stores what it then builds,    *)
(* and as it was asked for later than the refresh, HoldsNewer holds for it.   *)
NothingSupersededIsKept ==
  /\ loaded = "yes" /\ refresh.at \in {"idle", "ending"} /\ house.profile # 0
  /\ cache # NoPipeline
  =>
  cache.age = 0
=============================================================================
