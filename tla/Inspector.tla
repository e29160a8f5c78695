------------------------------ MODULE Inspector ------------------------------
(***************************************************************************)
(* The solar inspector (helman-solar-inspector.ts): one day slot by slot,  *)
(* a month day by day ("month", the stop D) or a year month by month       *)
(* ("year", the stop M), each read from the server when it is asked for;   *)
(* answers come in any order, may fail, and carry the state of the house   *)
(* at some moment since they were asked for.  Days are numbers, months and *)
(* years the number of their first day.                                    *)
(***************************************************************************)
EXTENDS SlotSelection

CONSTANTS Today, Horizon,       \* the last day with a forecast
          HistoryFloor,         \* the first day the recorder still has
          MonthLen, YearLen,
          Hourly,               \* the days known by the hour only
          Units,                \* the finest slots of a day, two to the hour
          MaxActs,              \* bound on what the user does
          MaxChanges            \* bound on what the server announces

SpanKeys == [bucket : {"slot", "day", "month"}, start : 1..Horizon]

ASSUME DaysAssumption == /\ {Today, Horizon, HistoryFloor, MonthLen, YearLen, Units} \subseteq Nat \ {0}
                         /\ HistoryFloor <= Horizon /\ Today <= Horizon
ASSUME NilAssumption == /\ Nil \notin Int /\ Nil \notin [key : SpanKeys, id : Nat]
                        /\ Nil \notin [date : 1..Horizon, version : Nat]
                        /\ Nil \notin [bucket : {"day", "month"}, start : 1..Horizon, version : Nat]

VARIABLES view,                 \* mode, date, slot width, and what is picked
          day,                  \* _payload and the state of its request
          span,                 \* _span and the state of its request
          flying,               \* the requests on their way
          house,                \* how often the server's data has moved
          told,                 \* how much of it was announced
          loads, acts

inspectorVars == <<view, day, span, flying, house, told, loads, acts>>
inspectorState == <<view, day, span>>

Month(d) == d - ((d - 1) % MonthLen)
Year(d)  == d - ((d - 1) % YearLen)
Clamped(d, low, high) == IF d < low THEN low ELSE IF d > high THEN high ELSE d

\* What a view reads: a day's slots, a month's days, a year's months (spanBounds).
SpanOf(mode, d) == CASE mode = "year"  -> [bucket |-> "month", start |-> Year(d)]
                     [] mode = "month" -> [bucket |-> "day", start |-> Month(d)]
                     [] mode = "day"   -> [bucket |-> "slot", start |-> d]
DayOf(d) == SpanOf("day", d)

\* The columns of a span: nothing after today was measured.
Columns(s) ==
    IF s = Nil THEN {}
    ELSE IF s.bucket = "day" THEN {d \in s.start..Today : Month(d) = s.start}
    ELSE {m \in s.start..Today : m = Month(m) /\ Year(m) = s.start}

Grid(width) == {u \in 0..(Units - 1) : u % width = 0}
Granularity(d) == IF d \in Hourly THEN 2 ELSE 1

InspectorInit ==
    /\ view = [mode |-> "day", date |-> Today, width |-> 1,
               slots |-> Nowhere, buckets |-> Nowhere]
    /\ day = [payload |-> Nil, stale |-> FALSE, loading |-> TRUE, error |-> FALSE,
              request |-> [key |-> DayOf(Today), id |-> 1]]
    /\ span = [shown |-> Nil, loading |-> FALSE, error |-> FALSE, request |-> Nil]
    /\ flying = {[key |-> DayOf(Today), id |-> 1, at |-> 0]}
    /\ house = 0 /\ told = 0 /\ loads = 1 /\ acts = 0

----------------------------------------------------------------------------
(* What is on screen.                                                          *)
ViewLoading == IF view.mode = "day" THEN day.loading ELSE span.loading
ViewError   == IF view.mode = "day" THEN day.error ELSE span.error

\* What is dimmed takes no press.
DayLives == /\ view.mode = "day" /\ ~day.loading /\ ~day.error
            /\ day.payload # Nil /\ day.payload.date = view.date
SpanLives == /\ view.mode # "day" /\ ~span.loading /\ ~span.error
             /\ span.shown # Nil /\ span.shown.bucket = SpanOf(view.mode, view.date).bucket

SlotFloor == IF view.mode = "day" /\ day.payload # Nil THEN Granularity(day.payload.date) ELSE 1

\* Both payloads bring the range the inspector may be navigated in.
RangeKnown == day.payload # Nil
NavFloor == IF RangeKnown \/ span.shown # Nil THEN HistoryFloor ELSE Today

\* A day pill opens its day, or at D picks its column; at M there are none.
DayPills ==
    CASE view.mode = "day"   -> IF RangeKnown THEN HistoryFloor..Horizon ELSE {Today}
      [] view.mode = "month" ->
            LET shown == IF view.buckets.focus = Nil THEN view.date ELSE view.buckets.focus
                rows  == Columns(span.shown)
            IN  {d \in Month(shown)..(Month(shown) + MonthLen - 1) :
                    rows # {} => Min(rows) <= d /\ d <= Max(rows)}
      [] OTHER -> {}

MonthPills == {m \in Year(view.date)..Month(Today) :
                  m = Month(m) /\ Year(m) = Year(view.date) /\ m >= Month(NavFloor)}
YearPills  == {y \in Year(NavFloor)..Year(Today) : y = Year(y)}

\* In the view of a month its place in the year is kept.
SpanKeyForYear(y) ==
    IF view.mode = "year" THEN y
    ELSE Clamped(y + Month(view.date) - Year(view.date), Month(NavFloor), Month(Today))

----------------------------------------------------------------------------
(* The requests: one of each kind is current, and one under way for the same   *)
(* key is not repeated.                                                        *)
Standing(request, key) == request # Nil /\ request.key = key
IsCurrentByKey(holder, r) == Standing(holder.request, r.key)    \* (faulty variant)
IsCurrent(holder, r) == holder.request = [key |-> r.key, id |-> r.id]

Sent(key) ==
    /\ loads' = loads + 1
    /\ flying' = flying \union {[key |-> key, id |-> loads + 1, at |-> house]}
NothingSent == UNCHANGED <<loads, flying>>

\* _load.  A refresh nobody asked for (silent) puts up no overlay.
LoadsDay(dy, date, silent) ==
    IF Standing(dy.request, DayOf(date)) THEN day' = dy /\ NothingSent
    ELSE /\ day' = [dy EXCEPT !.request = [key |-> DayOf(date), id |-> loads + 1], !.error = FALSE,
                              !.loading = @ \/ ~silent]
         /\ Sent(DayOf(date))

EnsuresDay(date) ==
    IF day.stale \/ day.payload = Nil \/ day.payload.date # date
    THEN LoadsDay(day, date, FALSE) ELSE UNCHANGED day /\ NothingSent

\* _loadSpan of the view as it is to be.
LoadsSpan(sp, v, silent) ==
    LET key == SpanOf(v.mode, v.date)
    IN  IF Standing(sp.request, key)
        THEN /\ view' = [v EXCEPT !.buckets = Reconciled(Columns(sp.shown), @)]
             /\ span' = sp /\ NothingSent
        ELSE /\ view' = v
             /\ span' = [sp EXCEPT !.request = [key |-> key, id |-> loads + 1], !.error = FALSE,
                                   !.loading = @ \/ ~silent]
             /\ Sent(key)

\* A minute stop: each slot picked moves to the one of the new width it lies in.
WithWidth(v, width) ==
    IF v.width = width THEN v
    ELSE [v EXCEPT !.width = width, !.slots = Regridded(Grid(width), @, width)]

----------------------------------------------------------------------------
(* The answers.                                                                *)
DayAnswered(r, ok, version) ==
    LET date == r.key.start
        mine == IsCurrent(day, r) /\ date = view.date
        wide == IF Granularity(date) > view.width THEN WithWidth(view, Granularity(date)) ELSE view
    IN  /\ r.key.bucket = "slot"
        /\ day' = IF ~mine THEN day
                  ELSE IF ok THEN [day EXCEPT !.payload = [date |-> date, version |-> version],
                                              !.stale = FALSE, !.loading = FALSE, !.request = Nil]
                  ELSE [day EXCEPT !.error = TRUE, !.loading = FALSE, !.request = Nil]
        /\ view' = IF mine /\ ok
                   THEN [wide EXCEPT !.slots = Reconciled(Grid(wide.width), @)] ELSE view
        /\ UNCHANGED span

SpanAnswered(r, ok, version) ==
    LET mine  == IsCurrent(span, r)
        shown == [bucket |-> r.key.bucket, start |-> r.key.start, version |-> version]
    IN  /\ r.key.bucket # "slot"
        /\ span' = IF ~mine THEN span
                   ELSE IF ok THEN [span EXCEPT !.shown = shown, !.loading = FALSE]
                   ELSE [span EXCEPT !.error = TRUE, !.loading = FALSE]
        /\ view' = IF mine /\ ok THEN [view EXCEPT !.buckets = Reconciled(Columns(shown), @)] ELSE view
        /\ UNCHANGED day

InspectorAnswered(r) ==
    /\ flying' = flying \ {r}
    /\ \E ok \in BOOLEAN, version \in r.at..house :
          DayAnswered(r, ok, version) \/ SpanAnswered(r, ok, version)
    /\ UNCHANGED <<house, told, loads, acts>>

HouseMoves ==
    /\ house < MaxChanges
    /\ house' = house + 1
    /\ UNCHANGED <<view, day, span, flying, told, loads, acts>>

\* _refreshActiveView: only what is on screen is read again, the rest is owed.
Refreshes(silent) ==
    IF view.mode = "day"
    THEN /\ span' = [span EXCEPT !.request = Nil]
         /\ LoadsDay(day, view.date, silent)
         /\ UNCHANGED view
    ELSE /\ day' = [day EXCEPT !.stale = TRUE]
         /\ LoadsSpan([span EXCEPT !.request = Nil], view, silent)

HouseTold ==
    /\ told < house
    /\ told' = house
    /\ Refreshes(TRUE)
    /\ UNCHANGED <<house, acts>>

----------------------------------------------------------------------------
(* The user.                                                                   *)
InspectorPress == acts < MaxActs /\ acts' = acts + 1 /\ UNCHANGED <<house, told>>

PressesRefresh == ~day.loading /\ ~span.loading /\ Refreshes(FALSE)

\* Which day a minute stop opens: the column picked at D; at M the day selected if
\* the month picked has it, else that month's first; as far as days go.
DayForMinutesStop(v) ==
    LET focus  == v.buckets.focus
        wanted == IF focus = Nil \/ v.mode = "day" THEN v.date
                  ELSE IF v.mode = "month" \/ Month(v.date) # focus THEN focus ELSE v.date
    IN  IF RangeKnown THEN Clamped(wanted, HistoryFloor, Horizon) ELSE wanted

OpensDay(v, width) ==
    LET date == DayForMinutesStop(v)
    IN  /\ view' = WithWidth([v EXCEPT !.mode = "day", !.date = date, !.buckets = Nowhere], width)
        /\ EnsuresDay(date)
        /\ UNCHANGED span

PressesMinutes(width) == width >= SlotFloor /\ OpensDay(view, width)

\* What was picked is carried along, as a column of the coarser or finer view.
PressesSpanStop(mode) ==
    LET anchor == IF view.buckets.focus = Nil THEN view.date ELSE view.buckets.focus
        \* Into D a month picked at M brings no day.
        carried == IF mode = "month" /\ view.mode = "year"
                   THEN [view EXCEPT !.date = Month(anchor), !.buckets = Nowhere]
                   ELSE [view EXCEPT !.date = anchor,
                                     !.buckets = Only(IF mode = "month" THEN anchor ELSE Month(anchor))]
    IN  /\ view.mode # mode
        /\ LoadsSpan(span, [carried EXCEPT !.mode = mode], FALSE)
        /\ UNCHANGED day

\* _showSpan: the span shown already is no move.
ShowsSpan(start, mode) ==
    /\ mode # view.mode \/ start # SpanOf(mode, view.date).start
    /\ LoadsSpan(span, [view EXCEPT !.mode = mode, !.date = start, !.buckets = Nowhere], FALSE)
    /\ UNCHANGED day

PicksBucket(column, how) ==
    /\ view' = [view EXCEPT !.buckets = Picked(Columns(span.shown), @, column, how)]
    /\ UNCHANGED <<day, span>> /\ NothingSent

PressesDayPill(d) ==
    /\ d \in DayPills
    /\ IF view.mode = "month" THEN PicksBucket(d, "replace")
       ELSE /\ d # view.date
            /\ view' = [view EXCEPT !.date = d]
            /\ LoadsDay(day, d, FALSE)
            /\ UNCHANGED span

PressesMonthPill(m) ==
    /\ m \in MonthPills
    /\ \/ view.mode = "year" /\ PicksBucket(m, "replace")
       \/ view.mode = "month" /\ ShowsSpan(m, "month")

PressesYearPill(y) == y \in YearPills /\ view.mode # "day" /\ ShowsSpan(SpanKeyForYear(y), view.mode)

\* _openBucket, from a column or its pill: a day out of the day view's reach is picked only.
OpensBucket(column) ==
    \/ /\ view.mode = "year" /\ column \in MonthPills \union Columns(span.shown)
       /\ ShowsSpan(column, "month")
    \/ /\ view.mode = "month" /\ column \in DayPills
       /\ LET picked == [view EXCEPT !.buckets = Picked(Columns(span.shown), @, column, "replace")]
          IN  IF RangeKnown => column \in HistoryFloor..Horizon
              THEN OpensDay(picked, view.width)
              ELSE view' = picked /\ UNCHANGED <<day, span>> /\ NothingSent

PressesColumn(column, how) == SpanLives /\ column \in Columns(span.shown) /\ PicksBucket(column, how)

PressesSlot(slot, how) ==
    /\ DayLives
    /\ view' = [view EXCEPT !.slots = Picked(Grid(view.width), @, slot, how)]
    /\ UNCHANGED <<day, span>> /\ NothingSent

PressesBesides ==
    /\ DayLives \/ SpanLives
    /\ view' = IF view.mode = "day" THEN [view EXCEPT !.slots = Nowhere]
               ELSE [view EXCEPT !.buckets = Nowhere]
    /\ UNCHANGED <<day, span>> /\ NothingSent

\* A day of the training table, whatever the pills reach.
SelectsTrainingDate(d) ==
    /\ DayLives /\ view.slots.focus # Nil /\ d # view.date
    /\ view' = [view EXCEPT !.date = d]
    /\ LoadsDay(day, d, FALSE)
    /\ UNCHANGED span

Modes == {"replace", "toggle", "extend"}

InspectorUser ==
    /\ InspectorPress
    /\ \/ PressesRefresh
       \/ \E width \in {1, 2} : PressesMinutes(width)
       \/ \E mode \in {"month", "year"} : PressesSpanStop(mode)
       \/ \E d \in 1..Horizon :
             \/ PressesDayPill(d) \/ PressesMonthPill(d) \/ PressesYearPill(d)
             \/ OpensBucket(d) \/ \E how \in Modes : PressesColumn(d, how)
             \/ d < Today /\ SelectsTrainingDate(d)
       \/ \E slot \in Grid(view.width), how \in Modes : PressesSlot(slot, how)
       \/ PressesBesides

InspectorNext == InspectorUser \/ HouseMoves \/ HouseTold \/ \E r \in flying : InspectorAnswered(r)

InspectorFair ==
    \A id \in 1..(MaxActs + MaxChanges + 1) :
        WF_inspectorVars(\E r \in flying : r.id = id /\ InspectorAnswered(r))

InspectorSpec == InspectorInit /\ [][InspectorNext]_inspectorVars /\ InspectorFair
----------------------------------------------------------------------------
InspectorTypeOK ==
    /\ view.mode \in {"day", "month", "year"} /\ view.date \in 1..Horizon
    /\ view.width \in {1, 2} /\ view.slots.slots \subseteq Grid(view.width)
    /\ \A r \in flying : r.id \in 1..loads /\ r.at \in 0..house

\* What is picked is lit, and what the panels are about is among it.
PickedIsLit == SelectionHolds(view.slots) /\ SelectionHolds(view.buckets)

\* With nothing under way and no error said, the view is of what is browsed, and
\* no column is picked that it does not draw.
ShowsWhatIsBrowsed ==
    /\ view.mode = "day" /\ ~day.error /\ day.request = Nil
         => day.payload # Nil /\ day.payload.date = view.date
    /\ view.mode # "day" /\ ~span.error /\ (\A r \in flying : ~IsCurrent(span, r))
         => /\ span.shown # Nil
            /\ SpanOf(view.mode, view.date) = [bucket |-> span.shown.bucket, start |-> span.shown.start]
            /\ view.buckets.slots \subseteq Columns(span.shown)

InspectorInvariant == InspectorTypeOK /\ PickedIsLit /\ ShowsWhatIsBrowsed

\* No answer takes a day, or a span, back behind what is shown of it.
PaintsOnlyNewer ==
    [][/\ day.payload # Nil /\ day'.payload.date = day.payload.date
            => day'.payload.version >= day.payload.version
       /\ span.shown # Nil /\ [span'.shown EXCEPT !.version = 0] = [span.shown EXCEPT !.version = 0]
            => span'.shown.version >= span.shown.version]_inspectorState

\* An overlay over the day goes away, as long as answers come.
OverlayEnds == (view.mode = "day" /\ day.loading) ~> ~(view.mode = "day" /\ day.loading)

\* What was announced is shown once the view is quiet.
AnnouncedIsShown ==
    (view.mode = "day" /\ told = house /\ flying = {} /\ ~day.error /\ ~day.loading)
        => day.payload.version = house
=============================================================================
