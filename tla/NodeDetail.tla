------------------------------ MODULE NodeDetail ------------------------------
(***************************************************************************)
(* The detail of a node (node-detail-base.ts): its overview, which the     *)
(* backend computes from a mode, and one section of it                     *)
(* (section-resource.ts), of one of three kinds: figures of today, a       *)
(* rolling window, or the plan's projection.  The overview is read again   *)
(* when the mode changes, all of it when a change of the data is           *)
(* announced, and the section when its figures have grown old.  A step is  *)
(* one turn of the browser, with the update it asks for.                   *)
(***************************************************************************)
EXTENDS Integers, FiniteSets

CONSTANTS RefreshAfter, RetryAfter,     \* TODAY_REFRESH_MS, NEW_DAY_RETRY_MS, in ticks of the now-clock
          SlotTicks, Midnight, MaxNow,
          MaxModes, MaxData, MaxReads   \* bounds

ASSUME TicksAssumption == /\ {RetryAfter, RefreshAfter, SlotTicks, Midnight, MaxNow} \subseteq Nat
                          /\ RetryAfter < RefreshAfter /\ SlotTicks > 0

VARIABLES node,                 \* what there is to know
          detail                \* the element, its reads, and what it was told

detailVars == <<node, detail>>

NoSection == [status |-> "none", data |-> 0, day |-> 0, readAt |-> 0]

DetailInit ==
    /\ node = [mode |-> 0, data |-> 0, now |-> 0]
    /\ \E kind \in {"today", "rolling", "plan"} :
         detail = [kind |-> kind, started |-> FALSE, visible |-> TRUE, open |-> FALSE,
                   latest |-> 0, hass |-> 0, fresh |-> FALSE,     \* the card's hass, the detail's, not yet seen
                   watched |-> FALSE,                             \* the card passes the mode on
                   overview |-> [status |-> "loading", mode |-> 0, data |-> 0],
                   sig |-> 0, turn |-> 0,                         \* _overviewStates, _overviewRequest
                   section |-> NoSection, requestedAt |-> 0, request |-> 0, pending |-> FALSE,
                   settledAt |-> 0,
                   boundary |-> 0,                                \* _nextBoundary
                   reads |-> {},
                   told |-> 0,                                    \* of what data, while in the page
                   missed |-> {}]                                 \* whose last read failed, or "news" was called off

Day(t) == IF t < Midnight THEN 0 ELSE 1

\* The day figures name, or the one they were asked for.
OtherDay(d, now) == Day(now) # IF d.kind = "today" /\ d.section.status = "ready"
                               THEN d.section.day ELSE Day(d.requestedAt)

Asking(d, what, turn, first, reload) ==
    [d EXCEPT !.reads = @ \union {[what |-> what, turn |-> turn, first |-> first, reload |-> reload, data |-> node.data,
                                   mode |-> IF what = "overview" THEN node.mode ELSE 0,
                                   at |-> IF what = "section" THEN node.now ELSE 0]}]

----------------------------------------------------------------------------
(* The overview.                                                              *)
\* A refresh compares the states as they are when it is sent.
LoadsOverview(d, reload) ==
    LET first == d.overview.status # "ready"
    IN  Asking([d EXCEPT !.turn = @ + 1,
                       !.sig = IF first THEN @ ELSE d.hass,
                       !.overview.status = IF first THEN "loading" ELSE @],
             "overview", d.turn + 1, first, reload)

(* The section.                                                               *)
LoadsSection(d) ==
    LET keeps == d.section.status = "ready" /\ (d.kind = "rolling" \/ ~OtherDay(d, node.now))
    IN  Asking([d EXCEPT !.request = @ + 1, !.requestedAt = node.now, !.pending = TRUE,
                       !.section = IF keeps THEN @ ELSE [NoSection EXCEPT !.status = "loading"]],
             "section", d.request + 1, FALSE, FALSE)

Dropped(d) ==
    IF d.section.status = "none" THEN d
    ELSE [d EXCEPT !.request = @ + 1, !.pending = FALSE, !.section = NoSection]

\* (The faulty variant for the mutant: the figures kept pass for ones just asked for.)
CancelledAsAsked(d) ==
    LET over == IF d.pending THEN [d EXCEPT !.request = @ + 1, !.pending = FALSE] ELSE d
    IN  IF over.section.status = "ready" THEN over ELSE [over EXCEPT !.section = NoSection]
Cancelled(d) ==
    LET over == IF d.pending THEN [d EXCEPT !.request = @ + 1, !.pending = FALSE, !.requestedAt = d.settledAt]
                ELSE d
    IN  IF over.section.status = "ready" THEN over ELSE [over EXCEPT !.section = NoSection]

SectionShown(d) == d.kind = "plan" \/ (d.open /\ d.overview.status = "ready")

Stale(d) ==
    LET age == node.now - d.requestedAt
    IN  CASE d.kind = "rolling" -> age > RefreshAfter
          [] d.kind = "plan"    -> d.requestedAt < node.now - (node.now % SlotTicks)
          [] d.kind = "today"   -> age > RefreshAfter \/ (OtherDay(d, node.now) /\ age > RetryAfter)

Synced(d) ==
    CASE ~SectionShown(d) -> Dropped(d)
      [] SectionShown(d) /\ d.section.status = "none" -> LoadsSection(d)
      [] SectionShown(d) /\ d.section.status \in {"ready", "error"} /\ d.visible /\ Stale(d) -> LoadsSection(d)
      [] OTHER -> d

Reloaded(d) == IF d.section.status # "none" /\ SectionShown(d) THEN LoadsSection(d) ELSE d

\* willUpdate and updated.
Rendered(d) ==
    LET moved  == d.fresh /\ d.started /\ d.overview.status = "ready" /\ d.sig # d.hass
        looked == [IF moved THEN LoadsOverview(d, FALSE) ELSE d EXCEPT !.fresh = FALSE]
    IN  [IF d.started THEN Synced(looked) ELSE looked EXCEPT !.boundary = node.now + RefreshAfter]

----------------------------------------------------------------------------
(* What happens to it.                                                        *)
Enters ==
    /\ ~detail.started
    /\ detail' = Rendered(LoadsOverview([detail EXCEPT !.started = TRUE, !.hass = detail.latest], FALSE))
    /\ UNCHANGED node
Reloading == \E r \in detail.reads : r.reload
Leaves ==
    /\ detail.started
    /\ detail' = Cancelled([detail EXCEPT !.started = FALSE, !.turn = @ + 1,
                                   !.missed = IF Reloading \/ detail.pending THEN @ \union {"news"} ELSE @])
    /\ UNCHANGED node

TogglesSection ==
    /\ detail.started /\ detail.overview.status = "ready"
    /\ detail' = Rendered([detail EXCEPT !.open = ~@])
    /\ UNCHANGED node
RetriesOverview ==
    /\ detail.started /\ detail.overview.status = "error"
    /\ detail' = Rendered(LoadsOverview(detail, FALSE))
    /\ UNCHANGED node
RetriesSection ==
    /\ detail.started /\ detail.section.status = "error"
    /\ detail' = Rendered(LoadsSection(detail))
    /\ UNCHANGED node

NodeMoves ==
    /\ \/ node.mode < MaxModes /\ node' = [node EXCEPT !.mode = @ + 1]
       \/ node.data < MaxData /\ node' = [node EXCEPT !.data = @ + 1]
    /\ UNCHANGED detail

\* The card passes a push on when it watches what changed, or for another reason.
HassPushed(passed) ==
    /\ detail.latest < node.mode
    /\ detail.watched => passed
    /\ LET d == [detail EXCEPT !.latest = node.mode]
       IN  detail' = IF passed /\ d.started THEN Rendered([d EXCEPT !.hass = node.mode, !.fresh = TRUE]) ELSE d
    /\ UNCHANGED node

\* _onDataChanged: the section is read after the overview.  A hidden page is told later.
DataChanged ==
    /\ detail.started /\ detail.visible /\ detail.told < node.data
    /\ detail' = Rendered(LoadsOverview([detail EXCEPT !.told = node.data], TRUE))
    /\ UNCHANGED node

\* The now-clock stops while the page is hidden, and ticks at once after that.
TickDue    == detail.started /\ detail.visible /\ node.now >= detail.boundary
ClockTicks == TickDue /\ detail' = Rendered(detail) /\ UNCHANGED node
TimePasses ==
    /\ ~TickDue /\ node.now < MaxNow
    /\ node' = [node EXCEPT !.now = @ + 1]
    /\ UNCHANGED detail
TurnsPage == detail' = [detail EXCEPT !.visible = ~@] /\ UNCHANGED node

----------------------------------------------------------------------------
(* The answers.                                                               *)
\* A connection's messages come in order: a mode behind the answer's was pushed.
\* Once the overview is in, the card watches the mode, and passes on what it has.
OverviewRead(d, r, data) ==
    [d EXCEPT !.sig = IF r.first THEN d.hass ELSE @,
              !.overview = [status |-> "ready", mode |-> d.latest, data |-> data],
              !.watched = TRUE, !.hass = d.latest, !.fresh = TRUE, !.missed = @ \ {"overview"}]
OverviewFailed(d) ==
    LET told == [d EXCEPT !.missed = @ \union {"overview"}]
    IN  IF d.overview.status = "ready" THEN told ELSE Rendered([told EXCEPT !.overview.status = "error"])

OverviewAnswered(r) ==
    /\ r.what = "overview" /\ r.mode <= detail.latest
    /\ LET rest == [detail EXCEPT !.reads = @ \ {r}]
           Goes(d) == IF r.reload /\ d.started THEN Rendered(Reloaded(d)) ELSE d
       IN  IF r.turn # detail.turn THEN detail' = Goes(rest)
           ELSE \/ \E data \in r.data..node.data : detail' = Goes(Rendered(OverviewRead(rest, r, data)))
                \/ detail' = Goes(OverviewFailed(rest))
    /\ UNCHANGED node

Settled(d) == [d EXCEPT !.pending = FALSE, !.settledAt = d.requestedAt]
SectionRead(d, r, data, day) ==
    [Settled(d) EXCEPT !.section = [status |-> "ready", data |-> data, day |-> day, readAt |-> r.at],
                       !.missed = @ \ {"section", "news"}]
\* A projection that cannot be read again is not kept.
SectionFailed(d) ==
    LET told == [Settled(d) EXCEPT !.missed = @ \union {"section"}]
    IN  IF d.kind # "plan" /\ d.section.status = "ready" THEN told
        ELSE Rendered([told EXCEPT !.section = [NoSection EXCEPT !.status = "error"]])

SectionAnswered(r) ==
    /\ r.what = "section"
    /\ LET rest == [detail EXCEPT !.reads = @ \ {r}]
       IN  IF r.turn # detail.request THEN detail' = rest
           ELSE \/ \E data \in r.data..node.data, day \in Day(r.at)..Day(node.now) :
                     detail' = Rendered(SectionRead(rest, r, data, day))
                \/ detail' = SectionFailed(rest)
    /\ UNCHANGED node

DetailNext ==
    \/ /\ detail.turn + detail.request < MaxReads
       /\ \/ Enters \/ Leaves \/ TogglesSection \/ RetriesOverview \/ RetriesSection
          \/ NodeMoves \/ DataChanged \/ TimePasses \/ ClockTicks \/ TurnsPage
          \/ \E passed \in BOOLEAN : HassPushed(passed)
    \/ \E r \in detail.reads : OverviewAnswered(r) \/ SectionAnswered(r)

DetailSpec == DetailInit /\ [][DetailNext]_detailVars
----------------------------------------------------------------------------
Awaited(what, turn) == \E r \in detail.reads : r.what = what /\ r.turn = turn

DetailTypeOK ==
    /\ detail.overview.status \in {"loading", "ready", "error"}
    /\ detail.section.status \in {"none", "loading", "ready", "error"}
    /\ detail.missed \subseteq {"overview", "section", "news"}

\* What shows as loading is being read, and a section knows of its read.
NeverStuck ==
    /\ detail.started /\ detail.overview.status = "loading" => Awaited("overview", detail.turn)
    /\ detail.section.status = "loading" => detail.pending
    /\ detail.pending <=> Awaited("section", detail.request)
    /\ ~detail.started => ~detail.pending /\ detail.section.status \in {"none", "ready"}

\* With nothing on its way, what is shown is of the mode and the data the detail was
\* told of, or its last read failed, or the page was left while it was on its way.
DetailCatchesUp ==
    detail.started /\ detail.reads = {} =>
        /\ detail.overview.status = "ready" /\ "overview" \notin detail.missed
             => detail.overview.mode = detail.latest /\ detail.overview.data >= detail.told
        /\ detail.section.status = "ready" /\ {"section", "news"} \cap detail.missed = {}
             => detail.section.data >= detail.told

\* Figures are known to be as old as they are: it is what they are read again by.
AgeIsKnown ==
    detail.section.status = "ready" /\ ~detail.pending /\ "section" \notin detail.missed
        => detail.requestedAt = detail.section.readAt

DetailInvariant == DetailTypeOK /\ NeverStuck /\ DetailCatchesUp /\ AgeIsKnown

\* Figures give way to nothing older.
FiguresNeverGoBack ==
    [][/\ detail.overview.status = "ready" =>
            /\ detail'.overview.status = "ready"
            /\ detail'.overview.mode >= detail.overview.mode /\ detail'.overview.data >= detail.overview.data
       /\ detail.section.status = "ready" /\ detail'.section.status = "ready"
            => detail'.section.data >= detail.section.data /\ detail'.section.readAt >= detail.section.readAt]_detailVars
=============================================================================
