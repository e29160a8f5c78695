------------------------------ MODULE DayEditor ------------------------------
(***************************************************************************)
(* The draft a day editor keeps over the schedule: one partial plan per    *)
(* lane, the session that places a block in it, the edges that keep equal  *)
(* neighbours apart, and the batch of slot patches Save sends              *)
(* (cards/shared/schedule/dialogs/scheduling-entity-day-editor.ts over     *)
(* model/entity-day-schedule-model.ts).                                    *)
(* Time is the slot grid: slot s runs over [s, s + 1).                     *)
(***************************************************************************)
EXTENDS Integers, FiniteSets, FiniteSetsExt

CONSTANTS Lanes,
          Actions,
          NoAct,        \* nothing there, and "not in the draft"
          Freed,        \* a slot drafted empty
          Plans,        \* the schedules an opening may start from
          NSlots,
          HourSlots,    \* DEFAULT_NEW_BLOCK_DURATION_MS
          MaxActs,      \* bound on what the user does
          Foreign,      \* what other clients write: lane, slot and assignment
          MaxForeign    \* bound on how often

VARIABLES clock,      \* the slot running now
          now,        \* the slot running at the last 30 s sample: nowMs
          stored,     \* the schedule as last read: `slots`
          baseline,   \* _baselineSlots
          ed,         \* the draft, its edges and what is selected
          lastAction, \* _lastActions over the lane's default
          explaining, \* _mode
          sent,       \* the batch on its way, or NoAct
          acts, foreign

editorVars == <<clock, now, stored, baseline, ed, lastAction, explaining, sent, acts, foreign>>

Slots == 0..(NSlots - 1)
User(a) == [by |-> "user", act |-> a]
Automation(a) == [by |-> "automation", act |-> a]
Assignments == {NoAct} \union {User(a) : a \in Actions} \union {Automation(a) : a \in Actions}

Ranges == [from : 0..NSlots, to : 0..NSlots]
Covers(r, s) == r.from <= s /\ s < r.to

\* The draft of a lane nobody has touched.
Untouched == [s \in Slots |-> NoAct]
NoBefore == [draft |-> Untouched, edges |-> [l \in Lanes |-> {}]]

\* What the editor's fields hold.
Drafts   == [Slots -> Actions \union {NoAct, Freed}]
Edges    == [Lanes -> SUBSET (0..NSlots)]
Sessions == [origin : Ranges \union {NoAct}, from : 0..NSlots, to : 0..NSlots,
             action : Actions \union {NoAct}, valid : BOOLEAN, clamped : BOOLEAN]
BandRuns == [from : 0..NSlots, to : 0..NSlots, key : 0..NSlots, cut : BOOLEAN, is : Assignments]
Editors  == [drafts : [Lanes -> Drafts], edges : Edges, lane : Lanes \union {NoAct},
             session : Sessions \union {NoAct}, before : [draft : Drafts, edges : Edges],
             picked : BandRuns \union {NoAct}, notice : BOOLEAN]

ASSUME EditorBounds ==
    /\ NSlots \in Nat \ {0} /\ {HourSlots, MaxActs, MaxForeign} \subseteq Nat
    /\ Actions # {}
    /\ Plans \subseteq [Lanes -> [Slots -> Assignments]]
    /\ Foreign \subseteq [lane : Lanes, slot : Slots, as : Assignments]
\* What stands for nothing is nothing else.
ASSUME NoActAssumption ==
    /\ NoAct \notin Lanes /\ NoAct \notin Actions /\ NoAct # Freed /\ Freed \notin Actions
    /\ NoAct \notin [by : {"user", "automation"}, act : Actions]
    /\ NoAct \notin Ranges /\ NoAct \notin Sessions /\ NoAct \notin BandRuns /\ NoAct \notin Editors

----------------------------------------------------------------------------
(* The plan with a draft over it. *)

IsUsers(plan, l, s) == plan[l][s] # NoAct /\ plan[l][s].by = "user"

\* What the lane shows in a slot: a drafted action is the user's by definition.
ShownIn(l, draft, s) ==
    CASE draft[s] = NoAct -> baseline[l][s]
      [] draft[s] = Freed -> NoAct
      [] OTHER            -> User(draft[s])

\* _isSlotDirty: another action, or an action claimed from the automation.
SlotIsDirty(l, draft, s) ==
    CASE draft[s] = NoAct -> FALSE
      [] draft[s] = Freed -> baseline[l][s] # NoAct
      [] OTHER            -> baseline[l][s] # User(draft[s])

\* areEntityScheduleLanesDirty
LanesAreDirty(drafts, from) ==
    \E l \in Lanes, s \in Slots : s >= from /\ SlotIsDirty(l, drafts[l], s)

\* Two neighbouring slots of one run, edges aside.
Agree(l, draft, k) ==
    /\ k \in 1..(NSlots - 1)
    /\ ShownIn(l, draft, k) # NoAct
    /\ ShownIn(l, draft, k - 1) = ShownIn(l, draft, k)

\* buildEntityScheduleBlocks: the maximal runs that cross no edge.
Blocks(l, draft, splits) ==
    LET joined(k) == Agree(l, draft, k) /\ k \notin splits
    IN {b \in Ranges :
            /\ b.from < b.to
            /\ ShownIn(l, draft, b.from) # NoAct
            /\ \A k \in (b.from + 1)..(b.to - 1) : joined(k)
            /\ ~joined(b.from) /\ ~joined(b.to)}

\* selectEntityScheduleDayBlocks over the horizon, which starts at the slot
\* running now: `key` names a block by its first slot, `cut` says it began before.
HorizonBlocks(l, draft, splits) ==
    {[from |-> Max({b.from, now}), to |-> b.to, key |-> b.from, cut |-> b.from < now,
      is |-> ShownIn(l, draft, b.from)] : b \in {x \in Blocks(l, draft, splits) : x.to > now}}

\* freeEntityScheduleRange: the user's slots are drafted empty, the rest undrafted.
Free(l, draft, r) ==
    [s \in Slots |-> IF s >= now /\ Covers(r, s)
                     THEN IF IsUsers(baseline, l, s) THEN Freed ELSE NoAct
                     ELSE draft[s]]

\* A session that was opened on nothing frees nothing.
FreeOrigin(l, draft, origin) == IF origin = NoAct THEN draft ELSE Free(l, draft, origin)

\* placeEntityScheduleManualRange
Place(l, draft, origin, r, a) ==
    [s \in Slots |-> IF s >= now /\ Covers(r, s) THEN a ELSE FreeOrigin(l, draft, origin)[s]]

\* _pruneBlockSplits: only the edges strictly inside a merged run.
Prune(l, draft, splits) == {k \in splits : Agree(l, draft, k)}

----------------------------------------------------------------------------
(* The session.  Each operator maps the editor `e` to what a method leaves. *)

Places(session) == session.valid /\ session.action # NoAct

\* A start the session had to raise is the now-line, not an edge.
SessionEdges(session) ==
    IF session.clamped /\ session.from <= now THEN {session.to} ELSE {session.from, session.to}

\* _laneBlockSplits: the stored edges and the open session's own two.
LaneSplits(e, l) ==
    IF e.session # NoAct /\ l = e.lane /\ Places(e.session)
    THEN e.edges[l] \union SessionEdges(e.session)
    ELSE e.edges[l]

BandBlocks(e, l) == HorizonBlocks(l, e.drafts[l], LaneSplits(e, l))

\* _setDraft
WithDraft(e, draft) ==
    [e EXCEPT !.drafts[e.lane] = draft, !.edges[e.lane] = Prune(e.lane, draft, @), !.notice = FALSE]

\* _updateEditSession: replayed from the draft and the edges before the session.
Updated(e, session) ==
    LET outside == {k \in e.before.edges[e.lane] : k <= session.from \/ k >= session.to}
    IN IF Places(session)
       THEN WithDraft([e EXCEPT !.session = session,
                                !.edges = [e.before.edges EXCEPT ![e.lane] = outside]],
                      Place(e.lane, e.before.draft, session.origin, session, session.action))
       ELSE WithDraft([e EXCEPT !.session = session, !.edges = e.before.edges],
                      FreeOrigin(e.lane, e.before.draft, session.origin))

\* Faulty variant: the session's own edges go with it.
CommittedBare(e) ==
    IF e.session = NoAct THEN e ELSE [e EXCEPT !.session = NoAct, !.before = NoBefore]

\* _commitEditSession: the session's edges outlive it where they hold runs apart.
Committed(e) ==
    IF e.session = NoAct THEN e
    ELSE [e EXCEPT !.edges[e.lane] =
                       Prune(e.lane, e.drafts[e.lane],
                             @ \union (IF Places(e.session) THEN SessionEdges(e.session) ELSE {})),
                   !.session = NoAct,
                   !.before = NoBefore]

\* _clearSelection
Cleared(e) == [Committed(e) EXCEPT !.picked = NoAct]

\* _selectLane
OnLane(e, l) == IF e.lane = l THEN e ELSE [Cleared(e) EXCEPT !.lane = l]

\* _beginEdit: over the part that can still be changed, if any.
Begun(e, origin, r, action, cut) ==
    LET from == Max({r.from, now})
        c    == Cleared(e)
    IN IF from >= r.to THEN e
       ELSE Updated([c EXCEPT !.before = [draft |-> c.drafts[c.lane], edges |-> c.edges]],
                    [origin |-> IF origin = NoAct THEN NoAct ELSE [from |-> from, to |-> origin.to],
                     from |-> from, to |-> r.to, action |-> action, valid |-> TRUE,
                     clamped |-> from > r.from \/ cut])

\* _handleBandBlockSelect: a manual block opens, an automation run is picked.
BlockSelected(e, l, block) ==
    LET on    == OnLane(e, l)
        found == {b \in BandBlocks(on, l) : b.key = block.key /\ b.is.act = block.is.act}
        b     == CHOOSE x \in found : TRUE
    IN CASE found = {} -> on
         [] found # {} /\ b.is.by = "automation" -> [Cleared(on) EXCEPT !.picked = b]
         [] found # {} /\ b.is.by = "user" ->
              IF /\ on.session # NoAct /\ Places(on.session)
                 /\ b.from < on.session.to /\ b.to > on.session.from
              THEN on
              ELSE Begun(on, b, b, b.is.act, b.cut)

\* _handleBandRangePaint
Painted(e, r, first) ==
    IF first \/ e.session = NoAct
    THEN Begun(Cleared(e), NoAct, r, lastAction[e.lane], FALSE)
    ELSE Updated(e, [e.session EXCEPT !.from = r.from, !.to = r.to])

\* _handleBandRangeChange
Reshaped(e, r) ==
    IF e.session = NoAct \/ r.to <= r.from THEN e
    ELSE Updated(e, [e.session EXCEPT !.from = r.from, !.to = r.to])

\* _resolveDefaultEndMs: an hour, as far as there are boundaries.
DefaultEnd(from) == Min({from + HourSlots, NSlots})

\* _handleBandGapSelect
GapSelected(e, l, from, limit) ==
    Begun(OnLane(e, l), NoAct, [from |-> from, to |-> Min({DefaultEnd(from), limit})], lastAction[l], FALSE)

\* _handleDelete: the draft before the session, without the block.
Deleted(e) ==
    [WithDraft([e EXCEPT !.edges = e.before.edges], FreeOrigin(e.lane, e.before.draft, e.session.origin))
        EXCEPT !.session = NoAct, !.before = NoBefore]

\* _seedFromSlots
Seeded(target) ==
    [drafts |-> [l \in Lanes |-> Untouched], edges |-> [l \in Lanes |-> {}], lane |-> target,
     session |-> NoAct, before |-> NoBefore, picked |-> NoAct, notice |-> FALSE]

----------------------------------------------------------------------------
(* What Save sends. *)

\* Faulty variant: over the schedule the draft was seeded from.
PatchOfBaseline(s) ==
    [l \in Lanes |->
        IF SlotIsDirty(l, ed.drafts[l], s)
        THEN IF ed.drafts[l][s] = Freed THEN NoAct ELSE ed.drafts[l][s]
        ELSE IF IsUsers(baseline, l, s) THEN baseline[l][s].act ELSE NoAct]

\* buildEntityScheduleLanePatches: what the user is left with in a slot, over
\* the schedule as last read.
PatchOf(s) ==
    [l \in Lanes |->
        IF SlotIsDirty(l, ed.drafts[l], s)
        THEN IF ed.drafts[l][s] = Freed THEN NoAct ELSE ed.drafts[l][s]
        ELSE IF IsUsers(stored, l, s) THEN stored[l][s].act ELSE NoAct]

PatchedSlots ==
    {s \in Slots :
        /\ s >= clock
        /\ \E l \in Lanes :
              /\ SlotIsDirty(l, ed.drafts[l], s)
              /\ IsUsers(stored, l, s) => PatchOf(s)[l] # stored[l][s].act}

Batch == [s \in PatchedSlots |-> PatchOf(s)]

\* The stored slot becomes exactly the patch (external: the backend).
Written(plan, batch) ==
    [l \in Lanes |-> [s \in Slots |->
        IF s \notin DOMAIN batch THEN plan[l][s]
        ELSE IF batch[s][l] = NoAct THEN NoAct ELSE User(batch[s][l])]]

\* _canSave, by the render clock for the button and by the real one for the press
CanSave(at) ==
    /\ sent = NoAct
    /\ LanesAreDirty(ed.drafts, at)
    /\ ed.session # NoAct => ed.session.valid

----------------------------------------------------------------------------
EditorInit ==
    /\ stored \in Plans
    /\ baseline = stored
    /\ clock = 0 /\ now = 0
    /\ \E target \in Lanes \union {NoAct} : ed = Seeded(target)
    /\ lastAction = [l \in Lanes |-> CHOOSE a \in Actions : TRUE]
    /\ explaining = FALSE /\ sent = NoAct
    /\ acts = 0 /\ foreign = 0

CountsAct == acts < MaxActs /\ acts' = acts + 1

\* A press that leaves the editor as `e`, the clocks and the schedule alone.
Leaves(e) ==
    /\ ed' = e
    /\ UNCHANGED <<clock, now, stored, baseline, sent, foreign>>

PanelPress(e) ==
    /\ CountsAct
    /\ Leaves(e)
    /\ UNCHANGED <<lastAction, explaining>>

EditsBand == ~explaining

\* _handleStartChange: the end follows a start that overtakes it.
ChangesStart ==
    /\ EditsBand /\ ed.session # NoAct
    /\ \E from \in (now..(NSlots - 1)) \ {ed.session.from} :
          LET length == ed.session.to - ed.session.from
              to     == IF from < ed.session.to THEN ed.session.to ELSE Min({from + length, NSlots})
          IN PanelPress(Updated(ed, [ed.session EXCEPT !.from = from, !.to = to]))

\* _handleEndChange, and the picks that name an end.
ChangesEnd ==
    /\ EditsBand /\ ed.session # NoAct
    /\ \E to \in (Max({now, ed.session.from}) + 1)..NSlots :
          PanelPress(Updated(ed, [ed.session EXCEPT !.to = to]))

\* _handleActionChange: an action still being typed is invalid, or none.
ChangesAction ==
    /\ EditsBand /\ ed.session # NoAct
    /\ \E a \in Actions \union {NoAct}, valid \in BOOLEAN :
          /\ CountsAct
          /\ Leaves(Updated(ed, [ed.session EXCEPT !.action = a, !.valid = valid]))
          /\ lastAction' = IF valid /\ a # NoAct THEN [lastAction EXCEPT ![ed.lane] = a] ELSE lastAction
          /\ UNCHANGED explaining

Removes == EditsBand /\ ed.session # NoAct /\ PanelPress(Deleted(ed))

\* _handleOverride: the run's own action, made the user's.
Overrides ==
    /\ EditsBand /\ ed.session = NoAct /\ ed.picked # NoAct
    /\ PanelPress(Begun(ed, NoAct, ed.picked, ed.picked.is.act, ed.picked.cut))

\* The picks of the empty panel: from the window's edge, with what is there.
StartsHere(from) ==
    /\ EditsBand /\ ed.lane # NoAct /\ ed.session = NoAct /\ ed.picked = NoAct
    /\ \E to \in (from + 1)..NSlots :
          LET there == baseline[ed.lane][from]
          IN PanelPress(Begun(ed, NoAct, [from |-> from, to |-> to],
                              IF there = NoAct THEN lastAction[ed.lane] ELSE there.act, FALSE))

\* A press outside the panel and the band, and one on the forecast rows.
LetsGo == (ed.session # NoAct \/ ed.picked # NoAct) /\ PanelPress(Cleared(ed))
LeavesTheLanes == EditsBand /\ ed.lane # NoAct /\ PanelPress(OnLane(ed, NoAct))

\* _setMode
SwitchesMode ==
    /\ CountsAct
    /\ Leaves(Cleared(ed))
    /\ explaining' = ~explaining
    /\ UNCHANGED lastAction

\* _handleSave that sends: the session ends, then every lane's draft in one batch.
Saves ==
    /\ CanSave(now) /\ CanSave(clock)
    /\ CountsAct
    /\ ed' = [Committed(ed) EXCEPT !.notice = (PatchedSlots = {})]
    /\ sent' = IF PatchedSlots = {} THEN NoAct ELSE Batch
    /\ UNCHANGED <<clock, now, stored, baseline, lastAction, explaining, foreign>>

\* _handleSave that finds the whole draft elapsed since the last sample.
DeclinesToSave ==
    /\ CanSave(now) /\ ~CanSave(clock)
    /\ CountsAct
    /\ ed' = [ed EXCEPT !.notice = TRUE]
    /\ UNCHANGED <<clock, now, stored, baseline, lastAction, explaining, sent, foreign>>

\* The write's answer: refused, the draft stays up; stored, the dialog closes
\* and the next opening is seeded from the schedule as it now is.
SaveRefused ==
    /\ sent # NoAct /\ sent' = NoAct
    /\ UNCHANGED <<clock, now, stored, baseline, ed, lastAction, explaining, acts, foreign>>

SaveStored ==
    /\ sent # NoAct /\ sent' = NoAct
    /\ stored' = Written(stored, sent)
    /\ baseline' = stored'
    /\ \E target \in Lanes \union {NoAct} : ed' = Seeded(target)
    /\ explaining' = FALSE
    /\ lastAction' = [l \in Lanes |-> CHOOSE a \in Actions : TRUE]
    /\ UNCHANGED <<clock, now, acts, foreign>>

\* Another client, or an automation run, writes a slot the editor has read.
AnotherWrites ==
    /\ foreign < MaxForeign /\ foreign' = foreign + 1
    /\ \E w \in Foreign :
          /\ w.slot >= clock
          /\ stored' = [stored EXCEPT ![w.lane][w.slot] = w.as]
    /\ UNCHANGED <<clock, now, baseline, ed, lastAction, explaining, sent, acts>>

\* The slot runs out, and the 30 s timer samples it.
SlotElapses ==
    /\ clock = now /\ clock < NSlots - 1
    /\ clock' = clock + 1
    /\ UNCHANGED <<now, stored, baseline, ed, lastAction, explaining, sent, acts, foreign>>

ClockSampled ==
    /\ now # clock
    /\ now' = clock
    /\ UNCHANGED <<clock, stored, baseline, ed, lastAction, explaining, sent, acts, foreign>>

Panel == ChangesStart \/ ChangesEnd \/ ChangesAction \/ Removes \/ Overrides \/ LetsGo
            \/ LeavesTheLanes \/ SwitchesMode \/ Saves \/ DeclinesToSave
=============================================================================
