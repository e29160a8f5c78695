------------------------------- MODULE DayBand -------------------------------
(***************************************************************************)
(* The band of the day editor: presses that become taps, drags, paints or  *)
(* pans, and what each tells the editor                                    *)
(* (cards/shared/schedule/components/scheduling-entity-day-band.ts, with   *)
(* the editor's handlers of its events).  A pointer is over a slot of the  *)
(* window; pixels are left out.                                            *)
(***************************************************************************)
EXTENDS DayEditor

CONSTANTS Touches, Mouse,   \* the pointers
          Width             \* the window's length

VARIABLES drag,       \* _drag
          reach,      \* _dragRange
          pan,        \* _pan: the pointer that pans, Two fingers, or NoAct
          touches,    \* _touches
          pressed,    \* the editor's _bandPointers
          snapshot,   \* the editor's _pressSnapshot
          viewStart,  \* _viewStartMs: NoAct moves with the clock
          atPress     \* history: the editor when the touches began

bandVars == <<drag, reach, pan, touches, pressed, snapshot, viewStart, atPress>>

Two == "two"
Pointers == Touches \union {Mouse}

\* What _drag holds.
Drags == [finger : Pointers, block : BandRuns \union {NoAct}, gap : Ranges \union {NoAct},
          mode : {"move", "start", "end", "paint"}, from : 0..NSlots, to : 0..NSlots,
          grab : 0..NSlots, min : Slots, started : BOOLEAN]

ASSUME PointersAssumption ==
    /\ Mouse \notin Touches /\ Width \in 1..NSlots
    /\ NoAct \notin Pointers \union {Two} \union Drags /\ Two \notin Pointers

Clamp(x, low, high) == Max({Min({x, high}), low})

\* _window, on every read inside what is ahead.
ClampView(start) == Clamp(start, now, NSlots - Width)
View == LET start == IF viewStart = NoAct THEN now ELSE ClampView(viewStart)
        IN [from |-> start, to |-> Min({start + Width, NSlots})]

\* _setViewStart: anything at or before now means now.
ViewMoves(start) ==
    viewStart' = IF ClampView(start) <= now THEN NoAct ELSE ClampView(start)

BandInit ==
    /\ EditorInit
    /\ drag = NoAct /\ reach = NoAct /\ pan = NoAct
    /\ touches = {} /\ pressed = {}
    /\ snapshot = NoAct /\ viewStart = NoAct /\ atPress = NoAct

----------------------------------------------------------------------------
(* What is under a pointer. *)

Selection == IF ed.session = NoAct THEN ed.picked
             ELSE IF Places(ed.session) THEN ed.session ELSE NoAct

\* _isEditing
IsEditing(block) == Selection # NoAct /\ block.from < Selection.to /\ block.to > Selection.from

\* _renderGaps: the free stretches, cut at the window's first slot.
Gaps ==
    LET taken(s) == \E b \in BandBlocks(ed, ed.lane) : Covers(b, s)
    IN {[from |-> Max({g.from, View.from}), to |-> g.to] :
          g \in {r \in Ranges :
                    /\ now <= r.from /\ r.from < r.to /\ r.to > View.from /\ r.from < View.to
                    /\ \A s \in r.from..(r.to - 1) : ~taken(s)
                    /\ r.from = now \/ taken(r.from - 1)
                    /\ r.to = NSlots \/ taken(r.to)}}

\* The handles of a manual block whose edges are on screen.
Modes(block) ==
    {"move"} \union (IF block.is.by = "user" /\ block.from >= View.from THEN {"start"} ELSE {})
             \union (IF block.is.by = "user" /\ block.to <= View.to THEN {"end"} ELSE {})

\* _handleLanePointerDown, past the early returns: nothing is decided yet.
DragFrom(f, block, gap, mode, p, grab) ==
    LET reshaping == block # NoAct /\ block.is.by = "user"
        first     == Clamp(p, now, NSlots - 1)
    IN [finger |-> f, block |-> block, gap |-> gap, mode |-> IF reshaping THEN mode ELSE "paint",
        from |-> IF reshaping THEN block.from ELSE first,
        to |-> IF reshaping THEN block.to ELSE first + 1,
        grab |-> grab, min |-> now, started |-> FALSE]

\* A pointer over slot p is nearest to one of its two boundaries.
Snaps(p) == {p, p + 1}

Presses(f, l, p) ==
    \/ /\ explaining
       /\ UNCHANGED <<ed, drag, reach>>
    \/ /\ ~explaining /\ l # ed.lane
       /\ ed' = OnLane(ed, l)
       /\ UNCHANGED <<drag, reach>>
    \/ /\ ~explaining /\ l = ed.lane
       /\ \/ \E b \in BandBlocks(ed, l), grab \in Snaps(p) :
                \E mode \in Modes(b) :
                   /\ Covers(b, p)
                   /\ mode = "start" => p = b.from
                   /\ mode = "end" => p = b.to - 1
                   /\ drag' = DragFrom(f, b, NoAct, mode, p, grab)
          \/ \E g \in Gaps, grab \in Snaps(p) :
                Covers(g, p) /\ drag' = DragFrom(f, NoAct, g, "move", p, grab)
       /\ reach' = IF drag'.mode = "paint" THEN NoAct ELSE [from |-> drag'.from, to |-> drag'.to]
       /\ UNCHANGED ed

\* _handleBandPressCapture, before the band sees the press.
PressCaptured(f) == pressed' = pressed \union {f}
SnapshotAtPress == IF snapshot = NoAct THEN ed ELSE snapshot

\* Faulty variant: only the selection is put back.
RestoredSelection(snap) == [snap EXCEPT !.notice = ed.notice, !.drafts = ed.drafts]

\* _handleBandGestureCancel: what the first finger had started is undone.
Restored(snap) == [snap EXCEPT !.notice = ed.notice]

BandFrame == UNCHANGED <<clock, now, stored, baseline, lastAction, explaining, sent, foreign>>

\* One finger, or the mouse's primary button.
PointerDown(f) ==
    /\ pressed = {}
    /\ CountsAct
    /\ PressCaptured(f)
    /\ snapshot' = SnapshotAtPress
    /\ touches' = IF f = Mouse THEN touches ELSE {f}
    /\ atPress' = IF f = Mouse THEN atPress ELSE ed
    /\ \E l \in Lanes, p \in View.from..(View.to - 1) : Presses(f, l, p)
    /\ BandFrame
    /\ UNCHANGED <<pan, viewStart>>

\* _handleBandPointerDownCapture: the second finger turns the gesture into a pan.
SecondFingerDown(f) ==
    /\ f \in Touches \ touches /\ Cardinality(touches) = 1
    /\ CountsAct
    /\ PressCaptured(f)
    /\ touches' = touches \union {f}
    /\ drag' = NoAct /\ reach' = NoAct
    /\ ed' = Restored(SnapshotAtPress)
    /\ snapshot' = NoAct
    /\ pan' = Two
    /\ BandFrame
    /\ UNCHANGED <<viewStart, atPress>>

\* The secondary button anywhere, or any pointer on the axis.
PanBegins(f) ==
    /\ pressed = {}
    /\ CountsAct
    /\ PressCaptured(f)
    /\ snapshot' = SnapshotAtPress
    /\ touches' = IF f = Mouse THEN touches ELSE {f}
    /\ atPress' = IF f = Mouse THEN atPress ELSE ed
    /\ pan' = f
    /\ BandFrame
    /\ UNCHANGED <<ed, drag, reach, viewStart>>

----------------------------------------------------------------------------
\* _resolvePaintRange: from the pressed slot to the one under the pointer.
PaintRange(p) ==
    LET at == Clamp(p, drag.min, NSlots - 1)
    IN [from |-> Min({drag.from, at}), to |-> Max({drag.to, at + 1})]

\* _resolveDragRange
DragRange(q) ==
    CASE drag.mode = "start" -> [from |-> Min({Max({q, drag.min}), drag.to - 1}), to |-> drag.to]
      [] drag.mode = "end"   -> [from |-> drag.from, to |-> Max({q, drag.from + 1})]
      [] drag.mode = "move"  ->
           LET length == drag.to - drag.from
               from   == Clamp(drag.from + (q - drag.grab), drag.min, NSlots - length)
           IN [from |-> from, to |-> from + length]

\* Faulty variant: a block is selected only where nothing else is.
SelectsIfNone == ~drag.started /\ drag.mode # "paint" /\ Selection = NoAct

Selects == ~drag.started /\ drag.mode # "paint" /\ ~IsEditing(drag.block)

\* _handlePointerMove: the first move decides it is a drag, and selects the
\* block it reshapes before the first range arrives.
PointerMoves ==
    /\ drag # NoAct
    /\ \E p \in View.from..(View.to - 1) : \E q \in Snaps(p) :
          LET painting == drag.mode = "paint"
              e        == IF Selects THEN BlockSelected(ed, ed.lane, drag.block) ELSE ed
              first    == painting /\ reach = NoAct
              range    == IF painting THEN PaintRange(p) ELSE DragRange(q)
          IN /\ reach' = range
             /\ ed' = IF range = reach THEN e
                      ELSE IF painting THEN Painted(e, range, first)
                      ELSE Reshaped(e, range)
    /\ drag' = [drag EXCEPT !.started = TRUE]
    /\ BandFrame
    /\ UNCHANGED <<acts, pan, touches, pressed, snapshot, viewStart, atPress>>

\* _handleTap
Tapped(at) ==
    IF drag.block = NoAct
    THEN GapSelected(ed, ed.lane, Clamp(at, drag.gap.from, Max({drag.gap.to - 1, drag.gap.from})), drag.gap.to)
    ELSE IF IsEditing(drag.block) THEN Cleared(ed)
    ELSE BlockSelected(ed, ed.lane, drag.block)

\* The editor's _handleBandPressEnd, then the band's _handlePointerUp and
\* _handlePanEnd; `lost` is a pointercancel.
PointerUp(f, lost) ==
    /\ f \in pressed
    /\ pressed' = pressed \ {f}
    /\ snapshot' = IF pressed' = {} THEN NoAct ELSE snapshot
    /\ touches' = touches \ {f}
    /\ pan' = IF pan \in {Two, f} THEN NoAct ELSE pan
    /\ IF drag # NoAct /\ drag.finger = f
       THEN /\ drag' = NoAct /\ reach' = NoAct
            /\ ed' = IF drag.started \/ lost THEN ed ELSE Tapped(drag.grab)
       ELSE UNCHANGED <<ed, drag, reach>>
    /\ atPress' = IF touches' = {} THEN NoAct ELSE atPress
    /\ BandFrame
    /\ UNCHANGED <<acts, viewStart>>

\* _handlePanMove and _handleWheel ask for the window; the jumps set it.
WindowMoves ==
    /\ \E start \in now..NSlots : ViewMoves(start)
    /\ viewStart' # viewStart
    /\ UNCHANGED editorVars
    /\ UNCHANGED <<drag, reach, pan, touches, pressed, snapshot, atPress>>

\* _handleKeyboardClick on a focused block or gap.
KeyPresses ==
    /\ ~explaining
    /\ CountsAct
    /\ \E l \in Lanes :
          \/ l # ed.lane /\ ed' = OnLane(ed, l)
          \/ l = ed.lane /\ \E b \in BandBlocks(ed, l) : ed' = BlockSelected(ed, l, b)
          \/ l = ed.lane /\ \E g \in Gaps : ed' = GapSelected(ed, l, g.from, g.to)
    /\ BandFrame
    /\ UNCHANGED bandVars

\* The dialog closes over the band: disconnectedCallback, _endBandGesture.
Reopens ==
    /\ SaveStored
    /\ drag' = NoAct /\ reach' = NoAct /\ pan' = NoAct
    /\ touches' = {} /\ pressed' = {}
    /\ snapshot' = NoAct /\ viewStart' = NoAct /\ atPress' = NoAct

\* One pair of hands: a gesture is the mouse's or the fingers', and leaves the
\* keyboard and the panel alone.
BandNext ==
    \/ \E f \in Pointers : PointerDown(f) \/ PanBegins(f)
    \/ \E f \in Touches : SecondFingerDown(f)
    \/ PointerMoves
    \/ \E f \in Pointers, lost \in BOOLEAN : PointerUp(f, lost)
    \/ WindowMoves
    \/ pressed = {} /\ KeyPresses
    \/ pressed = {} /\ (Panel \/ StartsHere(View.from)) /\ UNCHANGED bandVars
    \/ (SaveRefused \/ AnotherWrites \/ SlotElapses \/ ClockSampled) /\ UNCHANGED bandVars
    \/ Reopens

BandSpec == BandInit /\ [][BandNext]_<<editorVars, bandVars>>

----------------------------------------------------------------------------
BandTypeOK ==
    /\ clock \in now..(now + 1)
    /\ ed.lane \in Lanes \union {NoAct}
    /\ \A l \in Lanes, s \in Slots : ed.drafts[l][s] \in Actions \union {NoAct, Freed}
    /\ ed.session # NoAct => ed.lane # NoAct /\ ed.session.from < ed.session.to
    /\ touches \subseteq pressed

\* An edge is kept only where a run would otherwise close over it, so no edge
\* of a block that is gone cuts the next one in two.
EveryEdgeHoldsApart ==
    \A l \in Lanes : ed.edges[l] = Prune(l, ed.drafts[l], ed.edges[l])

\* Letting go of a block leaves every block on the band as it was drawn: the
\* edges the session showed are the ones it leaves behind.
LettingGoKeepsTheBlocks ==
    \A l \in Lanes : BandBlocks(ed, l) = BandBlocks(Cleared(ed), l)

\* A block moved away and back is back among the blocks it left, whatever it
\* passed over on the way.
MovedBackIsAsBefore ==
    LET s == ed.session
        was(l) == HorizonBlocks(l, ed.before.draft, ed.before.edges[l])
    IN s # NoAct /\ s.origin # NoAct
       => LET b == Updated(ed, [s EXCEPT !.from = s.origin.from, !.to = s.origin.to,
                                         !.action = ShownIn(ed.lane, ed.before.draft, s.origin.from).act,
                                         !.valid = TRUE])
          IN s.origin.from >= now => BandBlocks(b, ed.lane) = was(ed.lane)

\* What is selected, let go of or moved about leaves every other block alone.
BandInvariant ==
    BandTypeOK /\ EveryEdgeHoldsApart /\ LettingGoKeepsTheBlocks /\ MovedBackIsAsBefore

\* A pan by two fingers leaves nothing of what the first one had begun.
PanLeavesTheDraftAlone ==
    pan = Two => [ed EXCEPT !.notice = FALSE] = [atPress EXCEPT !.notice = FALSE]

\* What a save sends leaves every slot still ahead with what the band shows
\* where the draft changed it, and with the user's plan as last read elsewhere.
SavesWhatIsShown ==
    [][sent = NoAct /\ sent' # NoAct =>
         \A l \in Lanes, s \in Slots :
            /\ s \in DOMAIN sent' => s >= clock
            /\ s >= clock /\ SlotIsDirty(l, ed.drafts[l], s)
               => Written(stored, sent')[l][s] = ShownIn(l, ed.drafts[l], s)
            /\ ~SlotIsDirty(l, ed.drafts[l], s) /\ IsUsers(stored, l, s)
               => Written(stored, sent')[l][s] = stored[l][s]]_<<editorVars, bandVars>>

\* A drag of a block that is not the one being edited selects it first, so
\* what it reshapes is that block and never the one that was selected before.
ReshapesWhatItPressed ==
    drag # NoAct /\ ~drag.started /\ drag.mode # "paint" /\ ~IsEditing(drag.block)
    /\ drag' # NoAct /\ ed'.session # NoAct /\ ed'.session # ed.session
    => /\ ed'.session.origin # NoAct
       /\ ed'.session.origin.from < drag.block.to
       /\ ed'.session.origin.to > drag.block.from

\* ... as long as no slot ends between the press and the first move,
DragsItsOwnBlock == [][drag # NoAct /\ drag.min = now => ReshapesWhatItPressed]_<<editorVars, bandVars>>

\* and, as the band's comment says, whenever it is dragged.
AlwaysDragsItsOwnBlock == [][ReshapesWhatItPressed]_<<editorVars, bandVars>>
=============================================================================
