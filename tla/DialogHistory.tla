---------------------------- MODULE DialogHistory ----------------------------
(***************************************************************************)
(* The dialogs of a card and the browser's Back: the node detail with its  *)
(* trail of nodes and its settings dialog, the optimizer dialog a control  *)
(* of it opens, and the schedule's day editor.  Each dialog puts an entry  *)
(* of its own on the tab's history (dialog-history-controller.ts), keeping *)
(* the keys of the dialogs beneath; a traversal lands later, and its       *)
(* popstate reaches every dialog.                                          *)
(***************************************************************************)
EXTENDS Integers, SequencesExt

CONSTANTS Nodes,                \* what a detail can be of
          NoNode,
          MaxTouches            \* bound on what the user does

ASSUME NodesAssumption == NoNode \notin Nodes /\ "editor" \notin Nodes /\ NoNode # "editor" /\ MaxTouches \in Nat

VARIABLES tab, touches
historyVars == <<tab, touches>>

Keys == {"detail", "control", "editor"}
Blank == [k \in Keys |-> 0]

HistoryInit ==
    /\ tab = [entries |-> <<Blank>>, at |-> 1,       \* the history, and where in it
              going |-> <<>>,                        \* traversals on their way
              newest |-> 0,                          \* nextHistoryEntryId
              ids |-> [k \in Keys |-> <<>>], ignore |-> [k \in Keys |-> FALSE],
              layers |-> <<>>, hiding |-> {},        \* dialogs, from the bottom; animating away
              node |-> NoNode, trail |-> <<>>, returning |-> NoNode, asked |-> NoNode,
              settings |-> FALSE, busy |-> FALSE,    \* the settings dialog; the editor's write
              more |-> "no",                         \* a Show more link
              after |-> NoNode, retained |-> Blank,  \* what a release goes on with
              left |-> "no", astray |-> FALSE]
    /\ touches = 0

Landing(t) == t.entries[t.at]
Active(t, k) == t.ids[k] # <<>>
Top(t) == IF t.layers = <<>> THEN "page" ELSE Last(t.layers)

----------------------------------------------------------------------------
(* The controller.                                                             *)
Entered(t, k, ids) ==
    [t EXCEPT !.newest = @ + 1, !.ids[k] = Append(ids, t.newest + 1), !.ignore[k] = FALSE,
              !.entries = Append(SubSeq(@, 1, t.at), [Landing(t) EXCEPT ![k] = t.newest + 1]),
              !.at = @ + 1]
Push(t, k)    == IF Active(t, k) THEN t ELSE Entered(t, k, <<>>)
Advance(t, k) == IF Active(t, k) THEN Entered(t, k, t.ids[k]) ELSE t

Towards(by, release, byUser) == [by |-> by, release |-> release, byUser |-> byUser]
IndexIn(ids, id) == IF id \in ToSet(ids) THEN CHOOSE i \in DOMAIN ids : ids[i] = id ELSE 0
Depth(t, k) == IndexIn(t.ids[k], Landing(t)[k])

\* (The faulty variant for the mutant: one step back, whatever the trail.)
ClosedOneStep(t, k) ==
    LET idle == [t EXCEPT !.ids[k] = <<>>]
    IN  IF Depth(t, k) = 0 THEN idle
        ELSE [idle EXCEPT !.ignore[k] = TRUE, !.going = Append(@, Towards(-1, FALSE, FALSE))]
Closed(t, k) ==
    LET back == Depth(t, k)
        idle == [t EXCEPT !.ids[k] = <<>>]
    IN  IF back = 0 THEN idle
        ELSE [idle EXCEPT !.ignore[k] = TRUE, !.going = Append(@, Towards(-back, FALSE, FALSE))]

\* hostDisconnected: the element is gone, and a control goes with its detail.
Gone(t, k) ==
    LET dropped == IF k = "detail" THEN {"detail", "control"} ELSE {k}
        cleared == [t EXCEPT !.layers = RemoveFirst(IF k = "detail" THEN RemoveFirst(@, "control") ELSE @, k),
                             !.hiding = @ \ dropped,
                             !.ids = [l \in Keys |-> IF l \in dropped THEN <<>> ELSE @[l]],
                             !.ignore = [l \in Keys |-> @[l] /\ l \notin dropped]]
    IN  IF k = "detail"
        THEN [cleared EXCEPT !.node = NoNode, !.trail = <<>>, !.returning = NoNode, !.asked = NoNode,
                             !.settings = FALSE]
        ELSE [cleared EXCEPT !.busy = FALSE]

----------------------------------------------------------------------------
(* The node detail: what an update of it makes of the trail.                   *)
Updated(t) ==
    IF t.node = NoNode THEN t
    ELSE IF ~Active(t, "detail")
         THEN [Push(t, "detail") EXCEPT !.trail = <<t.node>>, !.returning = NoNode]
    ELSE IF t.returning # NoNode /\ t.node = t.returning /\ t.node # Last(t.trail) THEN t
    ELSE IF t.node = Last(t.trail) THEN [t EXCEPT !.returning = NoNode]
    ELSE [Advance(t, "detail") EXCEPT !.trail = Append(@, t.node), !.returning = NoNode]

Shown(t, n) ==
    Updated([t EXCEPT !.node = n, !.settings = @ /\ n = t.node,
                      !.layers = IF "detail" \in ToSet(@) THEN @ ELSE Append(@, "detail")])
EditorShown(t) == Push([t EXCEPT !.layers = Append(@, "editor")], "editor")

\* What the callers of release do after its wait: the dialog again, on top.
GoesOn(t) ==
    LET done == [t EXCEPT !.after = NoNode]
    IN  IF t.after = "editor" THEN EditorShown(Gone(done, "editor")) ELSE Shown(Gone(done, "detail"), t.after)

\* release: the entry reached is to keep the other dialogs' keys, which sleep
\* through the popstate.  It counts on one entry lying over its own.
Released(t, k, after) ==
    LET back == Depth(t, k)
        idle == [t EXCEPT !.ids[k] = <<>>, !.after = after]
    IN  IF back = 0 THEN GoesOn(idle)
        ELSE [idle EXCEPT !.ignore = [l \in Keys |-> @[l] \/ (l # k /\ Active(t, l))],
                          !.retained = [Landing(t) EXCEPT ![k] = 0],
                          !.astray = @ \/ \E l \in Keys \ {k} : Len(t.ids[l]) > 1,
                          !.going = Append(@, Towards(-back, TRUE, FALSE))]
Continued(t) == GoesOn([t EXCEPT !.entries[t.at] = t.retained])

----------------------------------------------------------------------------
(* A traversal lands: every dialog's _handlePopState, in the order they were   *)
(* connected.  "agrees" is the user's answer about a draft, and no save being  *)
(* out, in the dialogs that are asked to close.                                *)
PutBack(t, k, agrees) ==                        \* onBack: what is on top is asked instead
    CASE k = "detail"  -> [t EXCEPT !.settings = ~agrees]
      [] k = "control" -> IF agrees THEN Closed([t EXCEPT !.layers = RemoveFirst(@, k)], k) ELSE t
      [] k = "editor"  -> t
\* (The faulty variant for the mutant: Back with the settings open is the detail's.)
KeepsNoSettings(t, k) == k = "control" \/ (k = "editor" /\ t.busy)
Keeps(t, k) == \/ k = "detail" /\ t.settings
               \/ k = "control"
               \/ k = "editor" /\ t.busy
BackedOut(t, k, i) ==
    IF k = "detail" /\ i > 0
    THEN [t EXCEPT !.trail = SubSeq(@, 1, i), !.returning = t.node, !.asked = t.trail[i]]
    ELSE [t EXCEPT !.hiding = @ \union {k}]

HandlesPopState(t, k, landed, agrees) ==
    LET i   == IndexIn(t.ids[k], landed[k])
        cut == [t EXCEPT !.ids[k] = SubSeq(@, 1, i)]
    IN  IF ~Active(t, k) THEN t
        ELSE IF t.ignore[k] THEN [t EXCEPT !.ignore[k] = FALSE]
        ELSE IF landed[k] # 0 /\ i = 0
             THEN [t EXCEPT !.ignore[k] = TRUE, !.going = Append(@, Towards(-1, FALSE, FALSE))]
        ELSE IF i > 0 /\ i = Len(t.ids[k]) THEN t
        ELSE IF Keeps(t, k)
             THEN PutBack(IF i > 0 THEN Advance(cut, k) ELSE Push(cut, k), k, agrees)
        ELSE BackedOut(cut, k, i)

PopState(t, agrees) ==
    LET landed == Landing(t)
        Told(u, k) == HandlesPopState(u, k, landed, agrees)
    IN  Told(Told(Told(t, "detail"), "control"), "editor")

\* Show more, once the dialog's own step has landed: a page of Home Assistant's.
Navigated(t) == [t EXCEPT !.entries = Append(SubSeq(@, 1, t.at), Blank), !.at = @ + 1, !.left = "more"]

Lands ==
    /\ tab.going # <<>> /\ tab.left = "no"
    /\ LET go == Head(tab.going)
           to == tab.at + go.by
           t  == [tab EXCEPT !.going = Tail(@), !.at = to]
       IN  IF to < 1 THEN tab' = [tab EXCEPT !.left = IF go.byUser THEN "back" ELSE "pushed"]
           ELSE IF to > Len(tab.entries) THEN tab' = [t EXCEPT !.at = tab.at]
           ELSE \E agrees \in BOOLEAN :
                   LET told == PopState(t, agrees)
                   IN  tab' = IF go.release THEN Continued(told)
                              ELSE IF told.more = "waits" THEN Navigated(told) ELSE told
    /\ UNCHANGED touches

----------------------------------------------------------------------------
(* What the dialogs do by themselves.                                          *)
Resting == tab.going = <<>> /\ tab.left = "no"

\* The hide is over: the dialog reports itself closed, and its host takes it away.
Hidden(k) ==
    /\ Resting /\ k \in tab.hiding
    /\ LET closed == Closed(tab, k)
           gone   == Gone(closed, k)
       IN  tab' = IF k = "detail" /\ tab.more = "asked"
                  THEN IF closed.going # <<>> THEN [gone EXCEPT !.more = "waits"] ELSE Navigated(gone)
                  ELSE gone
    /\ UNCHANGED touches

HostShows == Resting /\ tab.asked # NoNode /\ tab' = Shown([tab EXCEPT !.asked = NoNode], tab.asked)
                     /\ UNCHANGED touches
\* Every push of states renders the card again, and the detail with new params.
Renders == Resting /\ tab' = Updated(tab) /\ tab' # tab /\ UNCHANGED touches

\* A reload of the tree without the detail's device: no close is reported.
DeviceLost ==
    /\ Resting /\ tab.node # NoNode
    /\ tab' = [Gone(tab, "detail") EXCEPT !.astray = TRUE]
    /\ UNCHANGED touches

\* A write that ends under a detail opened meanwhile takes that one's entry off.
EditorSaveEnds(ok) ==
    /\ Resting /\ tab.busy
    /\ tab' = [tab EXCEPT !.busy = FALSE, !.hiding = IF ok THEN @ \union {"editor"} ELSE @,
                          !.astray = @ \/ (ok /\ Top(tab) # "editor")]
    /\ UNCHANGED touches

----------------------------------------------------------------------------
(* The user: presses what is on top, while no traversal is on its way; Back may  *)
(* be pressed again before the last one has landed.                            *)
Touch == touches < MaxTouches /\ touches' = touches + 1

OpensDetail(n) == Top(tab) = "page" /\ tab' = Shown(tab, n)
AsksNode(n)    == Top(tab) = "detail" /\ n # tab.node /\ ~tab.settings /\ tab' = [tab EXCEPT !.asked = n]
OpensSettings  == Top(tab) = "detail" /\ ~tab.settings /\ tab.hiding = {} /\ tab' = [tab EXCEPT !.settings = TRUE]
ClosesSettings == tab.settings /\ tab' = [tab EXCEPT !.settings = FALSE]
OpensControl   == /\ Top(tab) = "detail" /\ ~tab.settings /\ tab.hiding = {} /\ tab.asked = NoNode
                  /\ tab' = Push([tab EXCEPT !.layers = Append(@, "control")], "control")
ClosesControl  == /\ Top(tab) = "control"
                  /\ tab' = Closed([tab EXCEPT !.layers = Front(@)], "control")
OpensEditor    ==
    /\ Top(tab) \in {"page", "detail"} /\ ~tab.settings /\ tab.hiding = {} /\ tab.asked = NoNode
    /\ tab' = IF "editor" \in ToSet(tab.layers) THEN Released(tab, "editor", "editor") ELSE EditorShown(tab)
ShowsControllable(n) ==
    /\ Top(tab) = "editor" /\ tab.hiding = {} /\ tab.asked = NoNode
    /\ tab' = IF tab.node # NoNode THEN Released(tab, "detail", n) ELSE Shown(tab, n)
Saves          == Top(tab) = "editor" /\ ~tab.busy /\ tab.hiding = {} /\ tab' = [tab EXCEPT !.busy = TRUE]
Hides(k)       == /\ Top(tab) = k /\ k \in {"detail", "editor"} /\ ~tab.settings
                  /\ ~(k = "editor" /\ tab.busy)
                  /\ tab' = [tab EXCEPT !.hiding = @ \union {k}]
ShowsMore      == Top(tab) = "detail" /\ ~tab.settings /\ tab.hiding = {}
                  /\ tab' = [tab EXCEPT !.hiding = {"detail"}, !.more = "asked"]
\* Forward over a dialog that is closed finds an entry nobody answers for.
Traverses(by)  ==
    LET ahead == tab.entries[tab.at + 1]
    IN  /\ by = 1 => tab.at < Len(tab.entries)
        /\ tab' = [tab EXCEPT !.going = <<Towards(by, FALSE, TRUE)>>,
                              !.astray = @ \/ (by = 1 /\ \E k \in Keys : ahead[k] # 0 /\ ~Active(tab, k))]

BackAgain ==
    /\ tab.left = "no" /\ Len(tab.going) = 1 /\ Head(tab.going).byUser
    /\ tab' = [tab EXCEPT !.going = Append(@, Towards(-1, FALSE, TRUE))]

HistoryUser ==
    /\ Touch
    /\ \/ BackAgain
       \/ /\ Resting
          /\ \/ \E n \in Nodes : OpensDetail(n) \/ AsksNode(n) \/ ShowsControllable(n)
             \/ OpensSettings \/ ClosesSettings \/ OpensControl \/ ClosesControl \/ OpensEditor \/ Saves
             \/ Hides("detail") \/ Hides("editor") \/ ShowsMore
             \/ Traverses(-1) \/ Traverses(1)

\* Nothing is claimed of a history gone astray (README, known limits): it ends there.
HistoryNext ==
    /\ ~tab.astray
    /\ \/ HistoryUser \/ Lands \/ HostShows \/ Renders \/ DeviceLost
       \/ \E k \in Keys : Hidden(k)
       \/ \E ok \in BOOLEAN : EditorSaveEnds(ok)

HistorySpec == HistoryInit /\ [][HistoryNext]_historyVars
----------------------------------------------------------------------------
HistoryTypeOK ==
    /\ tab.at \in 1..Len(tab.entries) /\ tab.node \in Nodes \union {NoNode}
    /\ ToSet(tab.layers) \subseteq Keys /\ tab.hiding \subseteq ToSet(tab.layers)

\* At rest the next Back is the top dialog's, and one more leaves each of the others:
\* every dialog has its entries on the history, in the order they opened.
OneBackEach ==
    (Resting /\ tab.hiding = {} /\ tab.asked = NoNode) =>
        /\ \A k \in Keys : k \in ToSet(tab.layers) <=> Active(tab, k)
        /\ tab.at - 1 = Len(tab.ids["detail"]) + Len(tab.ids["control"]) + Len(tab.ids["editor"])
        /\ \A k \in ToSet(tab.layers) : Landing(tab)[k] = Last(tab.ids[k])
        /\ tab.layers # <<>> => Landing(tab)[Top(tab)] > 0
                                /\ Landing(tab)[Top(tab)] # tab.entries[tab.at - 1][Top(tab)]
        /\ Len(tab.trail) = Len(tab.ids["detail"])
        /\ tab.node # NoNode => tab.node = Last(tab.trail)

\* Only the user's Back leaves the page, and only with nothing kept open over it; Show
\* more leaves from where the detail was opened.
LeavesByHand ==
    /\ tab.left # "pushed"
    /\ tab.left = "back" => ToSet(tab.layers) \subseteq tab.hiding
    /\ tab.left = "more" => tab.entries[tab.at - 1]["detail"] = 0

HistoryInvariant == HistoryTypeOK /\ (~tab.astray => OneBackEach /\ LeavesByHand)

\* One Back answers for one dialog: no press takes two away.
StandingDialogs(t) == (ToSet(t.layers) \ t.hiding) \union 
               (IF t.settings /\ "detail" \notin t.hiding THEN {"settings"} ELSE {})
BackTakesOne ==
    [][\A k, l \in StandingDialogs(tab) \ StandingDialogs(tab)' :
          Lands /\ Head(tab.going).byUser /\ ~tab'.astray => k = l]_historyVars
=============================================================================
