----------------------------- MODULE MCWebViews -----------------------------
(***************************************************************************)
(* Seven surfaces of a tab side by side: the four of the configuration,    *)
(* the solar inspector, a card's dialogs on the browser's history, and the *)
(* detail of a node.  A behaviour is one surface's, chosen at the start.   *)
(***************************************************************************)
EXTENDS ConfigPanel, ConfigDialogs, AdminSwitch, DraftAnswers, Inspector, DialogHistory, NodeDetail, TLC

VARIABLE surface

configVars  == <<wireVars, edits, panel, dialog, admin, draftVars>>
besideVars  == <<inspectorVars, historyVars, detailVars>>
surfaceVars == <<configVars, besideVars, surface>>

Init ==
    /\ PanelInit /\ DialogInit /\ AdminInit /\ DraftInit /\ InspectorInit /\ HistoryInit /\ DetailInit
    /\ surface \in {"panel", "dialog", "admin", "draft", "inspector", "dialogs", "detail"}
    /\ surface # "dialog" => dialog.kind = "device"
    /\ surface \notin {"panel", "dialog", "admin"} => store.marks = {}
    /\ surface # "detail" => detail.kind = "today"

Config ==
    \/ surface = "panel" /\ PanelNext /\ UNCHANGED <<dialog, admin, draftVars>>
    \/ surface = "dialog" /\ DialogNext /\ UNCHANGED <<panel, admin, draftVars>>
    \/ surface = "admin" /\ AdminNext /\ UNCHANGED <<panel, dialog, draftVars>>
    \/ surface = "draft" /\ DraftNext /\ UNCHANGED <<wireVars, edits, panel, dialog, admin>>

Next ==
    /\ UNCHANGED surface
    /\ \/ Config /\ UNCHANGED besideVars
       \/ surface = "inspector" /\ InspectorNext /\ UNCHANGED <<configVars, historyVars, detailVars>>
       \/ surface = "dialogs" /\ HistoryNext /\ UNCHANGED <<configVars, inspectorVars, detailVars>>
       \/ surface = "detail" /\ DetailNext /\ UNCHANGED <<configVars, inspectorVars, historyVars>>

Spec == Init /\ [][Next]_surfaceVars

Profiles == 0 :> "custom" @@ 1 :> "solax" @@ 2 :> "custom" @@ 3 :> "custom"

\* The panel's mark of unsaved edits, its report and its badge are about the draft
\* there is, and so is every answer a dialog shows about its own.
ConfigInvariant == PanelInvariant /\ BadgeIsAboutTheDraft /\ AnswersAreOfTheDraft

\* What a view shows never gives way to something older: neither the switches of a
\* Control view, nor the answers about a draft, nor the inspector's days and spans,
\* nor the figures of a node's detail.
ShownNeverGoesBack ==
    SwitchesNeverGoBack /\ ReadingsNeverGoBack /\ PaintsOnlyNewer /\ FiguresNeverGoBack
=============================================================================
