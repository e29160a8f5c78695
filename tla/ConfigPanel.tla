----------------------------- MODULE ConfigPanel -----------------------------
(***************************************************************************)
(* The configuration panel (config-editor/helman-config-editor.ts): one    *)
(* draft of the whole document, loaded, edited as a form or as YAML,       *)
(* checked and saved, and reloaded when the stored document changes under  *)
(* a clean draft.  The form is not disabled while a read, a check or a     *)
(* save is under way.                                                      *)
(***************************************************************************)
EXTENDS ConfigWire

VARIABLE panel

\* A load is "reading" until the document is here and "waiting" until what is
\* asked for beside it is; a save is "sent", then "after" while it reads the
\* appliances again.
PanelTypeOK ==
    /\ WireTypeOK
    /\ panel.config \in Docs \union {None}
    /\ panel.saved \in Docs \union {None}
    /\ panel.revision \in Docs \union {None}
    /\ {panel.dirty, panel.stale, panel.validating, panel.same} \subseteq BOOLEAN
    /\ panel.loading \in {"no", "reading", "waiting", "failed"}
    /\ panel.saving \in {"no", "sent", "after"}
    /\ panel.yaml \in {"visual", "yaml", "error"}
    /\ panel.validation \in Docs \union {None}

\* Opened, with its first read asked for.
PanelInit ==
    /\ WireInit
    /\ panel = [config |-> None, saved |-> None, read |-> None, revision |-> None,
                dirty |-> FALSE, stale |-> FALSE, loading |-> "no", saving |-> "no",
                atSave |-> None, during |-> None, validating |-> FALSE,
                validation |-> None, generation |-> 0, same |-> FALSE,
                yaml |-> "visual", agreed |-> FALSE]

Reading(p) == [p EXCEPT !.loading = "reading"]

Opens ==
    /\ panel.config = None /\ panel.loading = "no" /\ asked = 0
    /\ panel' = Reading(panel)
    /\ Ask(Get(0))
    /\ UNCHANGED <<store, serving, reloading, overlapped, answers, heard, edits>>

PanelReads ==
    /\ Arrives("doc") \/ Arrives("noDoc")
    /\ panel.loading = "reading"
    /\ panel' = IF Arrives("doc")
                THEN [panel EXCEPT !.loading = "waiting", !.read = Head(answers).doc,
                                   !.revision = Head(answers).doc]
                ELSE [panel EXCEPT !.loading = "failed"]
    /\ Taken
    /\ UNCHANGED <<store, serving, reloading, overlapped, asks, heard, asked, edits>>

Loaded(p, draft) ==
    [p EXCEPT !.config = draft, !.saved = p.read, !.dirty = draft # p.read, !.stale = FALSE,
              !.loading = "no", !.read = None, !.validation = None,
              !.generation = @ + 1, !.same = TRUE, !.yaml = "visual"]

\* The draft is replaced and sent off for a background check.
Loads ==
    /\ panel.loading = "waiting"
    /\ LET draft == Normalized(panel.read)
       IN  /\ panel' = Loaded(panel, draft)
           /\ Ask([ask |-> "check", doc |-> draft, by |-> panel.generation + 1])
    /\ UNCHANGED <<store, serving, reloading, overlapped, answers, heard, edits>>

LoadFails ==
    /\ panel.loading = "failed"
    /\ panel' = [panel EXCEPT !.loading = "no"]
    /\ SilentWire
    /\ UNCHANGED <<store, serving, reloading, overlapped, answers, heard, edits>>

\* _applyMutation: the form, or YAML that parses.
Changed(p, doc) == [p EXCEPT !.config = doc, !.dirty = TRUE, !.validation = None,
                             !.same = FALSE, !.agreed = FALSE]

Edits(mark) ==
    /\ panel.config # None /\ edits < MaxEdits
    /\ edits' = edits + 1
    /\ LET marks == panel.config.marks
           toggled == IF mark \in marks THEN marks \ {mark} ELSE marks \union {mark}
       IN  panel' = [Changed(panel, [panel.config EXCEPT !.marks = toggled])
                     EXCEPT !.yaml = IF @ = "error" THEN "yaml" ELSE @]
    /\ UNCHANGED wireVars

\* YAML that does not parse stays out of the draft.
TypesBadYaml ==
    /\ panel.config # None /\ panel.yaml = "yaml" /\ edits < MaxEdits
    /\ edits' = edits + 1
    /\ panel' = [panel EXCEPT !.yaml = "error"]
    /\ UNCHANGED wireVars

TogglesYaml ==
    /\ panel.config # None /\ panel.yaml # "error"
    /\ panel' = [panel EXCEPT !.yaml = IF @ = "yaml" THEN "visual" ELSE "yaml"]
    /\ UNCHANGED <<wireVars, edits>>

\* What asked for a check: the button, or a load by its generation.
Button == 0

Idle == panel.loading = "no" /\ panel.saving = "no" /\ ~panel.validating
Unsaved == panel.dirty \/ panel.yaml = "error"

\* The Reload button, confirmed where there is something to lose.
ClicksReload ==
    /\ Idle
    /\ panel' = [Reading(panel) EXCEPT !.agreed = TRUE]
    /\ Ask(Get(0))
    /\ UNCHANGED <<store, serving, reloading, overlapped, answers, heard, edits>>

ClicksValidate ==
    /\ Idle /\ panel.config # None /\ panel.yaml # "error"
    /\ panel' = [panel EXCEPT !.validating = TRUE, !.generation = @ + 1]
    /\ Ask([ask |-> "check", doc |-> Pruned(panel.config), by |-> Button])
    /\ UNCHANGED <<store, serving, reloading, overlapped, answers, heard, edits>>

\* A report the button asked for is shown as it comes; a background one only
\* on the draft it was asked for.
Reported ==
    /\ Arrives("report")
    /\ LET report == Head(answers)
       IN  panel' = IF report.by = Button
                    THEN [panel EXCEPT !.validating = FALSE, !.validation = report.doc]
                    ELSE IF panel.same /\ panel.generation = report.by
                    THEN [panel EXCEPT !.validation = report.doc]
                    ELSE panel
    /\ Taken
    /\ UNCHANGED <<store, serving, reloading, overlapped, asks, heard, asked, edits>>

ClicksSave ==
    /\ Idle /\ panel.config # None /\ panel.yaml # "error"
    /\ panel' = [panel EXCEPT !.saving = "sent", !.generation = @ + 1,
                              !.atSave = panel.config]
    /\ Ask([ask |-> "save", doc |-> Pruned(panel.config), expected |-> panel.revision])
    /\ UNCHANGED <<store, serving, reloading, overlapped, answers, heard, edits>>

\* _reactToDataChanged: p once it knows of the revision, and whether it reads.
ReloadsOn(p, revision) ==
    /\ p.saving = "no" /\ p.loading = "no"
    /\ IsStale(p.revision, revision)
    /\ ~(p.dirty \/ p.yaml = "error")

Reacts(p, revision) ==
    IF ReloadsOn(p, revision)
    THEN panel' = [Reading(p) EXCEPT !.agreed = FALSE] /\ Ask(Get(0))
    ELSE /\ panel' = [p EXCEPT !.stale = @ \/ (/\ p.saving = "no" /\ p.loading = "no"
                                               /\ IsStale(p.revision, revision))]
         /\ SilentWire

\* The save is over: what was announced meanwhile is looked at now.
Ended(p) == Reacts([p EXCEPT !.saving = "no", !.atSave = None, !.during = None], p.during)

\* Faulty variant: what is stored is taken for what is in the editor.
WithStoredClean(p, doc) ==
    [p EXCEPT !.saved = doc, !.revision = doc, !.stale = FALSE, !.validation = doc,
              !.config = Normalized(IF @ = p.atSave THEN doc ELSE @), !.same = FALSE,
              !.dirty = FALSE]

\* A stored draft that has not moved becomes the stored document; one that has
\* stays, and differs from it.
WithStored(p, doc) ==
    LET unmoved == p.config = p.atSave
        kept == Normalized(IF unmoved THEN doc ELSE p.config)
    IN  [p EXCEPT !.saved = doc, !.revision = doc, !.stale = FALSE, !.validation = doc,
                  !.config = kept, !.same = FALSE, !.dirty = kept # doc]

\* Faulty variant: the revision the conflict names is agreed with.
ConflictedAgrees(p, doc) == [p EXCEPT !.stale = TRUE, !.revision = doc]

Conflicted(p, doc) == [p EXCEPT !.stale = TRUE]

SaveAnswered ==
    /\ panel.saving = "sent"
    /\ LET answer == Head(answers)
       IN  \/ /\ Arrives("conflict")
              /\ Ended(Conflicted(panel, answer.doc))
           \/ /\ Arrives("refused")
              /\ Ended(panel)
           \/ /\ Arrives("invalid")
              /\ Ended([panel EXCEPT !.validation = answer.doc])
           \/ /\ Arrives("saved") /\ answer.reloaded
              /\ panel' = [WithStored(panel, answer.doc) EXCEPT !.saving = "after"]
              /\ SilentWire
           \/ /\ Arrives("saved") /\ ~answer.reloaded
              /\ Ended(WithStored(panel, answer.doc))
    /\ Taken
    /\ UNCHANGED <<store, serving, reloading, overlapped, heard, edits>>

\* The appliances are read again, and the draft normalized once more.
SaveEnds ==
    /\ panel.saving = "after"
    /\ LET kept == Normalized(panel.config)
       IN  Ended([panel EXCEPT !.config = kept, !.dirty = @ \/ kept # panel.config])
    /\ UNCHANGED <<store, serving, reloading, overlapped, answers, heard, edits>>

\* What the feed has collected goes out: remembered while a save is under way.
PanelTold ==
    /\ Flushed
    /\ IF panel.saving # "no"
       THEN panel' = [panel EXCEPT !.during = heard] /\ SilentWire
       ELSE Reacts(panel, heard)
    /\ UNCHANGED <<store, serving, reloading, overlapped, answers, edits>>

PanelNext ==
    \/ Server /\ UNCHANGED <<panel, edits>>
    \/ Opens \/ PanelReads \/ Loads \/ LoadFails
    \/ \E mark \in Marks : Edits(mark)
    \/ TypesBadYaml \/ TogglesYaml
    \/ ClicksReload \/ ClicksValidate \/ Reported
    \/ ClicksSave \/ SaveAnswered \/ SaveEnds
    \/ PanelTold

PanelSpec == PanelInit /\ [][PanelNext]_<<wireVars, edits, panel>>

-----------------------------------------------------------------------------
\* A draft not marked unsaved is the stored document last read or written: an
\* edit made while a save is under way keeps its mark (helman-config-editor.ts
\* 1218-1229), and so does what a load had to normalize (1113-1115).
CleanMeansStored == panel.config # None /\ ~panel.dirty => panel.config = panel.saved

\* The panel's state is of its type, and its mark of unsaved edits can be relied on.
PanelInvariant == PanelTypeOK /\ CleanMeansStored

\* Nothing the user typed is replaced by a read, unless the user said so.
EditsSurviveLoads ==
    [][panel.loading = "waiting" /\ panel'.loading = "no" /\ Unsaved
       => panel.agreed]_panel

\* A clean draft's report is about that draft: the badge "last validation
\* passed" of a draft without unsaved changes (status row, 467-469).
BadgeIsAboutTheDraft ==
    /\ panel.config # None /\ ~panel.dirty /\ panel.validation # None /\ Idle
    => Pruned(panel.validation) = Pruned(panel.config)

\* Once nothing is under way, a draft made from an outdated document says so.
StaleIsSaid ==
    /\ Idle /\ panel.config # None /\ ~reloading /\ serving = None
    /\ asks = <<>> /\ answers = <<>> /\ heard = None /\ asked < MaxAsked
    => panel.revision = store \/ panel.stale
=============================================================================
