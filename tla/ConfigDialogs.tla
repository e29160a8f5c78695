--------------------------- MODULE ConfigDialogs ---------------------------
(***************************************************************************)
(* The dialogs a card opens on the configuration: one device               *)
(* (devices/helman-device-edit-dialog.ts) or the automations of a lane     *)
(* (optimizer/helman-optimizer-edit-dialog.ts).  Both load the document,   *)
(* edit a draft of it, save it whole and close on a save that was taken.   *)
(* Unlike the panel they never reload by themselves.                       *)
(***************************************************************************)
EXTENDS ConfigWire

VARIABLE dialog

\* loads: documents read by loads that still wait for the rest they asked for.
DialogTypeOK ==
    /\ WireTypeOK
    /\ dialog.kind \in {"device", "optimizer"}
    /\ dialog.view \in {"loading", "failed", "not_found", "ready"}
    /\ (dialog.view = "ready") = (dialog.config \in Docs)
    /\ dialog.revision \in Docs \union {None}
    /\ {dialog.dirty, dialog.stale, dialog.saving, dialog.closed} \subseteq BOOLEAN

\* connectedCallback: opened, its first load asked for.
DialogInit ==
    /\ WireInit
    /\ dialog \in [kind : {"device", "optimizer"}, view : {"loading"}, config : {None},
                   revision : {None}, dirty : {FALSE}, stale : {FALSE}, saving : {FALSE},
                   sent : {None}, during : {None}, closed : {FALSE}, agreed : {FALSE},
                   loads : {<<>>}, reading : {0}]

Loading(d) == [d EXCEPT !.view = "loading", !.config = None, !.dirty = FALSE,
                        !.stale = FALSE, !.reading = @ + 1]

Opened ==
    /\ asked = 0
    /\ dialog' = Loading(dialog)
    /\ Ask(Get(0))
    /\ UNCHANGED <<store, serving, reloading, overlapped, answers, heard, edits>>

\* ConfigSession.load answers: the revision is agreed with, the view waits.
DialogReads ==
    /\ Arrives("doc") \/ Arrives("noDoc")
    /\ dialog' = IF Arrives("doc")
                 THEN [dialog EXCEPT !.reading = @ - 1, !.revision = Head(answers).doc,
                                     !.loads = Append(@, Head(answers).doc)]
                 ELSE [dialog EXCEPT !.reading = @ - 1, !.view = "failed", !.config = None]
    /\ Taken
    /\ UNCHANGED <<store, serving, reloading, overlapped, asks, heard, asked, edits>>

\* The rest is here, the hardware profiles or the schema and the appliances:
\* the view is of the document that load read, unless what it is opened on is
\* not in it.
Shows(i) ==
    /\ i \in DOMAIN dialog.loads
    /\ \E found \in BOOLEAN :
          dialog' = [dialog EXCEPT
              !.loads = SubSeq(@, 1, i - 1) \o SubSeq(@, i + 1, Len(@)),
              !.view = IF found THEN "ready" ELSE "not_found",
              !.config = IF found THEN dialog.loads[i] ELSE None]
    /\ UNCHANGED <<wireVars, edits>>

\* Faulty variant: the card takes input while a save is out.
EditableAlways(d) == d.view = "ready" /\ ~d.closed

\* The card takes no input while a save is out, nor does the footer: only the
\* view that is ready has a Save, which a stale or a saving one disables.
Editable(d) == d.view = "ready" /\ ~d.saving /\ ~d.closed
SaveOffered(d) == Editable(d) /\ ~d.stale
ReloadOffered(d) == d.stale /\ ~d.saving /\ ~d.closed

Drafted(mark) ==
    LET marks == dialog.config.marks
        toggled == IF mark \in marks THEN marks \ {mark} ELSE marks \union {mark}
    IN  dialog' = [dialog EXCEPT !.config.marks = toggled, !.dirty = TRUE]

EditAllowed == edits < MaxEdits /\ edits' = edits + 1

\* A field of the device's card, or a reading put back.
EditsDevice(mark) ==
    /\ dialog.kind = "device" /\ Editable(dialog) /\ EditAllowed
    /\ Drafted(mark)
    /\ UNCHANGED wireVars

\* A field of an optimizer's card.
EditsOptimizer(mark) ==
    /\ dialog.kind = "optimizer" /\ Editable(dialog) /\ EditAllowed
    /\ Drafted(mark)
    /\ UNCHANGED wireVars

\* The on/off switch in the card's summary row, on the same draft.
SetsEnabled ==
    /\ dialog.kind = "optimizer" /\ Editable(dialog) /\ EditAllowed
    /\ Drafted("field")
    /\ UNCHANGED wireVars

\* Only the device dialog leaves out wiring that no device can carry.
SentDoc(d) == IF d.kind = "device" THEN Pruned(d.config) ELSE d.config

DialogSaves ==
    /\ SaveOffered(dialog)
    /\ dialog' = [dialog EXCEPT !.saving = TRUE, !.sent = SentDoc(dialog)]
    /\ Ask([ask |-> "save", doc |-> SentDoc(dialog), expected |-> dialog.revision])
    /\ UNCHANGED <<store, serving, reloading, overlapped, answers, heard, edits>>

\* What was announced during the save is looked at when it ends.
SaveOver(d) ==
    [d EXCEPT !.saving = FALSE, !.during = None,
              !.stale = @ \/ (~d.closed /\ IsStale(d.revision, d.during))]

DialogAnswered ==
    /\ dialog.saving
    /\ LET answer == Head(answers)
           kept == [dialog EXCEPT !.view = "ready", !.config = answer.doc, !.dirty = FALSE,
                                  !.stale = FALSE, !.revision = answer.doc]
       IN  \/ /\ Arrives("conflict")
              /\ dialog' = SaveOver([dialog EXCEPT !.stale = TRUE])
           \/ /\ Arrives("invalid") \/ Arrives("refused")
              /\ dialog' = SaveOver(dialog)
           \/ /\ Arrives("saved") /\ answer.reloaded
              /\ dialog' = SaveOver([kept EXCEPT !.closed = TRUE])
           \/ /\ Arrives("saved") /\ ~answer.reloaded
              /\ dialog' = SaveOver(kept)
    /\ Taken
    /\ UNCHANGED <<store, serving, reloading, overlapped, asks, heard, asked, edits>>

\* The banner's Reload, confirmed over a dirty draft; it shows while loading too.
DialogReloads ==
    /\ ReloadOffered(dialog)
    /\ dialog' = Loading(dialog)
    /\ Ask(Get(0))
    /\ overlapped' = (overlapped \/ dialog.reading > 0 \/ dialog.loads # <<>>)
    /\ UNCHANGED <<store, serving, reloading, answers, heard, edits>>

\* Cancel, Back, Escape or the scrim: refused while saving, asked when dirty.
DialogCloses ==
    /\ ~dialog.saving /\ ~dialog.closed
    /\ dialog' = [dialog EXCEPT !.closed = TRUE, !.agreed = dialog.dirty]
    /\ UNCHANGED <<wireVars, edits>>

DialogTold ==
    /\ Flushed
    /\ dialog' = IF dialog.saving THEN [dialog EXCEPT !.during = heard]
                 ELSE [dialog EXCEPT !.stale = @ \/ IsStale(dialog.revision, heard)]
    /\ UNCHANGED <<store, serving, reloading, overlapped, asks, answers, asked, edits>>

DialogNext ==
    \/ Server /\ UNCHANGED <<dialog, edits>>
    \/ Opened \/ DialogReads
    \/ \E i \in DOMAIN dialog.loads : Shows(i)
    \/ \E mark \in {"field", "phase"} : EditsDevice(mark)
    \/ \E mark \in {"field", "legacy"} : EditsOptimizer(mark)
    \/ SetsEnabled
    \/ DialogSaves \/ DialogAnswered \/ DialogReloads \/ DialogCloses \/ DialogTold

DialogSpec == DialogInit /\ [][DialogNext]_<<wireVars, edits, dialog>>

-----------------------------------------------------------------------------
\* A dialog that closes closes on what it shows: on a save, what was sent is
\* the draft with every edit in it; otherwise the user agreed to lose the edits
\* (helman-device-edit-dialog.ts 386-390, 455-500).
ClosesOnWhatIsSaved ==
    [][dialog'.closed /\ ~dialog.closed =>
         IF dialog.saving THEN overlapped \/ dialog.sent = SentDoc(dialog)
         ELSE dialog.dirty => dialog'.agreed]_dialog
=============================================================================
