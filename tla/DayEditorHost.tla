--------------------------- MODULE DayEditorHost ---------------------------
(***************************************************************************)
(* The element that opens the day editor over the shared schedule, saves   *)
(* its draft and keeps it up while the write is out                        *)
(* (cards/shared/schedule/dialogs/scheduling-day-editor-host.ts, with the  *)
(* editor's own ways out).  What the editor does to a draft is module      *)
(* DayEditor; here a draft is the number of the edit that made it.         *)
(***************************************************************************)
EXTENDS ScheduleOwner

CONSTANTS MaxEdits, MaxOpens    \* bounds on what the user does

ASSUME HostNames ==
    /\ {"_writing", "_togglingExecution"} \subseteq Writers
    /\ MaxEdits \in Nat
    /\ None \notin [stands : BOOLEAN, draft : 1..MaxEdits]

VARIABLES host,         \* the SchedulingDayEditorHost
          dialog,       \* the scheduling-entity-day-editor in its shadow root
          reopening,    \* a _reopenFor that waits for the dialog's history entry
          attempt,      \* the save on its way: the opening and the draft it is of
          listed,       \* the lanes have been read
          edits, opens,
          refused,      \* history: the drafts whose last write was refused
          cancelled     \* history: the drafts the user has cancelled

hostVars == <<host, dialog, reopening, attempt, listed, edits, opens, refused, cancelled>>
hostState == <<wireVars, feedVars, ownerVars, hostVars>>

Clean == 0
NoDialog == [up |-> FALSE, open |-> FALSE, draft |-> Clean]

HostTypeOK ==
    /\ OwnerTypeOK
    /\ dialog \in [up : BOOLEAN, open : BOOLEAN, draft : 0..MaxEdits]
    /\ host.error \in {None} \union (1..MaxEdits)
    /\ refused \subseteq 1..MaxEdits /\ cancelled \subseteq 1..MaxEdits

HostInit ==
    /\ OwnerInit
    /\ host = [known |-> FALSE,      \* _lastSlotMinutes is not null
               pending |-> None,     \* _pendingOpen
               open |-> FALSE,
               atOpen |-> FALSE,     \* _editorScheduleAtOpen is not null
               changed |-> FALSE,    \* _editorScheduleChanged
               error |-> None,       \* _editorSaveError, as the draft it refused
               saving |-> FALSE]
    /\ dialog = NoDialog
    /\ reopening = None /\ attempt = None
    /\ listed = FALSE
    /\ edits = 0 /\ opens = 0
    /\ refused = {} /\ cancelled = {}

Busy == "_writing" \in owner.flags \/ host.saving

\* The lane asked for alone must be listed, the day read.
Openable(h, press) == h.known /\ (press.single => listed)

PendingOpens == host.pending # None /\ Openable(host, host.pending)
HostSettled == NoContinuation /\ ~PendingOpens

----------------------------------------------------------------------------
\* _applyOpenFor: a fresh opening, seeded from the schedule as it is.
Opened(h) == [h EXCEPT !.pending = None, !.open = TRUE, !.changed = FALSE, !.error = None,
                       !.atOpen = (owner.shown # None)]

\* _editorOpening moves on: a save on its way is no longer of this opening.
AnotherOpening == IF attempt = None THEN None ELSE [attempt EXCEPT !.stands = FALSE]

\* openFor: not yet; nothing ahead to edit; a dialog is up, even one on its way
\* out; or open it.
OpenFor(press, ahead) ==
    IF ~Openable(host, press) \/ ~ahead
    THEN /\ host' = [host EXCEPT !.pending = IF Openable(host, press) THEN None ELSE press]
         /\ UNCHANGED <<dialog, reopening, attempt>>
    ELSE /\ attempt' = AnotherOpening
         /\ IF dialog.up
            THEN /\ host' = [host EXCEPT !.pending = None]
                 /\ reopening' = [draft |-> dialog.draft, atOpen |-> host.atOpen,
                                  changed |-> host.changed, error |-> host.error]
                 /\ UNCHANGED dialog
            ELSE /\ host' = Opened(host)
                 /\ dialog' = [up |-> TRUE, open |-> TRUE, draft |-> Clean]
                 /\ reopening' = None

UnchangedUnderHost ==
    UNCHANGED <<wireVars, feedVars, ownerVars>>

PressesLane(single, ahead) ==
    /\ HostSettled
    /\ viewers # {}
    /\ opens < MaxOpens
    /\ opens' = opens + 1
    /\ OpenFor([single |-> single], ahead)
    /\ UNCHANGED <<listed, edits, refused, cancelled>>
    /\ UnchangedUnderHost

\* willUpdate: the press that waited, once it can be served.
PendingIsServed(ahead) ==
    /\ NoContinuation
    /\ PendingOpens
    /\ OpenFor(host.pending, ahead)
    /\ UNCHANGED <<listed, edits, opens, refused, cancelled>>
    /\ UnchangedUnderHost

\* _reopenFor once the history entry is released: the dialog is replaced, and
\* takes over the draft, the banner and the error of the one before it.
ReopenFinishes ==
    /\ HostSettled
    /\ reopening # None
    /\ host' = [Opened(host) EXCEPT !.atOpen = reopening.atOpen, !.changed = reopening.changed,
                                    !.error = reopening.error]
    /\ dialog' = [up |-> TRUE, open |-> TRUE, draft |-> reopening.draft]
    /\ attempt' = AnotherOpening
    /\ reopening' = None
    /\ UNCHANGED <<listed, edits, opens, refused, cancelled>>
    /\ UnchangedUnderHost

----------------------------------------------------------------------------
(* The dialog.  Replacing it takes one step Back of the browser's history, a   *)
(* moment in which no press is modelled (environment).                        *)
DialogStands == HostSettled /\ dialog.open /\ reopening = None

UserEdits ==
    /\ DialogStands
    /\ edits < MaxEdits
    /\ edits' = edits + 1
    /\ dialog' = [dialog EXCEPT !.draft = edits + 1]
    /\ UNCHANGED <<host, reopening, attempt, listed, opens, refused, cancelled>>
    /\ UnchangedUnderHost

\* _close: Cancel, Escape, Back and the scrim, refused while a save is out.
Cancels ==
    /\ DialogStands
    /\ ~Busy
    /\ dialog' = [dialog EXCEPT !.open = FALSE]
    /\ cancelled' = cancelled \union ({dialog.draft} \ {Clean})
    /\ UNCHANGED <<host, reopening, attempt, listed, edits, opens, refused>>
    /\ UnchangedUnderHost

\* The closing animation ends: _onClosed, then _handleEditorClosed.
DialogClosed ==
    /\ HostSettled
    /\ dialog.up /\ ~dialog.open
    /\ dialog' = NoDialog
    /\ host' = [host EXCEPT !.open = FALSE, !.changed = FALSE, !.error = None, !.atOpen = FALSE]
    /\ UNCHANGED <<reopening, attempt, listed, edits, opens, refused, cancelled>>
    /\ UnchangedUnderHost

\* Faulty variant: the reason of the last refusal stays up.
SavesUnderItsError ==
    /\ DialogStands
    /\ dialog.draft # Clean /\ ~Busy
    /\ TrackMutation("_writing")
    /\ host' = [host EXCEPT !.saving = TRUE]
    /\ attempt' = [stands |-> TRUE, draft |-> dialog.draft]
    /\ UNCHANGED <<dialog, reopening, listed, edits, opens, refused, cancelled>>

\* _handleSave and _handleEditorSave up to the write.
Saves ==
    /\ DialogStands
    /\ dialog.draft # Clean /\ ~Busy
    /\ TrackMutation("_writing")
    /\ host' = [host EXCEPT !.saving = TRUE, !.error = None]
    /\ attempt' = [stands |-> TRUE, draft |-> dialog.draft]
    /\ UNCHANGED <<dialog, reopening, listed, edits, opens, refused, cancelled>>

----------------------------------------------------------------------------
(* What comes from below *)

\* _applyOwnerSnapshot with a schedule object it has not seen: the open draft
\* gets its banner.
NewSchedule(h) ==
    [h EXCEPT !.known = TRUE,
              !.changed = (@ \/ (h.open /\ h.atOpen))]

HostReadSettles(i) ==
    /\ ReadSettles(i)
    /\ IF owner.read = i /\ Head(toClient).ok
       THEN host' = NewSchedule(host)
       ELSE UNCHANGED host
    /\ UNCHANGED <<dialog, reopening, attempt, listed, edits, opens, refused, cancelled>>

\* _handleEditorSave behind its write: the dialog closes over a success and
\* stays over a refusal, if it is still the opening that asked.
Answered(h, ok) ==
    IF ~attempt.stands THEN [h EXCEPT !.saving = FALSE]
    ELSE IF ok THEN [h EXCEPT !.saving = FALSE, !.open = FALSE]
    ELSE [h EXCEPT !.saving = FALSE, !.error = attempt.draft]

\* Faulty variant: the dialog closes over any answer.
ClosesAnyway(ok) == attempt.stands

Closes(ok) == ok /\ attempt.stands

HostMutationSettles(w) ==
    LET ok == Head(toClient).ok
        h == IF ok THEN NewSchedule(host) ELSE host
        mine == w = "_writing"
    IN /\ MutationSettles(w)
       /\ host' = IF mine THEN Answered(h, ok) ELSE h
       /\ dialog' = IF mine /\ Closes(ok)
                    THEN [dialog EXCEPT !.open = FALSE] ELSE dialog
       /\ refused' = IF ~mine THEN refused
                     ELSE IF ok THEN refused \ {attempt.draft} ELSE refused \union {attempt.draft}
       /\ attempt' = IF mine THEN None ELSE attempt
       /\ UNCHANGED <<reopening, listed, edits, opens, cancelled>>

\* _loadControllables, and the roster's invalidation that asks for it again.
RosterMoves ==
    /\ HostSettled
    /\ viewers # {}
    /\ listed' = ~listed
    /\ UNCHANGED <<host, dialog, reopening, attempt, edits, opens, refused, cancelled>>
    /\ UnchangedUnderHost

\* What the owner and the server do without the host noticing.
Below ==
    /\ \/ \E view \in Viewers : Subscribe(view)
       \/ TrackMutation("_togglingExecution")
       \/ BoundaryPasses \/ FeedTells \/ FeedHears \/ DocumentChanges \/ Serves
       \/ \E w \in Writers : Resumes(w)
    /\ UNCHANGED hostVars

User == \/ \E single, ahead \in BOOLEAN : PressesLane(single, ahead)
        \/ UserEdits \/ Cancels \/ Saves

HostSteps ==
    \/ \E ahead \in BOOLEAN : PendingIsServed(ahead)
    \/ ReopenFinishes \/ DialogClosed
    \/ \E i \in Ids : HostReadSettles(i)
    \/ \E w \in Writers : HostMutationSettles(w)

HostNext == User \/ HostSteps \/ RosterMoves \/ Below

HostSpec == HostInit /\ [][HostNext]_hostState /\ WF_hostState(HostSteps)

----------------------------------------------------------------------------
\* The reason on screen is that of a refusal which still stands: a draft that has
\* been stored since, by a save whose dialog was replaced, is no longer accused.
ErrorIsAboutThisDraft ==
    host.error # None /\ dialog.open => host.error \in refused

\* A dialog goes away by itself only over a success of the opening that is up:
\* neither a refusal nor the answer to an earlier opening closes it.
ClosesOnItsOwnSuccess ==
    [][dialog.open /\ ~dialog'.open /\ dialog.draft \notin cancelled' \union {Clean}
         => attempt # None /\ attempt.stands
            /\ attempt.draft \notin refused']_hostState

\* An edit made while the save is out is not closed over by its success.  Not kept
\* by the code; TLC refutes it.
NeverClosesOverAnUnsavedEdit ==
    [][dialog.open /\ ~dialog'.open /\ dialog.draft \notin cancelled' \union {Clean}
         => attempt # None /\ attempt.draft = dialog.draft]_hostState

\* A refused draft that is still on screen says so.
RefusalIsShown ==
    dialog.open /\ dialog.draft \in refused /\ attempt = None => host.error = dialog.draft

\* The draft lives and dies with the dialog (scheduling-entity-day-editor.ts:2332-2338).
CancelledIsGone == dialog.open => dialog.draft \notin cancelled
=============================================================================
