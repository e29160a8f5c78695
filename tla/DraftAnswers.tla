---------------------------- MODULE DraftAnswers ----------------------------
(***************************************************************************)
(* What an editor asks the server about the draft it holds: the readings   *)
(* of the entities it names (config/entity-inspection-controller.ts),      *)
(* polled and asked for at once after an edit, and what the hardware       *)
(* profiles own in it (devices/hardware-profile.ts, VendorsController).    *)
(* Answers come back in any order, or not at all.  A draft is its number.  *)
(***************************************************************************)
EXTENDS Naturals, FiniteSets

CONSTANTS MaxDrafts,    \* bound on the edits
          MaxPolls,     \* bound on the requests
          Unset,        \* the drafts that name no entity
          ProfileOf     \* [draft -> the profiles of its devices]

ASSUME DraftsAssumption ==
    /\ MaxDrafts \in Nat /\ MaxPolls \in Nat
    /\ Unset \subseteq 0..MaxDrafts
    /\ DOMAIN ProfileOf = 0..MaxDrafts

VARIABLES draft,        \* the document in the editor
          inspection,   \* EntityInspectionController
          vendors       \* VendorsController

draftVars == <<draft, inspection, vendors>>

\* "nothing" is owned until the first answer and after a failed one; with the
\* profiles known, "unknown" is owned until the answer about them is here.
Nothing == [owned |-> {}]
OwnedBy(key) == [owned |-> {key}]

DraftTypeOK ==
    /\ draft \in 0..MaxDrafts
    /\ inspection.shown \subseteq 0..MaxDrafts /\ Cardinality(inspection.shown) <= 1
    /\ inspection.applied <= inspection.sequence
    /\ {inspection.debounce, inspection.trailing, inspection.lost} \subseteq BOOLEAN
    /\ \A request \in inspection.out : request.sequence <= inspection.sequence
    /\ vendors.sequence \in 0..MaxDrafts + 1

DraftInit ==
    /\ draft = 0
    /\ inspection = [shown |-> {}, sequence |-> 0, applied |-> 0, out |-> {},
                     debounce |-> FALSE, trailing |-> FALSE, lost |-> FALSE]
    /\ vendors = [key |-> {}, sequence |-> 0, out |-> {}, answer |-> Nothing]

\* shown is the draft whose readings are on screen, none at all for an unset one.
\* _poll: nothing named clears the readings at once, under a number of its own.
Polled(i, doc) ==
    IF doc \in Unset
    THEN [i EXCEPT !.sequence = @ + 1, !.applied = i.sequence + 1, !.shown = {doc},
                         !.lost = FALSE]
    ELSE [i EXCEPT !.sequence = @ + 1,
                   !.out = @ \union {[sequence |-> i.sequence + 1, draft |-> doc]}]

\* request: at once, and once more when the window closes if there was another.
Requested(i, doc) ==
    IF i.debounce THEN [i EXCEPT !.trailing = TRUE]
    ELSE Polled([i EXCEPT !.debounce = TRUE], doc)

\* load, on the host's update after an edit that changed a profile.
Asked(v, doc) ==
    IF v.key = {ProfileOf[doc]} THEN v
    ELSE [v EXCEPT !.key = {ProfileOf[doc]}, !.sequence = @ + 1, !.answer = Nothing,
                   !.out = @ \union {[sequence |-> v.sequence + 1, key |-> ProfileOf[doc]]}]

MayPoll == inspection.sequence < MaxPolls

Mounts ==
    /\ inspection.sequence = 0
    /\ inspection' = Requested(inspection, draft)
    /\ vendors' = Asked(vendors, draft)
    /\ UNCHANGED draft

EditsDraft ==
    /\ draft < MaxDrafts /\ inspection.sequence > 0 /\ MayPoll
    /\ draft' = draft + 1
    /\ inspection' = Requested(inspection, draft')
    /\ vendors' = Asked(vendors, draft')

WindowCloses ==
    /\ inspection.debounce /\ MayPoll
    /\ LET closed == [inspection EXCEPT !.debounce = FALSE, !.trailing = FALSE]
       IN  inspection' = IF inspection.trailing THEN Requested(closed, draft) ELSE closed
    /\ UNCHANGED <<draft, vendors>>

\* The idle tick yields to a request that is out.
Ticks ==
    /\ inspection.out = {} /\ inspection.sequence > 0 /\ MayPoll
    /\ inspection' = Polled(inspection, draft)
    /\ UNCHANGED <<draft, vendors>>

\* An answer older than the one shown is dropped.
Answers(request) ==
    /\ request \in inspection.out
    /\ LET rest == [inspection EXCEPT !.out = @ \ {request}]
       IN  inspection' = IF request.sequence < inspection.applied THEN rest
                         ELSE [rest EXCEPT !.applied = request.sequence,
                                           !.lost = @ /\ request.sequence # inspection.sequence,
                                           !.shown = {request.draft}]
    /\ UNCHANGED <<draft, vendors>>

\* A failed request leaves what is shown.
GetsLost(request) ==
    /\ request \in inspection.out
    /\ inspection' = [inspection EXCEPT !.out = @ \ {request}, !.lost = TRUE]
    /\ UNCHANGED <<draft, vendors>>

VendorsAnswer(request) ==
    /\ request \in vendors.out
    /\ \E answer \in {Nothing, OwnedBy(request.key)} :
          vendors' = [vendors EXCEPT !.out = @ \ {request},
                          !.answer = IF request.sequence = vendors.sequence THEN answer ELSE @]
    /\ UNCHANGED <<draft, inspection>>

DraftNext ==
    \/ Mounts \/ EditsDraft \/ WindowCloses \/ Ticks
    \/ \E request \in inspection.out : Answers(request) \/ GetsLost(request)
    \/ \E request \in vendors.out : VendorsAnswer(request)

DraftSpec == DraftInit /\ [][DraftNext]_draftVars

-----------------------------------------------------------------------------
\* A reading is never painted over by an older one, and a reading that was
\* cleared does not come back (entity-inspection-controller.ts 128-140, 305-311).
ReadingsNeverGoBack ==
    [][\A old \in inspection.shown, new \in inspection'.shown : new >= old]_inspection

\* Once nothing is out and no window is open, the readings are the draft's.
ReadingsCatchUp ==
    /\ inspection.out = {} /\ ~inspection.debounce /\ ~inspection.lost /\ inspection.sequence > 0
    => inspection.shown = {draft}

\* What is owned is owned by the draft's profiles as they are now, never by
\* those of a draft before (hardware-profile.ts 103-112).
OwnedIsOfThisDraft == vendors.answer.owned \subseteq {ProfileOf[draft]}

\* Both, and the type of what they rest on.
AnswersAreOfTheDraft == DraftTypeOK /\ ReadingsCatchUp /\ OwnedIsOfThisDraft
=============================================================================
