----------------------------- MODULE MCWebShared -----------------------------
(***************************************************************************)
(* What the views of a tab share: the schedule, with the day editor's host *)
(* over it; the roster and the automation's records; and the reads the     *)
(* energy cards load from.  A behaviour is of one of them.                 *)
(***************************************************************************)
EXTENDS DayEditorHost, SharedStore, EnergyCard

VARIABLE part

sharedVars == <<hostState, storeVars, cardVars, part>>

Init == HostInit /\ StoreInit /\ CardInit /\ part \in {"schedule", "store", "card"}

Next ==
    /\ UNCHANGED part
    /\ \/ part = "schedule" /\ HostNext /\ UNCHANGED <<storeVars, cardVars>>
       \/ part = "store" /\ StoreNext /\ UNCHANGED <<hostState, cardVars>>
       \/ part = "card" /\ CardNext /\ UNCHANGED <<hostState, storeVars>>

Spec == Init /\ [][Next]_sharedVars

\* What the store keeps and hands out is of the last announcement, its readers catch
\* up with it, and so does a card, which is never blank without a reason and runs one
\* engine.  An error in the day editor's dialog is about the draft it shows.
SharedInvariant == StoreInvariant /\ CardInvariant /\ ErrorIsAboutThisDraft
=============================================================================
