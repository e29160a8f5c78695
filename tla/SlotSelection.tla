---------------------------- MODULE SlotSelection ----------------------------
(***************************************************************************)
(* What is picked out of a row of slots or columns, and what a press makes *)
(* of it (helman-solar-inspector/slot-selection.ts).  Slots are numbers in *)
(* the order they are drawn.                                               *)
(***************************************************************************)
EXTENDS Integers, FiniteSetsExt

CONSTANT Nil                    \* nothing picked, nothing shown, nothing asked

Nowhere == [slots |-> {}, focus |-> Nil, anchor |-> Nil]
Only(slot) == [slots |-> {slot}, focus |-> slot, anchor |-> slot]
LastOf(slots) == IF slots = {} THEN Nil ELSE Max(slots)

\* shift: from the anchor to the pressed slot, on top of what is picked.
Extended(row, picked, slot) ==
    [picked EXCEPT !.slots = @ \union {s \in row : \/ picked.anchor <= s /\ s <= slot
                                                   \/ slot <= s /\ s <= picked.anchor},
                   !.focus = slot]

\* (The faulty variant for the mutant: the panel stays with the slot put out.)
ToggledKeepingFocus(picked, slot) ==
    [picked EXCEPT !.slots = IF slot \in @ THEN @ \ {slot} ELSE @ \union {slot},
                   !.focus = slot, !.anchor = slot]

\* ctrl, or a long press.
Toggled(picked, slot) ==
    LET rest  == picked.slots \ {slot}
        focus == IF picked.focus = slot THEN LastOf(rest) ELSE picked.focus
    IN  IF slot \in picked.slots
        THEN [slots |-> rest, focus |-> focus, anchor |-> IF rest = {} THEN Nil ELSE focus]
        ELSE [slots |-> picked.slots \union {slot}, focus |-> slot, anchor |-> slot]

\* applySlotSelection: a press on a slot the row does not have is no press.
Picked(row, picked, slot, how) ==
    IF slot \notin row THEN picked
    ELSE IF how = "extend" /\ picked.anchor \in row THEN Extended(row, picked, slot)
    ELSE IF how = "toggle" THEN Toggled(picked, slot)
    ELSE Only(slot)

\* reconcileSlotSelection: each slot on to the new row, to the slot of the width it
\* lies in; what the row lacks is dropped.
Regridded(row, picked, width) ==
    LET moved(s) == s - (s % width)
        slots == {moved(s) : s \in picked.slots} \intersect row
        Kept(s) == s # Nil /\ moved(s) \in slots
        focus == IF Kept(picked.focus) THEN moved(picked.focus) ELSE LastOf(slots)
    IN  [slots |-> slots, focus |-> focus,
         anchor |-> IF Kept(picked.anchor) THEN moved(picked.anchor) ELSE focus]

Reconciled(row, picked) == Regridded(row, picked, 1)

\* The detail panel is about a slot that is lit, and a range is measured from one.
SelectionHolds(picked) ==
    /\ picked.focus = Nil <=> picked.slots = {}
    /\ picked.anchor = Nil <=> picked.slots = {}
    /\ {picked.focus, picked.anchor} \subseteq picked.slots \union {Nil}
=============================================================================
