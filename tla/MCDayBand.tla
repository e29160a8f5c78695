------------------------------ MODULE MCDayBand ------------------------------
(* The day editor over two lanes of three slots. *)
EXTENDS DayBand, TLC

CONSTANTS onGrid, offGrid, top, side

MCLanes == {top, side}

Row(x) == [s \in Slots |-> x[s + 1]]

\* A run of the user's beside one of automation's on one lane, one of each and
\* a free slot on the other.
MCPlans == {[l \in MCLanes |-> IF l = top THEN Row(<<User(onGrid), User(onGrid), Automation(offGrid)>>)
                               ELSE Row(<<Automation(onGrid), User(offGrid), NoAct>>)]}

MCForeign == {[lane |-> top, slot |-> 1, as |-> User(offGrid)]}

Fingers == Permutations(Touches)
=============================================================================
