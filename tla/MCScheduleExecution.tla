------------------------ MODULE MCScheduleExecution ------------------------
(* Small instances of ScheduleExecution. *)
EXTENDS ScheduleExecution, TLC

CONSTANTS alice, bob

MCClients  == {alice, bob}
Symmetry   == Permutations(MCClients)
=============================================================================
