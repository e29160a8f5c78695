\* One or two overrides over two slots, one pick of the user's or one restart,
\* drift, lost link or switch of execution, and one failed write, anywhere.
CONSTANTS
  Kinds = {"charge_to_target_soc", "stop_charging"}
  Start = "normal"
  LastSlot = 1
  Hands <- AllHands
  Faults <- AllFaults
  MaxEdits = 2
  MaxHands = 1
  MaxFaults = 1
SPECIFICATION FairSpec
INVARIANT InverterInvariant
PROPERTIES OnlyOwnOverridesStopped Converges
