\* A charger whose start is interrupted half-way; the plan may change behind it.
CONSTANTS
  Drivers = {"ev"}
  Modes = {"eco", "fast"}
  LastSlot = 1
  MaxEdits = 3
  MaxHands = 0
  MaxFaults = 1
  Faults = {"refused"}
SPECIFICATION ApplianceSpec
INVARIANT AlwaysMatchesPlan
