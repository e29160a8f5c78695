\* The slots and windows as they are, 15 and 30 minutes; a meter that shows one
\* value, and goes without a reading for longer than the staleness limit.
CONSTANTS
  Readers = {r1}
  Values = {10}
  SlotTicks = 1
  Rebound = 2
  LastTick = 9
  MaxReadings = 2
  MaxQuiet = 9
SPECIFICATION EnergySpec
INVARIANT ReadsAsTheWholeDay
CHECK_DEADLOCK FALSE \* the model's day ends
