\* Two condition groups, a restart, and an optimizer that may come to raise on
\* every run; one reload, a failure and a click, with the nightly timer; one
\* meter, two readers whose reads overlap.
CONSTANTS
  Parts = {"reality", "training", "energy"}
  LastGroup = 2
  MaxFlips = 3
  MaxFails = 1
  MaxRestarts = 1
  MayBreak = "yes"
  LastGeneration = 2
  MaxFailures = 1
  MaxClicks = 1
  Timer = "on"
  Readers = {r1, r2}
  Values = {1, 10}
  SlotTicks = 2
  Rebound = 4
  LastTick = 10
  MaxReadings = 4
  MaxQuiet = 4
SPECIFICATION Spec
INVARIANT BackgroundInvariant
PROPERTIES UnmetNotApplied DeferringEnds ClickGetsItsOwnOutcome FittedIsKept MissedIsRepaired
CHECK_DEADLOCK FALSE \* the model's day ends
