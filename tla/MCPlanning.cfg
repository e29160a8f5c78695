\* Five requests: enough for a debounced one to be replaced, overtaken by an
\* immediate one, and for two follow-ups to queue behind one run.  One reader
\* beside the refresh, one change of the profile and of the bias, one save, one
\* step that raises.  Two optimizers' bands of two days, ratios on either side of
\* every displaced threshold, one reload.  A single-call appliance, or a charger,
\* over two slots: edits, changes by hand or a restart, one failing call anywhere.
CONSTANTS
  Parts = {"triggers", "forecast", "bands", "appliance"}
  MaxRequests = 5
  Readers = {r1}
  MaxChanges = 1
  MaxSaves = 1
  MaxRaises = 1
  Planners = {o1, o2}
  LastDay = 1
  TopRatio = 4
  DeficitBelow = 1
  SurplusAbove = 3
  Deadband = 1
  MaxReloads = 1
  Drivers = {"single", "ev"}
  Modes = {"eco", "fast"}
  LastSlot = 1
  MaxEdits = 3
  MaxHands = 1
  MaxFaults = 1
  Faults = {"refused", "unanswered"}
SPECIFICATION PlanningSpec
INVARIANTS PlanningInvariant ReadsAreCurrent
PROPERTIES
  ForecastIsServed
  ImplementsLatestRequest
  OnlyOwnRunsStopped
  RefusedNotRetried
  ApplianceConverges
\* Requests run out and the coordinator may shut down, and so may the service.
CHECK_DEADLOCK FALSE
