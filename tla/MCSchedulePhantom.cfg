\* The ledger alone, with no read failing and nothing restarted.
CONSTANTS
  Parts = {"ledger"}
  alice = alice
  bob = bob
  Clients <- MCClients
  MaxCalls = 3
  MaxWrites = 1
  HardwareCalls = 1
  Faults = {"failed", "broken"}
  inverter = inverter
  heater = heater
  Inverter = inverter
  Appliances <- MCAppliances
  Fickle <- MCFickle
  Members <- MCMembers
  Systems = 1
  LastSlot = 1
  MaxRuns = 2
  MaxEdits = 1
  MaxFlips = 1
  MaxRestarts = 1
  MaxGap = 1
  SettleTicks = 1
  DayTicks = 3
  Histories <- MCHistories
  LastInstant = 5
  MaxRows = 2
  MaxAsked = 1
  MaxMishaps = 0
SPECIFICATION ScheduleSpec
INVARIANT SegmentsAreStretches
CHECK_DEADLOCK FALSE
