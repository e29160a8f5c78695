\* Two callers and three calls, so that a disable and a second enable can
\* overtake an enable that is still waiting; one slot write and one hardware
\* call an attempt, either of which may overlap any of them.  Two runs of the
\* automation over two slots, an edit, a change of what entities accept and a
\* restart.  One charger over a first day that is backfilled and the one it is
\* set up in, two crossings, one mishap.  Calls, writes and runs run out, and
\* the executor may be unloaded.
CONSTANTS
  Parts = {"execution", "automation", "ledger"}
  alice = alice
  bob = bob
  Clients <- MCClients
  MaxCalls = 3
  MaxWrites = 1
  HardwareCalls = 1
  Faults = {"failed", "broken"}
  inverter = inverter
  heater = heater
  Inverter = inverter
  Appliances <- MCAppliances
  Fickle <- MCFickle
  Members <- MCMembers
  Systems = 1
  LastSlot = 1
  MaxRuns = 2
  MaxEdits = 1
  MaxFlips = 1
  MaxRestarts = 1
  MaxGap = 1
  SettleTicks = 1
  DayTicks = 3
  Histories <- MCHistories
  LastInstant = 5
  MaxRows = 2
  MaxAsked = 1
  MaxMishaps = 1
SPECIFICATION ScheduleSpec
SYMMETRY Symmetry
INVARIANTS FlagIsNewestDecision PlanIsOfOneRun LedgerInvariant FoldsAsTheWholeHistory
PROPERTIES NoCallAfterDisable UserActionsSurvive
CHECK_DEADLOCK FALSE
