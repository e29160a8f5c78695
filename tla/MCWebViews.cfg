\* Two saves of other clients, two edits, four requests; three drafts and six
\* polls.  Requests run out.  The inspector: two months of two days behind a year
\* of four, two days of forecast after today, three presses and one announcement.
\* The dialogs: two nodes and eight touches.  The detail: a change of mode and one of
\* the data, five reads, two ticks: midnight at the first, the end of a slot at the second.
CONSTANTS
  None = None
  MaxOthers = 2
  MaxEdits = 2
  MaxAsked = 4
  MaxDrafts = 3
  MaxPolls = 6
  Unset = {0, 2}
  ProfileOf <- Profiles
  Nil = Nil
  Today = 5
  Horizon = 6
  HistoryFloor = 2
  MonthLen = 2
  YearLen = 4
  Hourly = {3}
  Units = 4
  MaxActs = 3
  MaxChanges = 1
  Nodes = {n1, n2}
  NoNode = NoNode
  MaxTouches = 8
  RefreshAfter = 1
  RetryAfter = 0
  SlotTicks = 2
  Midnight = 1
  MaxNow = 2
  MaxModes = 1
  MaxData = 1
  MaxReads = 5
SPECIFICATION Spec
INVARIANTS ConfigInvariant InspectorInvariant HistoryInvariant DetailInvariant
PROPERTIES OthersWorkIsKept ClosesOnWhatIsSaved ShownNeverGoesBack BackTakesOne
CHECK_DEADLOCK FALSE
