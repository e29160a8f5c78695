\* A reader beside the refresh; nothing raises.
CONSTANTS
  Readers = {r1}
  MaxChanges = 1
  MaxSaves = 0
  MaxRaises = 0
SPECIFICATION PipelineSpec
INVARIANT NothingSupersededIsKept
CHECK_DEADLOCK FALSE
