\* Two lanes of three slots, two fingers and a mouse, three acts, one write of
\* another client's.  Acts run out.
CONSTANTS
  onGrid = onGrid
  offGrid = offGrid
  top = top
  side = side
  Lanes <- MCLanes
  Actions = {onGrid, offGrid}
  NoAct = NoAct
  Freed = Freed
  Plans <- MCPlans
  NSlots = 3
  HourSlots = 2
  MaxActs = 3
  MaxForeign = 1
  Foreign <- MCForeign
  Touches = {f1, f2}
  Mouse = mouse
  Width = 2
SYMMETRY Fingers
SPECIFICATION BandSpec
INVARIANTS BandInvariant PanLeavesTheDraftAlone
PROPERTIES SavesWhatIsShown DragsItsOwnBlock
CHECK_DEADLOCK FALSE
