SPECIFICATION Spec
CHECK_DEADLOCK FALSE
CONSTANTS
  HourLen = 12
  DayLen = 24
  Gap = 4
  After = 2
  MinIFrames = 3
  Slack = 4
  JumpLen = 4
  Slight = 3
  Kinds = {timer, md}
  Hours <- MCHours
  Steps <- MCSteps
  Clocks <- MCClocks
  Bounds <- MCBounds
INVARIANTS
  TypeOK
  Listed
  OnePerStart
  SeekFinds
  SizesPossibleUnlessJumped
  NothingAfterNow
SYMMETRY Symmetry
