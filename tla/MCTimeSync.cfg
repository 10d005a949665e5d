SPECIFICATION Spec
CONSTANTS
  HistSize = 2
  SeqMod = 4
  Period = 1
  MaxRtt = 0
  Start = 20
  Skews <- MCSkews
  MaxTime = 24
  MaxReboots = 1
INVARIANTS RightRequest SampleBound StaysClose
CHECK_DEADLOCK FALSE
