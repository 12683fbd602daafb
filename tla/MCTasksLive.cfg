SPECIFICATION LiveSpec
CONSTANTS
  MaxPid = 3
  Sigs = {9, 17}
  Handled = {}
  ExitCodes = {0}
  MaxFrames = 1
  KbdCap = 1
PROPERTIES
  EveryRunnableRuns
  KillTakesEffect
