SPECIFICATION Spec
CONSTANTS
  MaxPid = 3
  Sigs = {9, 17}
  Handled = {9, 17}
  ExitCodes = {0}
  MaxFrames = 2
  KbdCap = 1
INVARIANT FramesNeverFail
