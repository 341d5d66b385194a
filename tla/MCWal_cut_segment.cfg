\* One write the disk refuses in the middle, one crash: the frames before it are lost.
SPECIFICATION Spec
CONSTANTS
  f1 = f1
  f2 = f2
  f3 = f3
  big = big
  None = None
  Frames = {f1, f2}
  Size <- MCSize
  Capacity = 10
  MaxCrashes = 1
  MaxPowerCuts = 0
  MaxDiskFull = 1
INVARIANT LogServed
CHECK_DEADLOCK FALSE
