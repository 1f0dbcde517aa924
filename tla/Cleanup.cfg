CONSTANTS
  r1 = r1  r2 = r2  r3 = r3
  Run = {r1}
  NoRun = NoRun
  Dev = {d1}
  NoDev = NoDev
  NameOf <- OwnNames
  SizeArg <- OneGB
  IntMod = 16384
  LongMod = 1048576
  MaxFaults = 1
SPECIFICATION Spec
INVARIANT CleanupUnmounts
