CONSTANTS
  r1 = r1  r2 = r2  r3 = r3
  Run = {r1, r2, r3}
  NoRun = NoRun
  Dev = {d1, d2}
  NoDev = NoDev
  NameOf <- OwnNames
  SizeArg <- OneGB
  IntMod = 16384
  LongMod = 1048576
  MaxFaults = 0
SPECIFICATION Spec
SYMMETRY Symmetry
INVARIANT ReportedFileIsMounted
