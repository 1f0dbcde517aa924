CONSTANTS
  r1 = r1  r2 = r2  r3 = r3
  Run = {r1, r2, r3, r4}
  NoRun = NoRun
  Dev = {d1, d2, d3, d4}
  NoDev = NoDev
  NameOf <- TwoNames
  SizeArg <- SizePerName
  IntMod = 16384
  LongMod = 1048576
  MaxFaults = 2
SPECIFICATION SerialSpec
SYMMETRY SerialSymmetry
INVARIANT ReportTrue
INVARIANT FaultSpoilsTwoRuns
INVARIANT MountedIsFormatted
