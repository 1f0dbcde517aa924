CONSTANTS
  r1 = r1  r2 = r2  r3 = r3
  Run = {r1, r2, r3, r4}
  NoRun = NoRun
  Dev = {d1, d2}
  NoDev = NoDev
  NameOf <- OwnNames
  SizeArg <- MixedSizes
  IntMod = 16384
  LongMod = 1048576
  MaxFaults = 2
SPECIFICATION FairSpec
INVARIANT TypeOK
INVARIANT PublishedBlockKept
INVARIANT MountedIsFormatted
INVARIANT BlockBoundOnce
PROPERTY Termination
