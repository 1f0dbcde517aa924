CONSTANTS
  r1 = r1  r2 = r2  r3 = r3
  Run = {r1, r2, r3}
  NoRun = NoRun
  Dev = {d1, d2}
  NoDev = NoDev
  NameOf <- SameName
  SizeArg <- OneGB
  IntMod = 16384
  LongMod = 1048576
  MaxFaults = 2
SPECIFICATION Spec
SYMMETRY Symmetry
INVARIANT OkRunIsMounted
INVARIANT LeakAccounted
PROPERTY MountSurvives
PROPERTY ImplementsPublication
