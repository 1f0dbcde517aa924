CONSTANTS
  IntMod = 16384
  LongMod = 1048576
  ArgSample <- MCArgSample
SPECIFICATION Spec
INVARIANT TypeOK
INVARIANT RequestHonoured
