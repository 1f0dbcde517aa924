CONSTANTS
  Caller = {c1, c2}
  Handler <- QuotaHandlers
  QuotaSize <- Sizes
  ChunkLen = {1}
  BufSize = 2
  IntMod = 64
  Limit = 3
  MaxCalls = 3
  MaxFaults = 1
SPECIFICATION InTurnSpec
SYMMETRY CallerSymmetry
INVARIANT QuotaKept
INVARIANT HandlesPaidFor
