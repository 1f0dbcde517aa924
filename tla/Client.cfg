CONSTANTS
  Caller = {c1}
  Handler <- AllHandlers
  QuotaSize <- NoSize
  ChunkLen = {1, 3}
  BufSize = 2
  IntMod = 64
  Limit = 3
  MaxCalls = 2
  MaxFaults = 2
SPECIFICATION FairSpec
INVARIANT TypeOK
PROPERTY ImplementsRemoteCall
PROPERTY AnsweredCallsReturn
