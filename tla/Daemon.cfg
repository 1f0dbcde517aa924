CONSTANTS
  Pid = {p1, p2, p3}
  Reaper = Reaper
  MaxFaults = 2
SPECIFICATION FairSpec
INVARIANT TypeOK
INVARIANT DaemonDetached
INVARIANT OneReturns
 
INVARIANT ForgottenPaidFor
INVARIANT StalePaidFor
PROPERTY HelpersReturn
