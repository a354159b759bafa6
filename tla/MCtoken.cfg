CONSTANTS
  worker = worker
  sync = sync
  A = A
  Default = Default
  i1 = i1
  r1 = r1
  r2 = r2
  r3 = r3
  r4 = r4
  r5 = r5
  NoInst = NoInst
  NoRoute = NoRoute
  NoId = NoId
  Callers <- MCCallers
  Cidrs <- MCCidrs
  DefaultCidr = Default
  Instances <- MCInstances
  Ids <- MCIds
  InitCloud <- MCInitCloud
  Asks <- MCAsks
  Attempts = 2
  Timeout = 2
  Interval = 1
  MaxToken = 1
  MaxForeign = 1
SYMMETRY Interchangeable
SPECIFICATION Safety
INVARIANT ReloadedTokenIsSent
