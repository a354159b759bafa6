CONSTANTS
  worker = worker
  sync = sync
  A = A
  Default = Default
  i1 = i1
  r1 = r1
  r2 = r2
  r3 = r3
  r4 = r4
  r5 = r5
  NoInst = NoInst
  NoRoute = NoRoute
  NoId = NoId
  Callers <- MCAlone
  Cidrs <- MCCidrs
  DefaultCidr = Default
  Instances <- MCInstances
  Ids <- MCFewIds
  InitCloud <- MCInitCloud
  Asks <- MCAsks
  Attempts = 3
  Timeout = 5
  Interval = 2
  MaxToken = 2
  MaxForeign = 1
SPECIFICATION Spec
PROPERTIES EveryCallReturns TokenIsRenewed
