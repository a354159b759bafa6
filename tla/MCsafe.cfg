CONSTANTS
  n1 = n1
  n2 = n2
  i1 = i1
  i2 = i2
  NoNode = NoNode
  NoRoute = NoRoute
  NoCidr = NoCidr
  BadCidr = BadCidr
  NoInst = NoInst
  Unset = Unset
  Absent = Absent
  FromAnnotation = FALSE
  Bits = 3
  Nodes <- MCNodes
  Instances <- MCInstances
  Cidrs <- MCCidrs
  V4Cidrs <- MCCidrs
  Inside <- MCInside
  SpecChoices <- SafeChanges
  InitNodes <- OneNode
  InitCloud <- Misrouted
  MaxTries = 2
  InitBudgets <- SafeBudgets
SPECIFICATION Safety
INVARIANTS TypeOK LockHeldInside StableUnderLock ActsOnClaims
PROPERTIES TableSpec OtherTrafficStays ForgetsOnlyGone SettledStays
