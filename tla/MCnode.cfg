CONSTANTS
  Values <- MCValues
  Unset = Unset
  Metadata <- MCMetadata
  MaxTries = 2
  MaxLag = 2
  InitBudgets <- MCBudgets
SPECIFICATION Spec
INVARIANTS TypeOK DoneIsAnnotated
PROPERTIES AnnotationsKept ReportsHold ConditionSettles JobEnds
