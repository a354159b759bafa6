CONSTANTS
  w1 = w1
  w2 = w2
  t1 = t1
  t2 = t2
  NoTask = NoTask
  Workers <- MCWorkers
  Tasks <- MCTasks
  MaxBudget <- MCBudget
SPECIFICATION Spec
CHECK_DEADLOCK FALSE
INVARIANTS TypeOK OneWorkerPerTask NoTaskLost ShutdownDrains OneWorkerNeverPanics
PROPERTIES TasksAreSynced ShutdownIsAcknowledged
