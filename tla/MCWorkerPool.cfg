SPECIFICATION Spec
CONSTANTS
  Workers = {w1, w2}
  Callers = {a, b}
  Tasks = {t1, t2, t3}
  NoTask = NoTask
INVARIANTS
  TypeOK
  WorkConserving
  HangOnlyInWindow
PROPERTIES
  DestructorReturns
  ImplementsTaskPool
  ServesTasks
CHECK_DEADLOCK FALSE
