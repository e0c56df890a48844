CONSTANTS
  n1 = n1
  n2 = n2
  t1 = t1
  t2 = t2
  None = None
  Nodes = {n1, n2}
  Ids = {i1, i2}
  Names = {x1}
  Objects = {o1, o2}
  Tasks = {t1, t2}
  Home <- HomeTwo
  UniqueIds = TRUE
SPECIFICATION FairSpec
CHECK_DEADLOCK FALSE
INVARIANTS TypeOK NamesConsistent  NoRequestAfterStop AllDestroyedAtShutdown
PROPERTIES RequestAnswered
