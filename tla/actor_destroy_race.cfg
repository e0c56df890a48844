CONSTANTS
  Msgs = {m1, m2, m3}
  Senders = {s1, s2}
  Workers = {w1, w2}
  Destroyers = {d1, d2}
  MaxPerActivation = 2
  DestroyWhen = "any"
  OwnerFrees = FALSE
  None = None
SPECIFICATION Spec
CHECK_DEADLOCK FALSE
INVARIANTS IInv TypeOK SingleConsumer NoLostMessage NoLostDestroy
PROPERTIES RefinesSerialActor NothingExecutesAfterDestroy
