CONSTANTS
  Msgs = {m1, m2, m3}
  Senders = {s1, s2}
  Workers = {w1, w2}
  Destroyers = {d1}
  MaxPerActivation = 2
  DestroyWhen = "quiet"
  OwnerFrees = TRUE
  None = None
SPECIFICATION FairSpec
CHECK_DEADLOCK FALSE
INVARIANTS DestroyedOnReturn LifetimeCovered
PROPERTIES AsyncDestroyReturns EveryMessageExecuted
