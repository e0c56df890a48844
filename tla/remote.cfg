CONSTANTS
  m1 = m1
  m2 = m2
  m3 = m3
  c1 = c1
  c2 = c2
  Creators = {c1, c2}
  Nodes <- MCNodes
  Ids = {1}
  Methods <- MCMethods
  Signature <- MCSignature
  Programs <- MCPrograms
  Slots = {s1}
  MaxCalls = 4
  KeyLen = 9
  ArgLen = 16
SPECIFICATION Spec
CHECK_DEADLOCK FALSE
INVARIANTS RunsTheNamedMethod ArgumentUsable
