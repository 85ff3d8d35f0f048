CONSTANTS
  Writers = {w1, w2}
  Readers = {}
  Ops = {o1}
  Inputs = {i1, i2}
  SaveOps = {o1}
  MaxCalls = 2
  MaxCrashes = 1
  MaxFaults = 2
  None = None
  FaultPoints <- AnyPoint
SPECIFICATION FairSpec
INVARIANT EffectOnce
PROPERTY CallsReturn
CHECK_DEADLOCK FALSE
