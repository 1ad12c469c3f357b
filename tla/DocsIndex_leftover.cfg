\* One kill is enough.
SPECIFICATION Spec
CONSTANTS
  r1 = r1
  r2 = r2
  Readers = {r1}
  CloneAttempts = 3
  MaxVersion = 1
  MaxFaults = 1
INVARIANT FailsOnlyForItself
