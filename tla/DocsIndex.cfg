\* Two searches, three versions of the docs, three faults of any kind.
SPECIFICATION Spec
CONSTANTS
  r1 = r1
  r2 = r2
  Readers = {r1, r2}
  CloneAttempts = 3
  MaxVersion = 3
  MaxFaults = 3
INVARIANTS NeverHalfBuilt CheckoutsRemoved LeftoverTripsOnce
PROPERTIES PublishedStays NeverEmpty CatchesUp
