SPECIFICATION Spec
CONSTANTS
  p1 = p1  p2 = p2
  Patches <- MCPatches
  MaxInFlight = 2
INVARIANTS ActiveAreApplied
