CONSTANTS
  Byte <- MCByte
  Inputs <- MCInputs
  Requests <- MCRequests
  SizeMax = 7
  MaxPatches = 3
SPECIFICATION Spec
INVARIANTS
  TypeOK
  EveryPatchFits
  RefusesExactlyConflicts
  EveryPatchLands
