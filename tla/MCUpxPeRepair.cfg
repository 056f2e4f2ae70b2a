CONSTANTS
  Names <- MCNames
  Magics <- MCMagics
  Tails <- MCTails
  Packed <- MCPacked
  Others <- MCOthers
  MaxTampers = 3
SPECIFICATION Spec
CHECK_DEADLOCK FALSE
INVARIANTS
  TypeOK
  PeRestoresGenuine
  PeRepairSettles
  PeFileinfoAgrees
PROPERTY ImplementsPromise
