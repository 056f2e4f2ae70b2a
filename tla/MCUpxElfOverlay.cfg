CONSTANTS
  OtherMagics <- MCOtherMagics
  Packed <- MCPacked
  Junk <- MCJunk
  MaxTampers = 3
  MaxRuns = 2
SPECIFICATION Spec
CHECK_DEADLOCK FALSE
INVARIANT OverlayTrimmed
