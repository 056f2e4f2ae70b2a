CONSTANTS
  Byte <- MCByte
  Zero = "0"
  Files <- MCFiles
  Texts <- MCTexts
  HexRequests <- MCHexRequests
  Limits = {1, 3}
  MaxQueries = 2
SPECIFICATION Spec
CHECK_DEADLOCK FALSE
INVARIANTS
  NoCharacterTwice
