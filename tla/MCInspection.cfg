CONSTANTS
  Worlds <- AllWorlds
  SystemDirectories <- MCSystemDirectories
  Situations <- MCSituations
  AddressSpace = 16
  SkipZeroes = 3
  MaxDecoded = 3
SPECIFICATION Spec
CHECK_DEADLOCK FALSE
INVARIANTS
  TypeOK
  OnlyFitLibrariesAreUsed
  ListingIsTheSection
PROPERTIES
  EveryInspectionEnds
