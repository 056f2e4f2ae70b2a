CONSTANTS
  Cases <- MCCases
  MinLength = 2
  Meaningless <- MCMeaningless
  Rules <- MCRules
  Wrap = 4096
  Wrap64 = 65536
  MaxResources = 3
  FirstCapacity = 2
  MaxHits = 3
  FirstHits = 2
SPECIFICATION Spec
CHECK_DEADLOCK FALSE
INVARIANTS
  TypeOK
  ResourcesAreTheTree
  DependenciesAreWhole
  OverlayIsTheRest
  StringsAreTheText
PROPERTIES
  EveryReportIsMade
