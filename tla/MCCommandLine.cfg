CONSTANTS
  Arguments <- MCArguments
  MaxArguments = 3
SPECIFICATION Spec
CHECK_DEADLOCK FALSE
INVARIANTS
  ViewsAreWhatWasAsked
  WritesWhatWasAsked
  ReportsAreWhole
