CONSTANTS
  Proc = {p1, p2}
  Version = {"v1", "v2"}
  NumRoots = 2
  Requests <- MCRequests
  Installed <- MCInstalled
SPECIFICATION FairSpec
CHECK_DEADLOCK FALSE
INVARIANTS
  TypeOK
  TempFileLife
  RightTool
  SuccessMeansUnpacked
  TornToolHasACulprit
PROPERTIES
  TornToolIsKept
  EveryRunEnds
