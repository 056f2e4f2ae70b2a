CONSTANTS
  Proc = {p1}
  Version = {"v1", "v2"}
  NumRoots = 2
  Requests <- MCRequests
  Installed <- MCInstalled
SPECIFICATION Spec
CHECK_DEADLOCK FALSE
INVARIANT AutoFetchReadsRelease
