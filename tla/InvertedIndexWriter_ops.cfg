CONSTANTS
  Dirs = {A, B}
  Pages = {p1, p2}
  MaxSegments = 4
  MaxNumSegments = 1
  MaxCrashes = 1
  CrashInOps = FALSE
  ExclusiveMergeInputs = TRUE
  DeleteWithoutWriter = TRUE
INIT Init
NEXT Next
INVARIANT AcknowledgedDocsReadable
