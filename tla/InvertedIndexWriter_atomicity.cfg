CONSTANTS
  Dirs = {A, B}
  Pages = {p1, p2}
  MaxSegments = 4
  MaxNumSegments = 1
  MaxCrashes = 1
  CrashInOps = TRUE
  ExclusiveMergeInputs = FALSE
  DeleteWithoutWriter = FALSE
INIT Init
NEXT Next
INVARIANT AcknowledgedDocsReadable
