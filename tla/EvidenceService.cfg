SPECIFICATION FairSpec
CONSTANTS
  None = None
  r1 = r1
  r2 = r2
  f1 = f1
  ov = ov
  c1 = c1
  c2 = c2
  Requests = {r1, r2}
  Frames = {f1}
  OverviewRef = ov
  CropRefs <- MCCrops
  JobSet <- MCJobs
  Ttl = 1
  MaxRecent = 2
  MaxTime = 2
INVARIANTS TypeOK LedgerInOrder DrainsBeforeExit
PROPERTIES OkMeansWritten NoReencode AcceptedIsServed
CHECK_DEADLOCK FALSE
