SPECIFICATION FairSpec
CONSTANTS
  None = None
  r1 = r1
  r2 = r2
  f1 = f1
  ov = ov
  c1 = c1
  c2 = c2
  Requests = {r1}
  Frames = {f1}
  OverviewRef = ov
  CropRefs <- MCCrops
  JobSet <- MCJobs
  Ttl = 1
  MaxRecent = 0
  MaxTime = 0
CHECK_DEADLOCK FALSE
PROPERTIES StopEnds
