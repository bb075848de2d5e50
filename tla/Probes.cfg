SPECIFICATION ProbesSpec
CONSTANTS
  Sources = {0, 1}
  PreEvent = 1
  PostEvent = 1
  MinInterval = 2
  MaxConcurrent = 1
  Grace = 1
  Finish = 2
  MaxLag = 1
  MaxGeneration = 2
  o1 = o1
  o2 = o2
  un = un
  person = person
  dog = dog
  nameless = nameless
  Nameless = nameless
  red = red
  blue = blue
  none = none
  Slots = {s1}
  Cameras = {c1, c2}
  Ids = {o1, o2, un}
  Untracked = un
  NoParent = NoParent
  Kinds = {person, dog, nameless}
  Labels = {red, blue, none}
  NoLabel = none
  NoMessage = NoMessage
  Scenes <- MCScenes
  LastTime = 4
  LabelFilter = {person}
  EmitOn = {"first_frame", "object_set_change", "label_change", "parent_change", "motion_change"}
  MinGap = 2
  Heartbeat = 3
  Window = 3
  Shift = 2
  CropScenes <- MCCropScenes
  CaptureInterval = 3
  BurstMax = 1
  TokenRefill = 2
  BypassMinGap = 1
  KOn = 2
  KOff = 1
  KLabel = 1
  StaleTimeout = 1
  CheckInterval = 2
  MaxTracked = 1
  SaveFullFrame = TRUE
  LostPts <- MCLostPts
  NoSignature = NoSignature
  LastFrameNum = 5
  Detectors = {1, 2, 3}
  ClassIds = {0, 1}
  BaseNoOffset = 1
  OffsetStep = 2
  ExplicitOffsets <- MCExplicitOffsets
  RuleKinds = {person}
  ApiInterval = 2
  ApiTimeout = 2
  Retention = 1
  MaxCalls = 3
  LastCallTime = 5
  NoCall = NoCall
  CallIds = {o1, un}
  CallScenes <- MCCallScenes
  Handlers = {h1, h2}
  Ttl = 1
  MaxFrames = 2
  MaxGap = 1
  LastFrame = 1
  NoEntry = NoEntry
  LastCacheTime = 4
INVARIANTS
  ProbesTypeOK NothingLeaks ResolveIsNearest ResolveIsFresh ClipHasItsSession ClipsWithinCap
  ViewIsPublished BooksAgree Cadence CallsBounded TextOfThisLife ClassIdsRestored
PROPERTIES SessionsEnd EmitGap
CHECK_DEADLOCK FALSE
