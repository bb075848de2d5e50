SPECIFICATION FairSpec
CONSTANTS
  p1 = p1
  p2 = p2
  on = on
  yes = yes
  off = off
  junk = junk
  Cameras = {c1}
  MaxSources = 1
  NoSlot = NoSlot
  NoReply = NoReply
  Props = {p1, p2}
  Allowed = {p1}
  Values = {on, yes, off, junk}
  Readable = {on, yes, off}
  Settings = {on, off}
  Conversion <- MCConversion
  Default = off
  ItemLists <- MCItemLists
  MaxPending = 1
  Unknown = Unknown
INVARIANTS TypeOK BeliefHolds
PROPERTY MessageHandled
CHECK_DEADLOCK FALSE
