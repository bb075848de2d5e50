SPECIFICATION FairSpec
CONSTANTS
  c1 = c1
  c2 = c2
  c3 = c3
  n1 = n1
  n2 = n2
  Cameras <- MCCameras
  BinNames <- MCBinNames
  BinName <- MCBinName
  MaxSources = 2
  NoCamera = NoCamera
  NoStream = NoStream
  NoIndex = NoIndex
  NoReply = NoReply
PROPERTY RemovalReturns
CHECK_DEADLOCK FALSE
