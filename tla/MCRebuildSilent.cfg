CONSTANTS
  Word <- MCWord
  Upper <- MCUpper
  Stripped <- MCStripped
  Native <- MCNative
  Short <- MCNative
  Wide <- MCWide
  None = None
  FarFuture = 99
  Quantity <- MCQuantity
  Time <- LongTime
  MaxFills = 8
  Tables <- TwoHedges
SPECIFICATION RebuildSpec
INVARIANT WrongPairingIsLoud
