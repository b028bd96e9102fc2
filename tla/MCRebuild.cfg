CONSTANTS
  Word <- MCWord
  Upper <- MCUpper
  Stripped <- MCStripped
  Native <- MCNative
  Short <- MCNative
  Wide <- MCWide
  None = None
  FarFuture = 3
  Quantity <- MCQuantity
  Time <- MCTime
  MaxFills = 8
  Tables <- MCTables
SPECIFICATION RebuildSpec
INVARIANTS
  RebuildTypeOK
  TradesAreHedges
  NoHedgeLeftBehind
  BestFreeCounterpart
  LegsAreOfOneMarket
  TradesHaveSymbols
  OpenLegsAreHoldings
PROPERTY ReplaySpec
