CONSTANTS
  hb = hb
  vb = vb
  a1 = a1
  a2 = a2
  a3 = a3
  a4 = a4
  b1 = b1
  b2 = b2
  b3 = b3
  b4 = b4
  c1 = c1
  c2 = c2
  c3 = c3
  c4 = c4
  c5 = c5
  None = None
  FarFuture = 9
  Market = {hb, vb}
  Fill = {a1, a2, a3, a4, b1, b2, b3, b4}
  FillOf <- MCFillOf
  Flow = {c1, c2, c3, c4, c5}
  FlowOf <- MCFlowOf
  LayoutOf <- MCLayoutOf
SPECIFICATION Spec
INVARIANTS
  TypeOK
  AttributionSound
  SharedInstantGoesToClosingLeg
  ValuesMatchAttribution
  ClosedTradeEarnsItsCash
  ReviewIsExplained
