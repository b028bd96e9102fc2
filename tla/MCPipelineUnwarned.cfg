CONSTANTS
  r1 = r1
  r2 = r2
  hb = hb
  vb = vb
  a1 = a1
  a2 = a2
  b1 = b1
  b2 = b2
  c1 = c1
  c2 = c2
  None = None
  FarFuture = 9
  Market = {hb, vb}
  Fill = {a1, a2, b1, b2}
  FillOf <- MCFillOf
  Flow = {c1, c2}
  FlowOf <- MCFlowOf
  LayoutOf <- MCLayoutOf
  Run = {r1}
  Commands = {"sync", "refresh", "report"}
  VariationalFill = {b1, b2}
  VariationalFlow = {c2}
  MaxAborts = 0
SPECIFICATION PipelineSpec
INVARIANT UnwarnedFiguresAreCurrent
