SPECIFICATION MCSpec
CONSTANTS
  ProxyCallers = {p1}
  TypedCallers = {t1}
  ProxyObjects = {"supported"}
  TypedObjects = {"supported"}
  SubmitThrows = FALSE
  SpuriousWakeups = FALSE
  MaxCalls = 3
  Nobody = nobody
  Mixes = {"any"}
  p1 = p1
  t1 = t1
INVARIANTS
  OneRequestAtATime
