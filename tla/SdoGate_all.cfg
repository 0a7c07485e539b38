SPECIFICATION MCSpec
CONSTANTS
  ProxyCallers = {p1, p2}
  TypedCallers = {t1}
  ProxyObjects = {"supported", "absent", "unsupported"}
  TypedObjects = {"supported", "absent"}
  SubmitThrows = TRUE
  SpuriousWakeups = TRUE
  MaxCalls = 4
  Nobody = nobody
  Mixes = {"services", "shared"}
  p1 = p1
  p2 = p2
  t1 = t1
INVARIANTS TypeOK ServicesOneAtATime OwnReply NoLostWakeup
PROPERTIES CompletionsDeliver CallsReturn
