\* Two threads change one row and send the events in the wrong order.
SPECIFICATION Spec
CONSTANTS
  Threads = {t1, t2}
  Ids = {r1}
  Capacity = 2
  Depth = 1
  MaxChanges = 3
  MaxCalls = 2
INVARIANT
  SubscriberEndsUpRight
