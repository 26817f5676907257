SPECIFICATION Spec
CONSTANTS
  s1 = s1  a1 = a1  a2 = a2  tm1 = tm1  tm2 = tm2
  x1 = x1  x2 = x2  x3 = x3  x4 = x4  f1 = f1  c1 = c1  c2 = c2
  Objects = {s1, a1, a2, tm1, tm2, x1, x2, x3, x4, f1}
  Timers = {tm1, tm2}
  Waits = {x1, x2, x3, x4}
  Ios = {f1}
  Callers = {c1, c2}
  Workers = {w1, w2}
  Buckets = {b1, b2}
  Handles = {h1}
  Nil = Nil
  NoKey = NoKey
  NoBucket = NoBucket
  Type <- Kind
  Priority <- Urgency
  MaxWorkers = 2
  MaxPosts = 2
  MaxLate = 2
  MaxTime = 2
  Linger = 1
  MaxInBucket = 3
  MaxSignals = 2
  MaxOps = 2
  Timeouts <- Times
  Periods = {0, 1}
  Windows = {0, 2}
  Delays <- WaitTimes
  Limits = {0, 1, 2}
  Programs <- OnlyIoCancelled
PROPERTY CancelledStaysCancelled
CHECK_DEADLOCK FALSE
