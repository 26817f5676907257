\* Two waiters of one location and a WakeByAddressAll.
CONSTANTS
  A1 = A1
  A2 = A2
  t1 = t1
  t2 = t2
  t3 = t3
  t4 = t4
  Threads = {t1, t2, t3, t4}
  Nil = Nil
  Addresses = {A1, A2}
  HashBucket <- OneBucket
  Values = {0, 1}
  Calls <- AnyCalls
  Programs <- WakesAll
SPECIFICATION MCSpec
CHECK_DEADLOCK FALSE
INVARIANTS NoStaleWaiter
