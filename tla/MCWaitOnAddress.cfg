\* Up to three waiters and two wakers, two locations in one bucket.
CONSTANTS
  A1 = A1
  A2 = A2
  t1 = t1
  t2 = t2
  t3 = t3
  t4 = t4
  Threads = {t1, t2, t3, t4}
  Nil = Nil
  Addresses = {A1, A2}
  HashBucket <- OneBucket
  Values = {0, 1}
  Calls <- AnyCalls
  Programs <- AllWaiters
SPECIFICATION MCFairSpec
INVARIANTS RingOfWaiters WalkStaysOnList
PROPERTIES ImplementsQueues StaleWaiterReturns
