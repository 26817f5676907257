\* The programs for which the lock is right, three threads.
CONSTANTS
  t1 = t1
  t2 = t2
  t3 = t3
  Threads = {t1, t2, t3}
  Nil = Nil
  Calls <- AllCalls
  Programs <- SafePrograms
SPECIFICATION MCFairSpec
INVARIANTS TypeOK MutualExclusion LinkHasOneOwner NoDanglingNode NoLostWakeup SharedOwnersCounted
PROPERTIES ImplementsRwLock EveryAcquireReturns
