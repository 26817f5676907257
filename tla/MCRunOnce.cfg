\* Three callers, a context with a low bit set among the contexts.
CONSTANTS
  t1 = t1
  t2 = t2
  t3 = t3
  Threads = {t1, t2, t3}
  Nil = Nil
  Contexts = {c1, bad}
  Unaligned = {bad}
  MaxFailures = 2
SPECIFICATION MCSpec
CHECK_DEADLOCK FALSE
INVARIANTS OneInitialiser SameContextForAll WaitersOnOneList
PROPERTIES DoneIsFinal LeftBusyOnlyUnaligned EveryBeginReturns
