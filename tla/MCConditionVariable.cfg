\* Four threads: the programs in which at most one sleeper has a time-out.
CONSTANTS
  Threads = {t1, t2, t3, t4}
  Nil = Nil
  Calls <- AllCalls
  Programs <- GoodPrograms
SPECIFICATION MCSpec
SYMMETRY Symmetry
INVARIANTS LinkHasOneOwner ListOfSleepers ReleaseMeetsSleeper SecondWaitIsAnswered
PROPERTIES RequestsKept
