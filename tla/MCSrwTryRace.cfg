\* A shared try that races the last shared release.
CONSTANTS
  t1 = t1
  t2 = t2
  t3 = t3
  Threads = {t1, t2}
  Nil = Nil
  Calls <- AllCalls
  Programs <- RacePrograms
SPECIFICATION MCSpec
INVARIANTS MutualExclusion
