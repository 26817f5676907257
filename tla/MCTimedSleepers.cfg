\* Three sleepers with a time-out, and nobody who wakes.
CONSTANTS
  Threads = {t1, t2, t3}
  Nil = Nil
  Calls <- AllCalls
  Programs <- TimedPrograms
SPECIFICATION MCSpec
INVARIANTS SecondWaitIsAnswered
