\* Three threads, three phases: each event is used, reset and used again.
\* Once the phases are over the threads stop.
CONSTANTS
  Threads = {t1, t2, t3}
  Modes = {"default", "spinOnly", "blockOnly"}
  Processors = 2
  MaxPhases = 3
  DeleteAfter = {"blockOnly"}
SPECIFICATION FairSpec
CHECK_DEADLOCK FALSE
INVARIANTS AssertedCount NoEarlyReturn OneSerialThread SafeToDelete
PROPERTIES AllPhasesPass
