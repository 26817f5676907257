\* Deletion by a thread that spun while another one blocks.
CONSTANTS
  Threads = {t1, t2, t3}
  Modes = {"default"}
  Processors = 3
  MaxPhases = 1
  DeleteAfter = {"default"}
SPECIFICATION Spec
CHECK_DEADLOCK FALSE
INVARIANTS SafeToDelete
