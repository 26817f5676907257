------------------------------- MODULE Clock -------------------------------
(* The time the service threads of the pool measure, in units of a step.    *)
(* The code reads a performance counter, adds delays in units of 100 ns to  *)
(* it and hands the differences to NtSetTimer as such units: one clock      *)
(* stands for both, as it does for a counter that runs at 10 MHz.           *)
EXTENDS Lists

CONSTANT MaxTime     \* bound on the clock

ASSUME TimeIsBounded == MaxTime \in Nat

VARIABLE now         \* NtQuerySystemTime and NtQueryPerformanceCounter

(* TIMEOUT_INFINITE and MAXLONGLONG: later than any deadline. *)
Never == 4 * MaxTime + 8
=============================================================================
