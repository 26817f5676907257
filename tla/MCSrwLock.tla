----------------------------- MODULE MCSrwLock -----------------------------
(* SrwLock for model checking.  Programs are what the threads of a process  *)
(* call: a behaviour is one of a program the run chooses at the start.      *)
EXTENDS SrwLock

CONSTANTS Programs, t1, t2, t3

VARIABLE program

AllCalls == [t \in Threads |-> {"AcquireExclusive", "AcquireShared",
                                "TryAcquireExclusive", "TryAcquireShared"}]

(* The threads wait for either mode, and one tries for the exclusive one. *)
Waiters ==
    [t \in Threads |-> IF t = t1 THEN {"AcquireExclusive", "TryAcquireExclusive"}
                       ELSE {"AcquireExclusive", "AcquireShared"}]

(* Shared owners only. *)
SharedOnly == [t \in Threads |-> {"AcquireShared", "TryAcquireShared"}]

(* One thread reads, waiting or trying; the others try to write. *)
OneReader ==
    [t \in Threads |-> IF t = t1 THEN {"AcquireShared", "TryAcquireShared"}
                                ELSE {"TryAcquireExclusive"}]

(* One thread reads by trying; the others own the lock in either mode. *)
TryAgainstOwner ==
    [t \in Threads |-> IF t = t1 THEN {"TryAcquireShared"}
                                ELSE {"AcquireShared", "TryAcquireExclusive"}]

SafePrograms == {Waiters, SharedOnly, OneReader}
RacePrograms == {TryAgainstOwner}

MCInit == Init /\ program \in Programs

MCBegin(t) ==
    \/ "AcquireExclusive" \in program[t] /\ RtlAcquireSRWLockExclusive(t)
    \/ "AcquireShared" \in program[t] /\ RtlAcquireSRWLockShared(t)
    \/ "TryAcquireExclusive" \in program[t] /\ RtlTryAcquireSRWLockExclusive(t)
    \/ "TryAcquireShared" \in program[t] /\ RtlTryAcquireSRWLockShared(t)

MCNext == /\ \E t \in Threads : MCBegin(t) \/ End(t) \/ Work(t)
          /\ UNCHANGED program

MCSpec == MCInit /\ [][MCNext]_<<vars, program>>
MCFairSpec == MCSpec /\ Fairness
=============================================================================
