------------------------------ MODULE IoQueue ------------------------------
(* The global I/O queue of the thread pool: a completion port and the       *)
(* thread that takes its packets.  What the thread does to the objects and  *)
(* the pool is added by the composing module.                               *)
EXTENDS Integers, Sequences, FiniteSets

CONSTANTS
    Ios,         \* the I/O objects
    NoKey,       \* the key of the packet that only wakes the thread
    MaxOps       \* bound on the operations of one object

ASSUME IoConstants == NoKey \notin Ios /\ MaxOps \in Nat

VARIABLES
    ioq,         \* ioqueue, with the state of its thread
    port,        \* packets of the completion port
    io           \* shutting_down, and the operations the kernel works on

ioVars == <<ioq, port, io>>

IoInit ==
    /\ ioq = [objcount |-> 0, pc |-> "none", key |-> NoKey]
    /\ port = <<>>
    /\ io = [o \in Ios |-> [shutting_down |-> FALSE, outstanding |-> 0, started |-> 0]]

(* The thread owns ioqueue.cs while it works on a packet. *)
IoCsFree == ioq.pc \notin {"packet", "again", "destroy", "tail"}

(* ioqueue.thread_running: reset by the thread after it left ioqueue.cs. *)
thread_running == ioq.pc # "none"

tp_ioqueue_lock(o) ==
    /\ IoCsFree
    /\ ioq' = [ioq EXCEPT !.objcount = @ + 1,
                 !.pc = IF ~thread_running \/ (@ = "idle" /\ ioq.objcount = 0) THEN "get" ELSE @]
    /\ UNCHANGED <<port, io>>

tp_ioqueue_unlock ==
    /\ IoCsFree
    /\ ioq' = [ioq EXCEPT !.objcount = @ - 1]
    /\ port' = IF ioq.objcount = 1 THEN Append(port, NoKey) ELSE port

(* The program starts an operation, or takes back one it could not start. *)
Starts(o) ==
    /\ io[o].started < MaxOps
    /\ io' = [io EXCEPT ![o].outstanding = @ + 1, ![o].started = @ + 1]
    /\ UNCHANGED <<ioq, port>>

TakesBack(o) ==
    /\ io[o].outstanding > 0
    /\ io' = [io EXCEPT ![o].outstanding = @ - 1]
    /\ UNCHANGED <<ioq, port>>

ShutsDown(o) == io' = [io EXCEPT ![o].shutting_down = TRUE]

(* The kernel completes an operation. *)
Completes(o) ==
    /\ io[o].outstanding > 0
    /\ io' = [io EXCEPT ![o].outstanding = @ - 1]
    /\ port' = Append(port, o)
    /\ UNCHANGED ioq

-----------------------------------------------------------------------------
(* ioqueue_thread_proc *)

IoGoto(pc) == ioq' = [ioq EXCEPT !.pc = pc] /\ UNCHANGED <<port, io>>

NtRemoveIoCompletion ==
    /\ ioq.pc = "get" /\ port # <<>>
    /\ ioq' = [ioq EXCEPT !.pc = "packet", !.key = Head(port)]
    /\ port' = Tail(port)
    /\ UNCHANGED io

(* After a packet: with no object left the thread waits for a last period. *)
IoThreadGoesOn ==
    \/ /\ ioq.pc = "packet" /\ ioq.key = NoKey /\ IoGoto("tail")
    \/ /\ ioq.pc = "tail" /\ IoGoto(IF ioq.objcount = 0 THEN "idle" ELSE "get")

IoThreadTimesOut ==
    \/ /\ ioq.pc = "idle" /\ IoGoto("late")
    \/ /\ ioq.pc = "late" /\ IoGoto(IF ioq.objcount = 0 THEN "exit" ELSE "get")

IoThreadEnds == ioq.pc = "exit" /\ IoGoto("none")

IoThreadStep == NtRemoveIoCompletion \/ IoThreadGoesOn \/ IoThreadTimesOut \/ IoThreadEnds

(* Types: of the I/O queue. *)
IoTypeOK ==
    /\ ioq \in [objcount : Nat, key : Ios \cup {NoKey},
                pc : {"none", "get", "packet", "again", "destroy", "tail", "idle", "late", "exit"}]
    /\ port \in Seq(Ios \cup {NoKey})
    /\ io \in [Ios -> [shutting_down : BOOLEAN, outstanding : Nat, started : Nat]]
=============================================================================
