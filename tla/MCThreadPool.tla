---------------------------- MODULE MCThreadPool ----------------------------
(* PoolService for model checking: the programs, and a small pool.          *)
EXTENDS PoolService

CONSTANTS s1, a1, a2, tm1, tm2, x1, x2, x3, x4, f1, c1, c2

Kind == [o \in Objects |-> CASE o = s1 -> "simple"
                             [] o \in {a1, a2} -> "work"
                             [] o \in {tm1, tm2} -> "timer"
                             [] o = f1 -> "io"
                             [] OTHER -> "wait"]
Urgency == [o \in Objects |-> IF o \in {s1, a2} THEN 1 ELSE 2]

Prog(callers, workers, objects, grouped, sets_, calls) ==
    [callers |-> callers, workers |-> workers, objects |-> objects, grouped |-> grouped,
     sets |-> sets_, calls |-> calls]

(* Two callers share a work item, whose callbacks do all they may; the pool *)
(* is released.                                                             *)
Shared == Prog({c1, c2}, 2, {a1}, {}, 0, {"post", "wait", "release", "releasepool", "long",
                                    "disassociate", "repost", "selfrelease", "idle"})

(* Items of two priorities, cancelled by their only user; the limits of the *)
(* pool change.                                                             *)
Limited == Prog({c1}, 2, {a1}, {}, 0, {"post", "cancel", "release", "limits", "allocfails", "idle"})
Cancelled == Prog({c1}, 2, {a1, a2}, {}, 0, {"post", "cancel", "release", "repost"})

(* A cleanup group with a simple callback and a work item. *)
Grouped == Prog({c1, c2}, 1, {s1, a1}, {s1, a1}, 0, {"post", "release", "group", "releasepool"})

TwoTimers == Prog({c1}, 1, {tm1, tm2}, {}, 2, {"tick", "window", "release", "rearm"})
TimerInGroup == Prog({c1}, 1, {tm1}, {tm1}, 2, {"tick", "cancel", "group", "selfrelease", "releasepool"})

TwoWaits == Prog({c1}, 1, {x1, x2}, {}, 2, {"signal", "release"})
WaitInGroup == Prog({c1}, 1, {x1}, {x1}, 2, {"signal", "cancel", "group", "selfrelease"})
TimedWait == Prog({c1}, 1, {x1}, {}, 2, {"tick", "signal", "release"})
FullBuckets == Prog({c1}, 1, {x1, x2, x3, x4}, {}, 1, {"release"})

Io == Prog({c1, c2}, 2, {f1}, {}, 0, {"wait", "release", "cancelio"})
IoNoMemory == Prog({c1}, 2, {f1}, {}, 0, {"release", "nomem"})
IoCancelled == Prog({c1}, 2, {f1}, {}, 0, {"cancel", "release"})

All == {Shared, Limited, Cancelled, Grouped, TwoTimers, TimerInGroup, TwoWaits, WaitInGroup,
        TimedWait, FullBuckets, Io, IoNoMemory, IoCancelled}

(* Two callers of which one cancels what the other one waits for. *)
WaitAndCancel == {Prog({c1, c2}, 2, {a1}, {}, 0, {"post", "wait", "cancel"})}

OnlyIoCancelled == {IoCancelled}

Times == {<<"abs", 2>>, <<"rel", 1>>, <<"zero", 0>>, <<"null", 0>>}
WaitTimes == {1, Never}
=============================================================================
